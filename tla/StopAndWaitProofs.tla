-------------------------- MODULE StopAndWaitProofs ---------------------------
(***************************************************************************)
(* Until a timeout comes while a frame or a reply is on its way the link   *)
(* is stop and wait: at most one of them is on its way, which answers the  *)
(* pending message, so that the flow goes on for the right command and     *)
(* ANTServer implements StopAndWait.                                       *)
(***************************************************************************)
EXTENDS ANTServerProofs

------------------------------------------------------------------------------
(* The inductive invariant *)

(* Reply i of conveyor c answers a message. *)
Answers(c, i) == uplink[c][i].id # "PACKAGE_ARRIVED"

(* It can be taken for the answer to the pending message, and says so      *)
(* rightly: a command that it answers was executed.                        *)
AnswersPending(c, reply) ==
    /\ c = pending_msg.conveyor
    /\ reply.id # "CONVEYOR_STATE_RESPONSE" =>
          pending_msg.id # "CONVEYOR_STATE" /\ pending_msg.uid \in executed
    /\ reply.id = "CLEAR_BOX_RESPONSE" => reply.box = BoxAt[c]

(* Nothing is on its way between exchanges, nor once the timer expired.    *)
Quiet ==
    /\ waiting = NotWaiting \/ timed_out => NothingInFlight
    /\ waiting = NotWaiting => ~timer_running /\ ~timed_out

(* A frame on its way is the pending message, and no reply is. *)
FrameIsPending ==
    air # NoFrame =>
        /\ air.msg = pending_msg
        /\ \A c \in ConveyorId : \A i \in DOMAIN uplink[c] : ~Answers(c, i)

(* A reply on its way answers the pending message, and is the only one.    *)
ReplyIsToPending ==
    \A c \in ConveyorId : \A i \in DOMAIN uplink[c] :
        Answers(c, i) =>
            /\ AnswersPending(c, uplink[c][i])
            /\ \A d \in ConveyorId : \A j \in DOMAIN uplink[d] :
                  Answers(d, j) => d = c /\ j = i

OneInFlight == Quiet /\ FrameIsPending /\ ReplyIsToPending

(* The commands that wait are new, each once. *)
QueueIsNew ==
    \A i \in DOMAIN antTx :
        /\ antTx[i].uid <= submitted
        /\ antTx[i].uid \notin executed
        /\ antTx[i].uid # pending_msg.uid
        /\ \A j \in DOMAIN antTx : antTx[i].uid = antTx[j].uid => i = j

Numbered ==
    /\ executed \subseteq 1 .. submitted
    /\ pending_msg.uid <= submitted
    /\ checking => pending_input.uid = pending_msg.uid
    /\ QueueIsNew

OnTimeInv == ~early => OneInFlight /\ Numbered

------------------------------------------------------------------------------
(* What is on its way *)

(* Taking or losing a reply moves up those behind it. *)
LEMMA Shifted ==
    ASSUME TypeOK, NEW c \in ConveyorId, uplink[c] # <<>>,
           uplink' = [uplink EXCEPT ![c] = Tail(@)],
           NEW d \in ConveyorId, NEW j \in DOMAIN uplink'[d]
    PROVE  \E i \in DOMAIN uplink[d] :
              /\ uplink'[d][j] = uplink[d][i]
              /\ i = IF d = c THEN j + 1 ELSE j
<1>1. uplink[d] \in Seq(Reply) /\ uplink \in [ConveyorId -> Seq(Reply)]
  BY DEF TypeOK
<1>2. CASE d # c
  BY <1>1, <1>2
<1>3. CASE d = c
  <2>1. uplink'[d] = Tail(uplink[d])
    BY <1>1, <1>3
  <2>2. /\ j \in 1 .. Len(uplink[d]) - 1
        /\ Tail(uplink[d])[j] = uplink[d][j + 1]
        /\ Len(uplink[d]) \in Nat
    BY <1>1, <1>3, <2>1
  <2>3. j + 1 \in DOMAIN uplink[d]
    BY <1>1, <2>2
  <2> QED
    BY <1>3, <2>1, <2>2, <2>3
<1> QED
  BY <1>2, <1>3

(* With a reply less and the rest as it was, the invariant still holds. *)
LEMMA OneLess ==
    ASSUME TypeOK, OneInFlight, NEW c \in ConveyorId, uplink[c] # <<>>,
           uplink' = [uplink EXCEPT ![c] = Tail(@)],
           UNCHANGED <<waiting, timer_running, timed_out, air, pending_msg,
                       executed>>
    PROVE  OneInFlight'
<1>1. ASSUME NEW d \in ConveyorId, NEW j \in DOMAIN uplink'[d]
      PROVE  \E i \in DOMAIN uplink[d] :
                /\ uplink'[d][j] = uplink[d][i]
                /\ i = IF d = c THEN j + 1 ELSE j
  BY Shifted, ZenonT(30)
<1>2. Quiet'
  BY <1>1 DEF OneInFlight, Quiet, NothingInFlight
<1>3. FrameIsPending'
  BY <1>1 DEF OneInFlight, FrameIsPending, Answers
<1>4. ReplyIsToPending'
  <2> SUFFICES ASSUME NEW d \in ConveyorId, NEW j \in DOMAIN uplink'[d],
                      Answers(d, j)'
               PROVE  /\ AnswersPending(d, uplink[d][j])'
                      /\ \A e \in ConveyorId : \A k \in DOMAIN uplink'[e] :
                            Answers(e, k)' => e = d /\ k = j
    BY DEF ReplyIsToPending
  <2>1. PICK i \in DOMAIN uplink[d] :
          /\ uplink'[d][j] = uplink[d][i]
          /\ i = IF d = c THEN j + 1 ELSE j
    BY <1>1
  <2>2. Answers(d, i)
    BY <2>1 DEF Answers
  <2>3. AnswersPending(d, uplink[d][j])'
    BY <2>1, <2>2 DEF OneInFlight, ReplyIsToPending, AnswersPending
  <2>4. ASSUME NEW e \in ConveyorId, NEW k \in DOMAIN uplink'[e],
               Answers(e, k)'
        PROVE  e = d /\ k = j
    <3>1. PICK h \in DOMAIN uplink[e] :
            /\ uplink'[e][k] = uplink[e][h]
            /\ h = IF e = c THEN k + 1 ELSE k
      BY <1>1
    <3>2. Answers(e, h)
      BY <2>4, <3>1 DEF Answers
    <3>3. e = d /\ h = i
      BY <2>2, <3>2 DEF OneInFlight, ReplyIsToPending
    <3>4. j \in Int /\ k \in Int
      <4>1. uplink' \in [ConveyorId -> Seq(Reply)]
        BY DEF TypeOK
      <4> QED
        BY <4>1
    <3> QED
      BY <2>1, <3>1, <3>3, <3>4
  <2> QED
    BY <2>3, <2>4
<1> QED
  BY <1>2, <1>3, <1>4 DEF OneInFlight

(* The first reply to a message is the only thing on its way: once it is   *)
(* taken nothing is.                                                       *)
LEMMA LastTaken ==
    ASSUME TypeOK, OneInFlight, NEW c \in ConveyorId, uplink[c] # <<>>,
           Head(uplink[c]).id # "PACKAGE_ARRIVED",
           uplink' = [uplink EXCEPT ![c] = Tail(@)]
    PROVE  /\ AnswersPending(c, Head(uplink[c]))
           /\ air = NoFrame
           /\ ~timed_out
           /\ \A d \in ConveyorId : \A j \in DOMAIN uplink'[d] :
                 uplink'[d][j].id = "PACKAGE_ARRIVED"
<1>1. /\ 1 \in DOMAIN uplink[c]
      /\ Head(uplink[c]) = uplink[c][1]
      /\ Answers(c, 1)
  BY DEF TypeOK, Answers
<1>2. AnswersPending(c, Head(uplink[c])) /\ air = NoFrame /\ ~timed_out
  BY <1>1 DEF OneInFlight, Quiet, NothingInFlight, FrameIsPending,
              ReplyIsToPending, Answers
<1>3. ASSUME NEW d \in ConveyorId, NEW j \in DOMAIN uplink'[d]
      PROVE  uplink'[d][j].id = "PACKAGE_ARRIVED"
  <2>1. PICK i \in DOMAIN uplink[d] :
          /\ uplink'[d][j] = uplink[d][i]
          /\ i = IF d = c THEN j + 1 ELSE j
    BY Shifted, ZenonT(30)
  <2>2. j \in Nat \ {0}
    <3>1. uplink' \in [ConveyorId -> Seq(Reply)]
      BY DEF TypeOK
    <3> QED
      BY <3>1
  <2>3. ~(d = c /\ i = 1)
    BY <2>1, <2>2
  <2> QED
    BY <1>1, <2>1, <2>3 DEF OneInFlight, ReplyIsToPending, Answers
<1> QED
  BY <1>2, <1>3

(* A new exchange begins with nothing on its way. *)
LEMMA SentInFlight ==
    ASSUME TypeOK, NEW msg \in Message, SendAndWait(msg, ReplyTo(msg.id)),
           air = NoFrame, ~timed_out,
           \A c \in ConveyorId : \A i \in DOMAIN uplink'[c] :
              uplink'[c][i].id = "PACKAGE_ARRIVED",
           UNCHANGED timed_out
    PROVE  OneInFlight'
<1>1. pending_msg' = msg /\ waiting' # NotWaiting
  BY NewExchange
<1>2. air'.msg = msg
  BY DEF SendAndWait, send_message_to_driver
<1> QED
  BY <1>1, <1>2 DEF OneInFlight, Quiet, FrameIsPending, ReplyIsToPending,
                    Answers

(* The exchange ends with nothing on its way. *)
LEMMA StoppedInFlight ==
    ASSUME StopWaiting, air' = NoFrame, ~timed_out,
           \A c \in ConveyorId : \A i \in DOMAIN uplink'[c] :
              uplink'[c][i].id = "PACKAGE_ARRIVED",
           UNCHANGED timed_out
    PROVE  OneInFlight'
BY DEF StopWaiting, OneInFlight, Quiet, NothingInFlight, FrameIsPending,
       ReplyIsToPending, Answers

------------------------------------------------------------------------------
(* Each action preserves the invariant *)

LEMMA UidTyped ==
    ASSUME TypeOK
    PROVE  /\ submitted \in Nat
           /\ pending_msg.uid \in Nat
           /\ pending_msg # NoMessage => pending_msg.uid \in Nat \ {0}
           /\ antTx \in Seq(Command)
           /\ \A msg \in Message : msg.uid \in Nat \ {0}
           /\ \A i \in DOMAIN antTx : antTx[i].uid \in Nat \ {0}
<1>1. \A msg \in Message : msg.uid \in Nat \ {0}
  BY LinkAssumption DEF Message, Command, AddPackage, StateRequest, Uid
<1>2. \A i \in DOMAIN antTx : antTx[i] \in Message
  BY NothingTyped DEF TypeOK
<1> QED
  BY <1>1, <1>2 DEF TypeOK, NoMessage

LEMMA EnqueueOnTime ==
    ASSUME LinkInv, OneInFlight, Numbered, NEW msg \in Command,
           enqueue_message(msg)
    PROVE  OneInFlight' /\ Numbered'
<1>1. /\ msg.uid = submitted + 1
      /\ submitted' = submitted + 1
      /\ antTx' = Append(antTx, msg)
      /\ UNCHANGED <<pending_msg, pending_input, checking, waiting,
                     timer_running, timed_out, air, uplink, executed>>
  BY DEF enqueue_message, server, timer, plant
<1>2. OneInFlight'
  BY <1>1 DEF OneInFlight, Quiet, NothingInFlight, FrameIsPending,
              ReplyIsToPending, Answers, AnswersPending
<1>3. /\ submitted \in Nat
      /\ pending_msg.uid \in Nat
      /\ antTx \in Seq(Command)
      /\ \A i \in DOMAIN antTx : antTx[i].uid \in Nat \ {0}
  BY UidTyped DEF LinkInv
<1>4. \A i \in DOMAIN antTx' :
        \/ i \in DOMAIN antTx /\ antTx'[i] = antTx[i]
        \/ i = Len(antTx) + 1 /\ antTx'[i] = msg
  BY <1>1, <1>3
<1>5. submitted + 1 \notin executed /\ pending_msg.uid # submitted + 1
  BY <1>3 DEF Numbered
<1>6. \A i \in DOMAIN antTx : antTx[i].uid # submitted + 1
  BY <1>3 DEF Numbered, QueueIsNew
<1>7. QueueIsNew'
  <2> SUFFICES ASSUME NEW i \in DOMAIN antTx'
               PROVE  /\ antTx'[i].uid <= submitted'
                      /\ antTx'[i].uid \notin executed'
                      /\ antTx'[i].uid # pending_msg'.uid
                      /\ \A j \in DOMAIN antTx' :
                            antTx'[i].uid = antTx'[j].uid => i = j
    BY DEF QueueIsNew
  <2>1. CASE i \in DOMAIN antTx /\ antTx'[i] = antTx[i]
    <3>1. \A j \in DOMAIN antTx' : antTx'[i].uid = antTx'[j].uid => i = j
      BY <1>1, <1>4, <1>6, <2>1 DEF Numbered, QueueIsNew
    <3> QED
      BY <1>1, <1>3, <2>1, <3>1 DEF Numbered, QueueIsNew
  <2>2. CASE i = Len(antTx) + 1 /\ antTx'[i] = msg
    <3>1. \A j \in DOMAIN antTx' : antTx'[i].uid = antTx'[j].uid => i = j
      BY <1>1, <1>4, <1>6, <2>2
    <3> QED
      BY <1>1, <1>3, <1>5, <2>2, <3>1
  <2> QED
    BY <1>4, <2>1, <2>2
<1>8. executed' \subseteq 1 .. submitted' /\ pending_msg'.uid <= submitted'
  BY <1>1, <1>3 DEF Numbered
<1> QED
  BY <1>1, <1>2, <1>7, <1>8 DEF Numbered

LEMMA HandleQueueOnTime ==
    ASSUME LinkInv, OneInFlight, Numbered, handle_queue
    PROVE  OneInFlight' /\ Numbered'
<1> DEFINE msg == Head(antTx)
           request == [id |-> "CONVEYOR_STATE", conveyor |-> msg.conveyor,
                       uid |-> msg.uid]
<1>1. /\ antTx # <<>>
      /\ antTx' = Tail(antTx)
      /\ UNCHANGED <<timed_out, uplink, executed, submitted>>
      /\ send_ANT_message(msg)
  BY DEF handle_queue, plant, world
<1>2. /\ antTx \in Seq(Command)
      /\ msg \in Command
      /\ msg = antTx[1]
      /\ 1 \in DOMAIN antTx
      /\ \A i \in DOMAIN antTx' :
            i + 1 \in DOMAIN antTx /\ antTx'[i] = antTx[i + 1]
                                   /\ i \in Nat \ {0}
  BY <1>1 DEF LinkInv, TypeOK
<1>3. waiting = NotWaiting /\ checking = FALSE
  BY DEF handle_queue, LinkInv, FieldsAgree, TypeOK, NoMessage
<1>4. /\ air = NoFrame
      /\ ~timed_out
      /\ \A c \in ConveyorId : \A i \in DOMAIN uplink'[c] :
            uplink'[c][i].id = "PACKAGE_ARRIVED"
  BY <1>1, <1>3 DEF OneInFlight, Quiet, NothingInFlight
<1>5. PICK sent \in Message :
        /\ SendAndWait(sent, ReplyTo(sent.id))
        /\ sent.uid = msg.uid
        /\ checking' => pending_input'.uid = msg.uid
  <2>1. CASE msg.id = "ADD_PACKAGE"
    <3>1. /\ pending_input' = msg
          /\ SendAndWait(request, ReplyTo(request.id))
      BY <1>1, <2>1, LinkAssumption
         DEF send_ANT_message, send_conveyor_state_request, ReplyTo,
             PlainMessage
    <3>2. request \in Message
      BY <1>2, <2>1, LinkAssumption
         DEF Message, StateRequest, Command, AddPackage, PlainMessage
    <3> QED
      BY <3>1, <3>2
  <2>2. CASE msg.id # "ADD_PACKAGE"
    <3>1. /\ checking' = FALSE
          /\ SendAndWait(msg, ReplyTo(msg.id))
      BY <1>1, <1>3, <2>2, LinkAssumption
         DEF send_ANT_message, ReplyTo, PlainMessage
    <3> QED
      BY <1>2, <3>1 DEF Message
  <2> QED
    BY <2>1, <2>2
<1>6. OneInFlight'
  BY <1>1, <1>4, <1>5, SentInFlight DEF LinkInv
<1>7. pending_msg'.uid = msg.uid
  BY <1>5 DEF SendAndWait, send_message_to_driver
<1>8. \A i \in DOMAIN antTx' :
        \A j \in DOMAIN antTx' : antTx'[i].uid = antTx'[j].uid => i = j
  BY <1>2 DEF Numbered, QueueIsNew
<1>9. QueueIsNew'
  BY <1>1, <1>2, <1>7, <1>8 DEF Numbered, QueueIsNew
<1> QED
  BY <1>1, <1>2, <1>5, <1>6, <1>7, <1>9 DEF Numbered, QueueIsNew

(* A reply that changes nothing of the exchange. *)
LEMMA PassedOver ==
    ASSUME LinkInv, OneInFlight, Numbered, NEW c \in ConveyorId, NEW id,
           TakeReply(c, id),
           UNCHANGED <<flow_control, server, timer_running, air>>
    PROVE  OneInFlight' /\ Numbered'
<1>1. /\ uplink[c] # <<>>
      /\ uplink' = [uplink EXCEPT ![c] = Tail(@)]
      /\ UNCHANGED <<antTx, pending_msg, pending_input, checking, waiting,
                     timer_running, timed_out, air, executed, submitted>>
  BY DEF TakeReply, plant, world, server
<1>2. OneInFlight'
  BY <1>1, OneLess DEF LinkInv
<1> QED
  BY <1>1, <1>2 DEF Numbered, QueueIsNew

(* What a reply taken and awaited leaves on its way: nothing. *)
LEMMA TakenInFlight ==
    ASSUME LinkInv, OneInFlight, NEW c \in ConveyorId, NEW id,
           TakeReply(c, id), id # "PACKAGE_ARRIVED"
    PROVE  /\ AnswersPending(c, Head(uplink[c]))
           /\ Head(uplink[c]).id = id
           /\ air = NoFrame
           /\ ~timed_out
           /\ \A d \in ConveyorId : \A j \in DOMAIN uplink'[d] :
                 uplink'[d][j].id = "PACKAGE_ARRIVED"
           /\ UNCHANGED <<antTx, timed_out, executed, submitted>>
<1>1. /\ uplink[c] # <<>>
      /\ Head(uplink[c]).id = id
      /\ uplink' = [uplink EXCEPT ![c] = Tail(@)]
      /\ UNCHANGED <<antTx, timed_out, executed, submitted>>
  BY DEF TakeReply, plant, world
<1> QED
  BY <1>1, LastTaken DEF LinkInv

(* A package is held back only while a state is awaited. *)
LEMMA NotChecking ==
    ASSUME LinkInv, waiting # NotWaiting,
           waiting.id # "CONVEYOR_STATE_RESPONSE"
    PROVE  /\ checking = FALSE
           /\ pending_msg # NoMessage
           /\ flow_control = "STOP"
<1>1. /\ flow_control = "STOP"
      /\ pending_msg # NoMessage
      /\ waiting.id = ReplyTo(pending_msg.id)
  BY DEF LinkInv, FieldsAgree
<1>2. pending_msg.id # "CONVEYOR_STATE"
  BY <1>1 DEF ReplyTo
<1> QED
  BY <1>1, <1>2 DEF LinkInv, FieldsAgree, TypeOK

(* The exchange ends: the numbers say nothing of a pending command. *)
LEMMA StoppedNumbered ==
    ASSUME LinkInv, Numbered, waiting # NotWaiting,
           waiting.id # "CONVEYOR_STATE_RESPONSE", StopWaiting,
           UNCHANGED <<antTx, checking, executed, submitted>>
    PROVE  Numbered'
<1>1. checking' = FALSE
  BY NotChecking
<1>2. pending_msg'.uid = 0
  BY DEF StopWaiting, NoMessage
<1>3. submitted \in Nat /\ \A i \in DOMAIN antTx : antTx[i].uid # 0
  BY UidTyped DEF LinkInv
<1> QED
  BY <1>1, <1>2, <1>3 DEF Numbered, QueueIsNew

(* An acknowledgement that is awaited. *)
LEMMA AwaitedReceipt ==
    ASSUME LinkInv, NEW c \in ConveyorId, TakeReply(c, "MESSAGE_RECEIVED"),
           AwaitsReceipt(Head(uplink[c]))
    PROVE  waiting # NotWaiting /\ waiting.id # "CONVEYOR_STATE_RESPONSE"
<1>1. /\ Head(uplink[c]) \in Reply
      /\ Head(uplink[c]).id = "MESSAGE_RECEIVED"
  BY TakeReplyTyped DEF LinkInv
<1>2. Head(uplink[c]).of \in PlainId \union {"ADD_PACKAGE"}
  BY <1>1 DEF Reply
<1> QED
  BY <1>2, LinkAssumption DEF AwaitsReceipt, PlainMessage, NotWaiting

LEMMA ReceivedOnTime ==
    ASSUME LinkInv, OneInFlight, Numbered, NEW c \in ConveyorId,
           receive_MESSAGE_RECEIVED(c)
    PROVE  OneInFlight' /\ Numbered'
<1>1. TakeReply(c, "MESSAGE_RECEIVED")
  BY DEF receive_MESSAGE_RECEIVED
<1>2. CASE ~AwaitsReceipt(Head(uplink[c]))
  BY <1>1, <1>2, PassedOver DEF receive_MESSAGE_RECEIVED, Ignored
<1>3. CASE AwaitsReceipt(Head(uplink[c]))
  <2>1. /\ StopWaiting
        /\ UNCHANGED <<checking, air>>
    BY <1>3 DEF receive_MESSAGE_RECEIVED
  <2>2. waiting # NotWaiting /\ waiting.id # "CONVEYOR_STATE_RESPONSE"
    BY <1>1, <1>3, AwaitedReceipt
  <2>3. /\ air = NoFrame
        /\ ~timed_out
        /\ \A d \in ConveyorId : \A j \in DOMAIN uplink'[d] :
              uplink'[d][j].id = "PACKAGE_ARRIVED"
        /\ UNCHANGED <<antTx, timed_out, executed, submitted>>
    BY <1>1, TakenInFlight
  <2>4. OneInFlight'
    BY <2>1, <2>3, StoppedInFlight
  <2>5. Numbered'
    BY <2>1, <2>2, <2>3, StoppedNumbered
  <2> QED
    BY <2>4, <2>5
<1> QED
  BY <1>2, <1>3

LEMMA ClearedOnTime ==
    ASSUME LinkInv, OneInFlight, Numbered, NEW c \in ConveyorId,
           receive_CLEAR_BOX_RESPONSE(c)
    PROVE  OneInFlight' /\ Numbered'
<1>1. TakeReply(c, "CLEAR_BOX_RESPONSE")
  BY DEF receive_CLEAR_BOX_RESPONSE
<1>2. CASE waiting.id # "CLEAR_BOX_RESPONSE"
  BY <1>1, <1>2, PassedOver DEF receive_CLEAR_BOX_RESPONSE, Ignored
<1>3. CASE waiting.id = "CLEAR_BOX_RESPONSE"
  <2>1. /\ StopWaiting
        /\ UNCHANGED <<checking, air>>
    BY <1>3 DEF receive_CLEAR_BOX_RESPONSE
  <2>2. waiting # NotWaiting /\ waiting.id # "CONVEYOR_STATE_RESPONSE"
    BY <1>3 DEF NotWaiting
  <2>3. /\ air = NoFrame
        /\ ~timed_out
        /\ \A d \in ConveyorId : \A j \in DOMAIN uplink'[d] :
              uplink'[d][j].id = "PACKAGE_ARRIVED"
        /\ UNCHANGED <<antTx, timed_out, executed, submitted>>
    BY <1>1, TakenInFlight
  <2>4. OneInFlight'
    BY <2>1, <2>3, StoppedInFlight
  <2>5. Numbered'
    BY <2>1, <2>2, <2>3, StoppedNumbered
  <2> QED
    BY <2>4, <2>5
<1> QED
  BY <1>2, <1>3

(* The state of the input conveyor that is awaited: another message of the *)
(* same command follows.                                                   *)
LEMMA StateOnTime ==
    ASSUME LinkInv, OneInFlight, Numbered, NEW c \in ConveyorId,
           TakeReply(c, "CONVEYOR_STATE_RESPONSE"), AwaitsState(c),
           NEW msg \in Message, SendAndWait(msg, ReplyTo(msg.id)),
           msg.uid = pending_input.uid,
           checking' => pending_input' = pending_input
    PROVE  OneInFlight' /\ Numbered'
<1>1. /\ air = NoFrame
      /\ ~timed_out
      /\ \A d \in ConveyorId : \A j \in DOMAIN uplink'[d] :
            uplink'[d][j].id = "PACKAGE_ARRIVED"
      /\ UNCHANGED <<antTx, timed_out, executed, submitted>>
  BY TakenInFlight
<1>2. OneInFlight'
  BY <1>1, SentInFlight DEF LinkInv
<1>3. checking = TRUE
  BY AwaitedState
<1>4. pending_msg'.uid = pending_msg.uid
  BY <1>3 DEF Numbered, SendAndWait, send_message_to_driver
<1>5. checking' => pending_input'.uid = pending_msg'.uid
  BY <1>3, <1>4 DEF Numbered
<1> QED
  BY <1>1, <1>2, <1>4, <1>5 DEF Numbered, QueueIsNew

LEMMA AvailableOnTime ==
    ASSUME LinkInv, OneInFlight, Numbered, NEW c \in ConveyorId,
           receive_CONVEYOR_STATE_available(c)
    PROVE  OneInFlight' /\ Numbered'
<1>1. TakeReply(c, "CONVEYOR_STATE_RESPONSE") /\ AwaitsState(c)
  BY DEF receive_CONVEYOR_STATE_available
<1>2. pending_input # NoMessage /\ pending_input \in AddPackage
  BY <1>1, AwaitedState
<1>3. /\ checking' = FALSE
      /\ SendAndWait(pending_input, ReplyTo(pending_input.id))
  BY <1>2 DEF receive_CONVEYOR_STATE_available, AddPackage, ReplyTo
<1>4. pending_input \in Message
  BY <1>2 DEF Message, Command
<1> QED
  BY <1>1, <1>3, <1>4, StateOnTime

LEMMA UnavailableOnTime ==
    ASSUME LinkInv, OneInFlight, Numbered, NEW c \in ConveyorId,
           receive_CONVEYOR_STATE_unavailable(c)
    PROVE  OneInFlight' /\ Numbered'
<1> DEFINE request == [id |-> "CONVEYOR_STATE", conveyor |-> c,
                       uid |-> pending_input.uid]
<1>1. TakeReply(c, "CONVEYOR_STATE_RESPONSE") /\ AwaitsState(c)
  BY DEF receive_CONVEYOR_STATE_unavailable
<1>2. /\ pending_input # NoMessage
      /\ pending_input \in AddPackage
      /\ c = INPUT_CONVEYOR_ID
  BY <1>1, AwaitedState
<1>3. /\ SendAndWait(request, ReplyTo(request.id))
      /\ pending_input' = pending_input
  BY <1>2 DEF receive_CONVEYOR_STATE_unavailable,
              send_conveyor_state_request, ReplyTo
<1>4. request \in Message /\ request.uid = pending_input.uid
  BY <1>2, StateRequestTyped
<1> QED
  BY <1>1, <1>3, <1>4, StateOnTime

LEMMA ReceiveOnTime ==
    ASSUME LinkInv, OneInFlight, Numbered, NEW c \in ConveyorId,
           receive_ANT_message(c)
    PROVE  OneInFlight' /\ Numbered'
<1>1. CASE receive_MESSAGE_RECEIVED(c)
  BY <1>1, ReceivedOnTime
<1>2. CASE receive_CONVEYOR_STATE_available(c)
  BY <1>2, AvailableOnTime
<1>3. CASE receive_CONVEYOR_STATE_unavailable(c)
  BY <1>3, UnavailableOnTime
<1>4. CASE receive_CONVEYOR_STATE_ignored(c)
  BY <1>4, PassedOver DEF receive_CONVEYOR_STATE_ignored, Ignored
<1>5. CASE receive_CLEAR_BOX_RESPONSE(c)
  BY <1>5, ClearedOnTime
<1>6. CASE receive_PACKAGE_ARRIVED(c)
  BY <1>6, PassedOver DEF receive_PACKAGE_ARRIVED
<1> QED
  BY <1>1, <1>2, <1>3, <1>4, <1>5, <1>6 DEF receive_ANT_message

(* The timer expires after the exchange is over or lost. *)
LEMMA TimerOnTime ==
    ASSUME LinkInv, OneInFlight, Numbered, ~early', timer_expires
    PROVE  OneInFlight' /\ Numbered'
<1>1. /\ NothingInFlight
      /\ timer_running
      /\ timer_running' = FALSE
      /\ UNCHANGED <<antTx, pending_msg, pending_input, checking, waiting,
                     air, uplink, executed, submitted>>
  BY DEF timer_expires, server, plant
<1>2. waiting # NotWaiting
  BY <1>1 DEF OneInFlight, Quiet
<1>3. OneInFlight'
  BY <1>1, <1>2 DEF OneInFlight, Quiet, NothingInFlight, FrameIsPending,
                    ReplyIsToPending, Answers
<1> QED
  BY <1>1, <1>3 DEF Numbered, QueueIsNew

(* The message is sent again into silence. *)
LEMMA TimedOutOnTime ==
    ASSUME LinkInv, OneInFlight, Numbered, pending_message_timed_out
    PROVE  OneInFlight' /\ Numbered'
<1>1. /\ timed_out
      /\ timed_out' = FALSE
      /\ UNCHANGED <<antTx, pending_input, checking, waiting, uplink,
                     executed, submitted>>
  BY DEF pending_message_timed_out, plant, world
<1>2. waiting # NotWaiting /\ NothingInFlight
  BY <1>1 DEF OneInFlight, Quiet
<1>3. pending_msg # NoMessage
  BY <1>2 DEF LinkInv, FieldsAgree
<1>4. /\ pending_msg' = pending_msg
      /\ air'.msg = pending_msg
  BY <1>2, <1>3
     DEF pending_message_timed_out, send_message_to_driver, NothingInFlight
<1>5. OneInFlight'
  BY <1>1, <1>2, <1>4
     DEF OneInFlight, Quiet, NothingInFlight, FrameIsPending,
         ReplyIsToPending, Answers
<1> QED
  BY <1>1, <1>4, <1>5 DEF Numbered, QueueIsNew

LEMMA AirLosesOnTime ==
    ASSUME LinkInv, OneInFlight, Numbered, air_loses
    PROVE  OneInFlight' /\ Numbered'
<1>1. /\ air' = NoFrame
      /\ UNCHANGED <<antTx, pending_msg, pending_input, checking, waiting,
                     timer_running, timed_out, uplink, executed, submitted>>
  BY DEF air_loses, server, timer, plant, world
<1>2. OneInFlight'
  BY <1>1 DEF OneInFlight, Quiet, NothingInFlight, FrameIsPending,
              ReplyIsToPending, Answers, AnswersPending
<1> QED
  BY <1>1, <1>2 DEF Numbered, QueueIsNew

LEMMA UplinkLosesOnTime ==
    ASSUME LinkInv, OneInFlight, Numbered, NEW c \in ConveyorId,
           uplink_loses(c)
    PROVE  OneInFlight' /\ Numbered'
<1>1. /\ uplink[c] # <<>>
      /\ uplink' = [uplink EXCEPT ![c] = Tail(@)]
      /\ UNCHANGED <<antTx, pending_msg, pending_input, checking, waiting,
                     timer_running, timed_out, air, executed, submitted>>
  BY DEF uplink_loses, server, timer, plant, world
<1>2. OneInFlight'
  BY <1>1, OneLess DEF LinkInv
<1> QED
  BY <1>1, <1>2 DEF Numbered, QueueIsNew

(* A reply is appended to those of its conveyor. *)
LEMMA Appended ==
    ASSUME TypeOK, NEW c \in ConveyorId, NEW reply,
           uplink' = [uplink EXCEPT ![c] = Append(@, reply)],
           NEW d \in ConveyorId, NEW j \in DOMAIN uplink'[d]
    PROVE  \/ j \in DOMAIN uplink[d] /\ uplink'[d][j] = uplink[d][j]
           \/ /\ d = c
              /\ j = Len(uplink[c]) + 1
              /\ uplink'[d][j] = reply
<1>1. uplink \in [ConveyorId -> Seq(Reply)] /\ uplink[c] \in Seq(Reply)
  BY DEF TypeOK
<1>2. CASE d # c
  BY <1>1, <1>2
<1>3. CASE d = c
  <2>1. uplink'[d] = Append(uplink[c], reply)
    BY <1>1, <1>3
  <2>2. /\ DOMAIN uplink'[d] = 1 .. Len(uplink[c]) + 1
        /\ DOMAIN uplink[c] = 1 .. Len(uplink[c])
        /\ Len(uplink[c]) \in Nat
        /\ \A i \in 1 .. Len(uplink[c]) : uplink'[d][i] = uplink[c][i]
        /\ uplink'[d][Len(uplink[c]) + 1] = reply
    BY <1>1, <2>1, AppendProperties
  <2> QED
    BY <1>3, <2>2
<1> QED
  BY <1>2, <1>3

(* What a conveyor answers to the pending message is taken for its answer  *)
(* rightly.                                                                *)
LEMMA ReplyAnswers ==
    ASSUME NEW msg \in Message, NEW reply \in Replies(msg)
    PROVE  /\ reply.id # "PACKAGE_ARRIVED"
           /\ reply.id # "CONVEYOR_STATE_RESPONSE" =>
                 msg.id # "CONVEYOR_STATE"
           /\ reply.id = "CLEAR_BOX_RESPONSE" =>
                 reply.box = BoxAt[msg.conveyor]
<1>1. CASE msg.id = "CONVEYOR_STATE"
  <2>1. PICK a \in BOOLEAN :
          reply = [id |-> "CONVEYOR_STATE_RESPONSE", available |-> a]
    BY <1>1 DEF Replies
  <2> QED
    BY <2>1
<1>2. CASE msg.id = "CLEAR_BOX"
  <2>1. PICK n \in Counts :
          reply = [id    |-> "CLEAR_BOX_RESPONSE",
                   box   |-> BoxAt[msg.conveyor],
                   count |-> n]
    BY <1>2 DEF Replies
  <2> QED
    BY <1>2, <2>1
<1>3. CASE msg.id \notin {"CONVEYOR_STATE", "CLEAR_BOX"}
  <2>1. reply = [id |-> "MESSAGE_RECEIVED", of |-> msg.id,
                 conveyor |-> msg.conveyor]
    BY <1>3 DEF Replies
  <2> QED
    BY <1>3, <2>1
<1> QED
  BY <1>1, <1>2, <1>3

LEMMA DeliverOnTime ==
    ASSUME LinkInv, OneInFlight, Numbered, deliver
    PROVE  OneInFlight' /\ Numbered'
<1>1. /\ air # NoFrame
      /\ air' = NoFrame
      /\ executed' = IF air.msg.id = "CONVEYOR_STATE" THEN executed
                     ELSE executed \union {air.msg.uid}
      /\ UNCHANGED <<antTx, pending_msg, pending_input, checking, waiting,
                     timer_running, timed_out, submitted>>
  BY DEF deliver, server, timer, world
<1>2. /\ air.msg = pending_msg
      /\ waiting # NotWaiting
      /\ ~timed_out
      /\ \A d \in ConveyorId : \A i \in DOMAIN uplink[d] : ~Answers(d, i)
  BY <1>1 DEF OneInFlight, Quiet, NothingInFlight, FrameIsPending
<1>3. air.msg \in Message
  BY <1>1 DEF LinkInv, TypeOK, Frame
<1>4. PICK c \in ConveyorId : c = air.msg.conveyor
  BY <1>3, LinkAssumption DEF Message, Command, AddPackage, StateRequest
<1>5. PICK reply \in Replies(air.msg) :
        uplink' = [uplink EXCEPT ![c] = Append(@, reply)]
  BY <1>4 DEF deliver
<1>6. /\ reply.id # "PACKAGE_ARRIVED"
      /\ reply.id # "CONVEYOR_STATE_RESPONSE" =>
            air.msg.id # "CONVEYOR_STATE"
      /\ reply.id = "CLEAR_BOX_RESPONSE" => reply.box = BoxAt[c]
  BY <1>3, <1>4, <1>5, ReplyAnswers
<1>7. \A d \in ConveyorId : \A j \in DOMAIN uplink'[d] :
        Answers(d, j)' => /\ d = c
                          /\ j = Len(uplink[c]) + 1
                          /\ uplink'[d][j] = reply
  BY <1>2, <1>5, Appended DEF LinkInv, Answers
<1>8. ReplyIsToPending'
  <2>1. AnswersPending(c, reply)'
    BY <1>1, <1>2, <1>4, <1>6 DEF AnswersPending
  <2> QED
    BY <1>7, <2>1 DEF ReplyIsToPending, AnswersPending
<1>9. OneInFlight'
  BY <1>1, <1>2, <1>8 DEF OneInFlight, Quiet, FrameIsPending
<1>10. /\ pending_msg.uid \in Nat \ {0}
      /\ submitted \in Nat
      /\ executed' \subseteq executed \union {pending_msg.uid}
  <2>1. pending_msg \in Message
    BY <1>2, <1>3
  <2> QED
    BY <1>1, <1>2, <2>1, UidTyped DEF LinkInv
<1>11. executed' \subseteq 1 .. submitted'
  <2>1. pending_msg.uid \in 1 .. submitted
    BY <1>10 DEF Numbered
  <2> QED
    BY <1>1, <1>10, <2>1 DEF Numbered
<1>12. QueueIsNew'
  BY <1>1, <1>10 DEF Numbered, QueueIsNew
<1> QED
  BY <1>1, <1>9, <1>11, <1>12 DEF Numbered

LEMMA ArrivesOnTime ==
    ASSUME LinkInv, OneInFlight, Numbered, NEW c \in ConveyorId,
           package_arrives(c)
    PROVE  OneInFlight' /\ Numbered'
<1> DEFINE arrived == [id |-> "PACKAGE_ARRIVED"]
<1>1. /\ uplink' = [uplink EXCEPT ![c] = Append(@, arrived)]
      /\ UNCHANGED <<antTx, pending_msg, pending_input, checking, waiting,
                     timer_running, timed_out, air, executed, submitted>>
  BY DEF package_arrives, server, timer, world
<1>2. \A d \in ConveyorId : \A j \in DOMAIN uplink'[d] :
        \/ j \in DOMAIN uplink[d] /\ uplink'[d][j] = uplink[d][j]
        \/ uplink'[d][j].id = "PACKAGE_ARRIVED"
  BY <1>1, Appended DEF LinkInv
<1>3. Quiet' /\ FrameIsPending'
  BY <1>1, <1>2
     DEF OneInFlight, Quiet, NothingInFlight, FrameIsPending, Answers
<1>4. ReplyIsToPending'
  BY <1>1, <1>2
     DEF OneInFlight, ReplyIsToPending, Answers, AnswersPending
<1> QED
  BY <1>1, <1>3, <1>4 DEF OneInFlight, Numbered, QueueIsNew

LEMMA StutterOnTime ==
    ASSUME OneInFlight, Numbered, UNCHANGED vars
    PROVE  OneInFlight' /\ Numbered'
<1>1. UNCHANGED <<antTx, pending_msg, pending_input, checking, waiting,
                  timer_running, timed_out, air, uplink, executed,
                  submitted>>
  BY DEF vars, server, timer, plant, world
<1>2. OneInFlight'
  BY <1>1 DEF OneInFlight, Quiet, NothingInFlight, FrameIsPending,
              ReplyIsToPending, Answers, AnswersPending
<1> QED
  BY <1>1, <1>2 DEF Numbered, QueueIsNew

LEMMA InitOnTime ==
    ASSUME Init
    PROVE  OneInFlight /\ Numbered
<1>1. OneInFlight
  BY DEF Init, OneInFlight, Quiet, NothingInFlight, FrameIsPending,
         ReplyIsToPending
<1>2. Numbered
  BY DEF Init, Numbered, QueueIsNew, NoMessage
<1> QED
  BY <1>1, <1>2

(* Only the timer can be early, and nothing happens after that. *)
LEMMA EarlyKept ==
    ASSUME [Next]_vars
    PROVE  /\ Next => ~early
           /\ timer_expires \/ early' = early
BY DEF Next, vars, world, enqueue_message, handle_queue, receive_ANT_message,
       receive_MESSAGE_RECEIVED, receive_CONVEYOR_STATE_available,
       receive_CONVEYOR_STATE_unavailable, receive_CONVEYOR_STATE_ignored,
       receive_CLEAR_BOX_RESPONSE, receive_PACKAGE_ARRIVED, TakeReply,
       pending_message_timed_out, air_loses, uplink_loses, deliver,
       package_arrives

LEMMA NextOnTime ==
    ASSUME LinkInv, OnTimeInv, [Next]_vars
    PROVE  OnTimeInv'
<1> SUFFICES ASSUME ~early', OneInFlight, Numbered
             PROVE  OneInFlight' /\ Numbered'
  BY EarlyKept DEF OnTimeInv, vars, world
<1>1. ASSUME NEW msg \in Command, enqueue_message(msg)
      PROVE  OneInFlight' /\ Numbered'
  BY <1>1, EnqueueOnTime
<1>2. CASE handle_queue
  BY <1>2, HandleQueueOnTime
<1>3. ASSUME NEW c \in ConveyorId, receive_ANT_message(c)
      PROVE  OneInFlight' /\ Numbered'
  BY <1>3, ReceiveOnTime
<1>4. CASE timer_expires
  BY <1>4, TimerOnTime
<1>5. CASE pending_message_timed_out
  BY <1>5, TimedOutOnTime
<1>6. CASE air_loses
  BY <1>6, AirLosesOnTime
<1>7. ASSUME NEW c \in ConveyorId, uplink_loses(c)
      PROVE  OneInFlight' /\ Numbered'
  BY <1>7, UplinkLosesOnTime
<1>8. CASE deliver
  BY <1>8, DeliverOnTime
<1>9. ASSUME NEW c \in ConveyorId, package_arrives(c)
      PROVE  OneInFlight' /\ Numbered'
  BY <1>9, ArrivesOnTime
<1>10. CASE UNCHANGED vars
  BY <1>10, StutterOnTime
<1> QED
  BY <1>1, <1>2, <1>3, <1>4, <1>5, <1>6, <1>7, <1>8, <1>9, <1>10 DEF Next

(* Until a timeout comes early at most one frame or reply is on its way,   *)
(* it belongs to the pending message, and the commands that wait are new,  *)
(* for any conveyors and any bounds.                                       *)
THEOREM OnTimeInvHolds == Spec => []OnTimeInv
<1>1. Init => OnTimeInv
  BY InitOnTime DEF OnTimeInv
<1>2. LinkInv /\ OnTimeInv /\ [Next]_vars => OnTimeInv'
  BY NextOnTime
<1> QED
  BY <1>1, <1>2, LinkInvHolds, PTL DEF Spec

------------------------------------------------------------------------------
(* What the exchanges promise *)

(* The flow starts again only at a reply that ends the exchange. *)
LEMMA Released ==
    ASSUME LinkInv, Next, flow_control = "STOP", flow_control' = "CONTINUE"
    PROVE  \E c \in ConveyorId :
              /\ \/ /\ receive_MESSAGE_RECEIVED(c)
                    /\ TakeReply(c, "MESSAGE_RECEIVED")
                    /\ AwaitsReceipt(Head(uplink[c]))
                 \/ /\ receive_CLEAR_BOX_RESPONSE(c)
                    /\ TakeReply(c, "CLEAR_BOX_RESPONSE")
              /\ StopWaiting
              /\ waiting # NotWaiting
              /\ waiting.id # "CONVEYOR_STATE_RESPONSE"
              /\ checking' = checking
<1>1. CASE \E msg \in Command : enqueue_message(msg)
  BY <1>1 DEF enqueue_message
<1>2. CASE \E c \in ConveyorId : receive_ANT_message(c)
  <2>1. PICK c \in ConveyorId : receive_ANT_message(c)
    BY <1>2
  <2>2. CASE receive_MESSAGE_RECEIVED(c)
    <3>1. /\ TakeReply(c, "MESSAGE_RECEIVED")
          /\ AwaitsReceipt(Head(uplink[c]))
          /\ StopWaiting
          /\ checking' = checking
      BY <2>2 DEF receive_MESSAGE_RECEIVED, Ignored
    <3> QED
      BY <2>2, <3>1, AwaitedReceipt
  <2>3. CASE receive_CLEAR_BOX_RESPONSE(c)
    <3>1. /\ TakeReply(c, "CLEAR_BOX_RESPONSE")
          /\ waiting.id = "CLEAR_BOX_RESPONSE"
          /\ StopWaiting
          /\ checking' = checking
      BY <2>3 DEF receive_CLEAR_BOX_RESPONSE, Ignored
    <3> QED
      BY <2>3, <3>1 DEF NotWaiting
  <2> QED
    BY <2>1, <2>2, <2>3
       DEF receive_ANT_message, receive_CONVEYOR_STATE_available,
           receive_CONVEYOR_STATE_unavailable,
           receive_CONVEYOR_STATE_ignored, receive_PACKAGE_ARRIVED, Ignored
<1> QED
  BY <1>1, <1>2
     DEF Next, handle_queue, timer_expires, pending_message_timed_out,
         air_loses, uplink_loses, deliver, package_arrives

(* It is the reply to the pending message. *)
LEMMA ReleasedReceived ==
    ASSUME LinkInv, OneInFlight, Next,
           flow_control = "STOP", flow_control' = "CONTINUE"
    PROVE  pending_msg.uid \in executed
<1>1. PICK c \in ConveyorId : \/ TakeReply(c, "MESSAGE_RECEIVED")
                              \/ TakeReply(c, "CLEAR_BOX_RESPONSE")
  BY Released
<1>2. /\ AnswersPending(c, Head(uplink[c]))
      /\ Head(uplink[c]).id # "CONVEYOR_STATE_RESPONSE"
  BY <1>1, TakenInFlight
<1> QED
  BY <1>2 DEF AnswersPending

(* A command is left for the next only after it reached its conveyor:      *)
(* until a timeout comes early no acknowledgement of an earlier message is *)
(* left that could end the wait (ANTServer.cpp:64-76).                     *)
THEOREM ReleasedWasReceivedHolds == Spec => ReleasedWasReceived
<1>1. LinkInv /\ OnTimeInv /\ [Next]_vars =>
        [~early' /\ flow_control = "STOP" /\ flow_control' = "CONTINUE" =>
            pending_msg.uid \in executed]_vars
  BY ReleasedReceived, EarlyKept DEF OnTimeInv
<1> QED
  BY <1>1, LinkInvHolds, OnTimeInvHolds, PTL DEF Spec, ReleasedWasReceived

(* What a step passes on to the processing thread. *)
LEMMA PassedOn ==
    ASSUME LinkInv, OneInFlight, Next, NEW i \in DOMAIN antRx' \ DOMAIN antRx,
           antRx'[i].reply.id = "CLEAR_BOX_RESPONSE"
    PROVE  antRx'[i].reply.box = BoxAt[waiting.conveyor]
<1>1. PICK c \in ConveyorId : receive_ANT_message(c)
  BY DEF Next, enqueue_message, handle_queue, timer_expires,
         pending_message_timed_out, air_loses, uplink_loses, deliver,
         package_arrives
<1>2. antRx \in Seq([reply : Reply, length : Nat])
  BY DEF LinkInv, TypeOK
<1>3. ASSUME NEW n, antRx' = Append(antRx, [reply  |-> Head(uplink[c]),
                                            length |-> n])
      PROVE  antRx'[i].reply = Head(uplink[c])
  BY <1>2, <1>3
<1>4. CASE receive_PACKAGE_ARRIVED(c)
  <2>1. antRx'[i].reply = Head(uplink[c])
    BY <1>3, <1>4 DEF receive_PACKAGE_ARRIVED
  <2> QED
    BY <1>4, <2>1 DEF receive_PACKAGE_ARRIVED, TakeReply
<1>5. CASE receive_CLEAR_BOX_RESPONSE(c)
  <2>1. /\ TakeReply(c, "CLEAR_BOX_RESPONSE")
        /\ waiting.id = "CLEAR_BOX_RESPONSE"
        /\ antRx'[i].reply = Head(uplink[c])
    BY <1>3, <1>5 DEF receive_CLEAR_BOX_RESPONSE, Ignored
  <2>2. /\ AnswersPending(c, Head(uplink[c]))
        /\ Head(uplink[c]).id = "CLEAR_BOX_RESPONSE"
    BY <2>1, TakenInFlight
  <2>3. waiting.conveyor = pending_msg.conveyor
    BY <2>1 DEF LinkInv, FieldsAgree, NotWaiting
  <2> QED
    BY <2>1, <2>2, <2>3 DEF AnswersPending
<1> QED
  BY <1>1, <1>4, <1>5
     DEF receive_ANT_message, receive_MESSAGE_RECEIVED,
         receive_CONVEYOR_STATE_available, receive_CONVEYOR_STATE_unavailable,
         receive_CONVEYOR_STATE_ignored, Ignored

(* The packages that a clear reports are those of the box asked to clear,  *)
(* although the handler takes any conveyor's answer                        *)
(* (ANTServer.cpp:92-109).                                                 *)
THEOREM ClearAnswersItsBoxHolds == Spec => ClearAnswersItsBox
<1>1. LinkInv /\ OnTimeInv /\ [Next]_vars =>
        [\A i \in DOMAIN antRx' \ DOMAIN antRx :
            ~early' /\ antRx'[i].reply.id = "CLEAR_BOX_RESPONSE" =>
                antRx'[i].reply.box = BoxAt[waiting.conveyor]]_vars
  BY PassedOn, EarlyKept DEF OnTimeInv
<1> QED
  BY <1>1, LinkInvHolds, OnTimeInvHolds, PTL DEF Spec, ClearAnswersItsBox

------------------------------------------------------------------------------
(* The link implements stop and wait *)

(* No command is pending between exchanges, and none that was executed is  *)
(* begun again.                                                            *)
LEMMA CurrentIdle ==
    ASSUME LinkInv, Numbered, flow_control = "CONTINUE"
    PROVE  Current = NoMessage /\ Current.uid \notin executed
<1>1. 0 \notin executed
  BY DEF Numbered
<1> QED
  BY <1>1 DEF Current, NoMessage

(* During an exchange the current command is that of the pending message.  *)
LEMMA CurrentBusy ==
    ASSUME LinkInv, Numbered, waiting # NotWaiting
    PROVE  /\ Current = IF checking THEN pending_input ELSE pending_msg
           /\ Current # NoMessage
           /\ Current.uid = pending_msg.uid
<1>1. flow_control = "STOP" /\ pending_msg # NoMessage
  BY DEF LinkInv, FieldsAgree
<1> QED
  BY <1>1 DEF Current, Numbered, LinkInv, FieldsAgree

(* A step that leaves the commands alone is no step of the abstraction. *)
LEMMA NoStep ==
    ASSUME UNCHANGED <<antTx, flow_control, checking, executed>>,
           flow_control = "CONTINUE" \/ 
              (IF checking THEN pending_input ELSE pending_msg)'
                = (IF checking THEN pending_input ELSE pending_msg)
    PROVE  UNCHANGED Link!vars
BY DEF Link!vars, Current

LEMMA EnqueueStep ==
    ASSUME NEW msg \in Command, enqueue_message(msg)
    PROVE  Link!Enqueue(msg)
BY DEF enqueue_message, server, plant, Current, Link!Enqueue

LEMMA BeginStep ==
    ASSUME LinkInv, Numbered, LinkInv', Numbered', handle_queue
    PROVE  Link!Begin
<1> DEFINE msg == Head(antTx)
<1>1. /\ antTx # <<>>
      /\ antTx' = Tail(antTx)
      /\ flow_control = "CONTINUE"
      /\ flow_control' = "STOP"
      /\ UNCHANGED executed
      /\ send_ANT_message(msg)
  BY DEF handle_queue, plant
<1>2. Current = NoMessage /\ Current.uid \notin executed
  BY <1>1, CurrentIdle
<1>3. checking = FALSE
  BY <1>1 DEF LinkInv, TypeOK, FieldsAgree, NoMessage
<1>4. Current' = msg
  <2>1. CASE msg.id = "ADD_PACKAGE"
    BY <1>1, <2>1, LinkAssumption
       DEF Current, send_ANT_message, PlainMessage
  <2>2. CASE msg.id # "ADD_PACKAGE"
    <3>1. pending_msg' = msg /\ checking' = FALSE
      BY <1>1, <1>3, <2>2, LinkAssumption
         DEF send_ANT_message, SendAndWait, send_message_to_driver,
             PlainMessage
    <3> QED
      BY <1>1, <3>1 DEF Current
  <2> QED
    BY <2>1, <2>2
<1>5. msg.uid \notin executed
  <2>1. msg = antTx[1] /\ 1 \in DOMAIN antTx
    BY <1>1 DEF LinkInv, TypeOK
  <2> QED
    BY <2>1 DEF Numbered, QueueIsNew
<1>6. (Current.uid \in executed) = FALSE /\ (Current.uid \in executed)' = FALSE
  BY <1>1, <1>2, <1>4, <1>5
<1> QED
  BY <1>1, <1>2, <1>4, <1>6 DEF Link!Begin

LEMMA FinishStep ==
    ASSUME LinkInv, Numbered, LinkInv', Numbered', OneInFlight,
           [Next]_vars, UNCHANGED <<antTx, executed>>,
           flow_control = "STOP", flow_control' = "CONTINUE"
    PROVE  Link!Finish
<1>1. waiting # NotWaiting /\ Next
  BY DEF LinkInv, FieldsAgree, vars
<1>2. Current # NoMessage /\ Current.uid = pending_msg.uid
  BY <1>1, CurrentBusy
<1>3. pending_msg.uid \in executed
  BY <1>1, ReleasedReceived
<1>4. Current' = NoMessage
  BY DEF Current
<1>5. (Current.uid \in executed)' = FALSE
  BY <1>4 DEF NoMessage, Numbered
<1>6. (Current.uid \in executed) = TRUE
  BY <1>2, <1>3
<1> QED
  BY <1>2, <1>4, <1>5, <1>6 DEF Link!Finish

(* A reply ends the exchange or leaves its command as it is. *)
LEMMA ReceiveStep ==
    ASSUME LinkInv, Numbered, LinkInv', Numbered', OneInFlight,
           [Next]_vars, NEW c \in ConveyorId, receive_ANT_message(c)
    PROVE  Link!Finish \/ UNCHANGED Link!vars
<1>1. UNCHANGED <<antTx, executed>>
  BY DEF receive_ANT_message, receive_MESSAGE_RECEIVED,
         receive_CONVEYOR_STATE_available,
         receive_CONVEYOR_STATE_unavailable, receive_CONVEYOR_STATE_ignored,
         receive_CLEAR_BOX_RESPONSE, receive_PACKAGE_ARRIVED, TakeReply,
         plant, world
<1>2. CASE UNCHANGED <<flow_control, server>>
  BY <1>1, <1>2, NoStep DEF server
<1>3. CASE /\ waiting # NotWaiting
           /\ waiting.id # "CONVEYOR_STATE_RESPONSE"
           /\ StopWaiting
           /\ continue_flow_control
           /\ UNCHANGED <<pending_input, checking>>
  <2>1. flow_control = "STOP" /\ flow_control' = "CONTINUE"
    BY <1>3, EndOfExchange DEF LinkInv, FieldsAgree
  <2> QED
    BY <1>1, <2>1, FinishStep
<1>4. CASE receive_MESSAGE_RECEIVED(c)
  <2>1. TakeReply(c, "MESSAGE_RECEIVED")
    BY <1>4 DEF receive_MESSAGE_RECEIVED
  <2>2. CASE ~AwaitsReceipt(Head(uplink[c]))
    BY <1>2, <1>4, <2>2 DEF receive_MESSAGE_RECEIVED, Ignored
  <2>3. CASE AwaitsReceipt(Head(uplink[c]))
    BY <1>3, <1>4, <2>1, <2>3, AwaitedReceipt DEF receive_MESSAGE_RECEIVED
  <2> QED
    BY <2>2, <2>3
<1>5. CASE receive_CLEAR_BOX_RESPONSE(c)
  <2>1. CASE waiting.id # "CLEAR_BOX_RESPONSE"
    BY <1>2, <1>5, <2>1 DEF receive_CLEAR_BOX_RESPONSE, Ignored
  <2>2. CASE waiting.id = "CLEAR_BOX_RESPONSE"
    BY <1>3, <1>5, <2>2 DEF receive_CLEAR_BOX_RESPONSE, NotWaiting
  <2> QED
    BY <2>1, <2>2
<1>6. CASE receive_CONVEYOR_STATE_available(c)
  <2>1. /\ checking = TRUE
        /\ pending_input # NoMessage
    BY <1>6, AwaitedState DEF receive_CONVEYOR_STATE_available
  <2>2. /\ checking' = FALSE
        /\ pending_msg' = pending_input
        /\ flow_control' = flow_control
    BY <1>6, <2>1
       DEF receive_CONVEYOR_STATE_available, SendAndWait,
           send_message_to_driver
  <2>3. Current' = Current
    BY <1>1, <2>1, <2>2 DEF Current
  <2> QED
    BY <1>1, <2>3 DEF Link!vars
<1>7. CASE receive_CONVEYOR_STATE_unavailable(c)
  <2>1. /\ checking = TRUE
        /\ pending_input # NoMessage
    BY <1>7, AwaitedState DEF receive_CONVEYOR_STATE_unavailable
  <2>2. UNCHANGED <<checking, pending_input, flow_control>>
    BY <1>7, <2>1 DEF receive_CONVEYOR_STATE_unavailable
  <2>3. Current' = Current
    BY <1>1, <2>1, <2>2 DEF Current
  <2> QED
    BY <1>1, <2>3 DEF Link!vars
<1>8. CASE receive_CONVEYOR_STATE_ignored(c)
  BY <1>2, <1>8 DEF receive_CONVEYOR_STATE_ignored, Ignored
<1>9. CASE receive_PACKAGE_ARRIVED(c)
  BY <1>2, <1>9 DEF receive_PACKAGE_ARRIVED
<1> QED
  BY <1>4, <1>5, <1>6, <1>7, <1>8, <1>9 DEF receive_ANT_message

LEMMA DeliverStep ==
    ASSUME LinkInv, Numbered, OneInFlight, deliver
    PROVE  Link!Arrive \/ UNCHANGED Link!vars
<1>1. /\ air # NoFrame
      /\ executed' = IF air.msg.id = "CONVEYOR_STATE" THEN executed
                     ELSE executed \union {air.msg.uid}
      /\ UNCHANGED <<antTx, flow_control, checking, pending_input,
                     pending_msg>>
  BY DEF deliver, server, world
<1>2. waiting # NotWaiting /\ air.msg = pending_msg
  BY <1>1 DEF OneInFlight, Quiet, NothingInFlight, FrameIsPending
<1>3. /\ Current = IF checking THEN pending_input ELSE pending_msg
      /\ Current # NoMessage
      /\ Current.uid = pending_msg.uid
  BY <1>2, CurrentBusy
<1>4. Current' = Current
  BY <1>1 DEF Current
<1>5. CASE executed' = executed
  BY <1>1, <1>4, <1>5 DEF Link!vars
<1>6. CASE executed' = executed \union {air.msg.uid}
  <2>1. (Current.uid \in executed)' = TRUE
    BY <1>2, <1>3, <1>4, <1>6
  <2> QED
    BY <1>1, <1>3, <1>4, <2>1 DEF Link!Arrive
<1> QED
  BY <1>1, <1>5, <1>6

(* The other steps leave the commands alone. *)
LEMMA OtherSteps ==
    ASSUME LinkInv,
           \/ timer_expires
           \/ pending_message_timed_out
           \/ air_loses
           \/ \E c \in ConveyorId : uplink_loses(c)
           \/ \E c \in ConveyorId : package_arrives(c)
           \/ UNCHANGED vars
    PROVE  UNCHANGED Link!vars
<1>1. UNCHANGED <<antTx, flow_control, checking, pending_input, executed>>
  BY DEF timer_expires, pending_message_timed_out, air_loses, uplink_loses,
         package_arrives, vars, server, plant, world
<1>2. pending_msg' = pending_msg
  BY DEF timer_expires, pending_message_timed_out, send_message_to_driver,
         air_loses, uplink_loses, package_arrives, vars, server
<1> QED
  BY <1>1, <1>2, NoStep

(* Until a timeout comes early the server begins one command at a time, in *)
(* the order of the queue, and none before the one in front of it reached  *)
(* its conveyor, for any conveyors, any losses and any number of repeats   *)
(* (ANTServer.cpp, ANTQueueHandler.cpp:11-20).                             *)
THEOREM ImplementsStopAndWaitHolds == Spec => ImplementsStopAndWait
<1>1. Init => Link!Init
  BY DEF Init, Link!Init, Current
<1>2. LinkInv /\ LinkInv' /\ OnTimeInv /\ OnTimeInv' /\ [Next]_vars
        => [Link!Next]_Link!vars
  <2> SUFFICES ASSUME LinkInv, LinkInv', OnTimeInv, OnTimeInv', [Next]_vars
               PROVE  [Link!Next]_Link!vars
    OBVIOUS
  <2>1. CASE UNCHANGED vars
    BY <2>1, OtherSteps
  <2>2. CASE timer_expires
    BY <2>2, OtherSteps
  <2>3. CASE Next /\ ~timer_expires
    <3>1. OneInFlight /\ Numbered /\ Numbered'
      BY <2>3, EarlyKept DEF OnTimeInv
    <3>2. ASSUME NEW msg \in Command, enqueue_message(msg)
          PROVE  Link!Next
      BY <3>2, EnqueueStep DEF Link!Next
    <3>3. CASE handle_queue
      BY <3>1, <3>3, BeginStep DEF Link!Next
    <3>4. ASSUME NEW c \in ConveyorId, receive_ANT_message(c)
          PROVE  Link!Next \/ UNCHANGED Link!vars
      BY <3>1, <3>4, ReceiveStep DEF Link!Next
    <3>5. CASE deliver
      BY <3>1, <3>5, DeliverStep DEF Link!Next
    <3>6. Link!Next \/ UNCHANGED Link!vars
      BY <2>3, <3>2, <3>3, <3>4, <3>5, OtherSteps DEF Next
    <3> QED
      BY <3>6
  <2> QED
    BY <2>1, <2>2, <2>3
<1> QED
  BY <1>1, <1>2, LinkInvHolds, OnTimeInvHolds, PTL
     DEF Spec, Link!Spec, ImplementsStopAndWait
===============================================================================
