------------------------------- MODULE ANTServer -------------------------------
(***************************************************************************)
(* The stop-and-wait link to the plant: the queue handler thread           *)
(* (ANTQueueHandler.cpp), the server with its handlers run by the queue    *)
(* handler, by the radio library's callback and by the driver loop         *)
(* (ANTServer.cpp, BackendANTDriver.cpp), and the timer thread             *)
(* (ANTServerTimer.cpp).                                                   *)
(*                                                                         *)
(* Each handler is one step, which it is in effect until a timeout comes   *)
(* while a frame or a reply is on its way: ANTServerSteps, where the       *)
(* accesses of the threads interleave and the timer is the code's,         *)
(* implements this module up to there.  What the program does after such   *)
(* an early timeout is not here but in ANTServerSteps alone: the driver    *)
(* loop then overlaps the other handlers, and this module's behaviours     *)
(* end.                                                                    *)
(*                                                                         *)
(* The radio and the conveyors are external: a frame or a reply may be     *)
(* lost, a conveyor answers every frame it gets, a repeated one too.       *)
(***************************************************************************)
EXTENDS Integers, Sequences

CONSTANTS
    ConveyorId,
    BoxAt,              \* the id of the box at each conveyor
    PlainId,            \* bound: the ids of commands that are sent, of the
                        \* many that the server treats alike
    Counts,             \* how many packages a clear may report as removed
    TIMESTAMP_MOD,      \* the values of an unsigned char, 256 in the code
    MaxSubmits,         \* bound: commands submitted
    MaxUplink,          \* bound: replies of one conveyor on their way
    MaxArrivals,        \* bound: packages that arrive
    MaxBusy             \* bound: times the input conveyor is not available

INPUT_CONVEYOR_ID == 1
CLEAR_BOX_RESPONSE_STATIC_LENGTH == 2
PACKAGE_ARRIVED_LENGTH == 2

(* The ids of the commands that are sent as they come and acknowledged.    *)
PlainMessage == {"CONVEYOR_CONNECT", "BOX_CONNECT", "DISCONNECT",
                 "REMOVE_PACKAGE", "ROUTING_PLAN"}

ASSUME LinkAssumption ==
    /\ ConveyorId \subseteq Nat \ {0}
    /\ INPUT_CONVEYOR_ID \in ConveyorId
    /\ BoxAt \in [ConveyorId -> Nat]
    /\ PlainId \subseteq PlainMessage
    /\ Counts \subseteq Nat
    /\ TIMESTAMP_MOD \in Nat \ {0}
    /\ {MaxSubmits, MaxUplink, MaxArrivals, MaxBusy} \subseteq Nat

(* Numbers of commands; the code has none, they tell the commands apart. *)
Uid == 1 .. MaxSubmits

AddPackage ==
    [id : {"ADD_PACKAGE"}, conveyor : {INPUT_CONVEYOR_ID}, uid : Uid]

Command ==
    AddPackage \union
    [id : PlainId \union {"CLEAR_BOX"}, conveyor : ConveyorId, uid : Uid]

StateRequest ==
    [id : {"CONVEYOR_STATE"}, conveyor : {INPUT_CONVEYOR_ID}, uid : Uid]

NoMessage == [id |-> "NONE", conveyor |-> 0, uid |-> 0]

NoFrame == [msg |-> NoMessage, time |-> 0]

NotWaiting == [id |-> "NONE", conveyor |-> 0]

VARIABLES
    antTx,             \* the queue of commands from the processing thread
    antRx,             \* the queue of messages to the processing thread
    flow_control,      \* "CONTINUE" or "STOP"
    pending_msg,       \* the message sent last, until it is answered
    pending_input,     \* the ADD_PACKAGE held back until the input is ready
    checking,          \* checking_input_conveyor_ready
    waiting,           \* the reply waited for: its id and its conveyor
    timestamp,
    timer_running,     \* timer_is_running
    timed_out,         \* the flag of the driver loop
    air,               \* external: the frame on its way to a conveyor
    uplink,            \* external: the replies of each conveyor on their way
    last_seen,         \* external: the frame each conveyor got last
    executed,          \* the commands that reached their conveyor
    early,             \* history: whether a timeout came while a frame or a
                       \* reply was on its way
    submitted,         \* commands submitted so far
    arrivals,          \* packages that arrived so far
    busy               \* times the input conveyor was not available

server == <<pending_msg, pending_input, checking, waiting, timestamp>>
timer == <<timer_running, timed_out>>
plant == <<last_seen, executed, arrivals, busy>>
world == <<early, submitted>>
vars == <<antTx, antRx, flow_control, server, timer, air, uplink, plant,
          world>>

------------------------------------------------------------------------------
(* The server's helpers *)

(* Mutant: a repeated frame does not restart the timer. *)
send_message_to_driver_NoTimer(msg, time) ==
    /\ pending_msg' = msg
    /\ timer_running' = (timer_running \/ time # timestamp)
    /\ air' = IF air = NoFrame THEN [msg |-> msg, time |-> time] ELSE air

(* The radio refuses a frame while another one is on its way, and no one   *)
(* looks at the result.                                                    *)
send_message_to_driver(msg, time) ==
    /\ pending_msg' = msg
    /\ timer_running' = TRUE
    /\ air' = IF air = NoFrame THEN [msg |-> msg, time |-> time] ELSE air

NextTimestamp == (timestamp + 1) % TIMESTAMP_MOD

(* A new message, and the reply that answers it. *)
SendAndWait(msg, reply) ==
    /\ waiting' = [id |-> reply, conveyor |-> msg.conveyor]
    /\ timestamp' = NextTimestamp
    /\ send_message_to_driver(msg, timestamp')

(* Mutant: the state request waits for an acknowledgement. *)
send_conveyor_state_request_Acknowledged(c, uid) ==
    SendAndWait([id |-> "CONVEYOR_STATE", conveyor |-> c, uid |-> uid],
                "CONVEYOR_STATE")

send_conveyor_state_request(c, uid) ==
    SendAndWait([id |-> "CONVEYOR_STATE", conveyor |-> c, uid |-> uid],
                "CONVEYOR_STATE_RESPONSE")

(* A package is sent to the input conveyor only once that is available. *)
send_ANT_message(msg) ==
    \/ /\ msg.id = "ADD_PACKAGE"
       /\ pending_input' = msg
       /\ checking' = TRUE
       /\ send_conveyor_state_request(msg.conveyor, msg.uid)
    \/ /\ msg.id = "CLEAR_BOX"
       /\ SendAndWait(msg, "CLEAR_BOX_RESPONSE")
       /\ UNCHANGED <<pending_input, checking>>
    \/ /\ msg.id \in PlainId
       /\ SendAndWait(msg, msg.id)
       /\ UNCHANGED <<pending_input, checking>>

continue_flow_control ==
    flow_control' = IF checking THEN flow_control ELSE "CONTINUE"

(* Mutant: the message stays pending after its reply. *)
StopWaiting_KeepsPending ==
    /\ timer_running' = FALSE
    /\ waiting' = NotWaiting
    /\ UNCHANGED pending_msg

(* The reply came. *)
StopWaiting ==
    /\ timer_running' = FALSE
    /\ waiting' = NotWaiting
    /\ pending_msg' = NoMessage

------------------------------------------------------------------------------
(* The processing thread: enqueue a command *)

Init ==
    /\ antTx = <<>>
    /\ antRx = <<>>
    /\ flow_control = "CONTINUE"
    /\ pending_msg = NoMessage
    /\ pending_input = NoMessage
    /\ checking = FALSE
    /\ waiting = NotWaiting
    /\ timestamp = 0
    /\ timer_running = FALSE
    /\ timed_out = FALSE
    /\ air = NoFrame
    /\ uplink = [c \in ConveyorId |-> <<>>]
    /\ last_seen = [c \in ConveyorId |-> NoFrame]
    /\ executed = {}
    /\ early = FALSE
    /\ submitted = 0
    /\ arrivals = 0
    /\ busy = 0

enqueue_message(msg) ==
    /\ msg.uid = submitted + 1
    /\ submitted' = submitted + 1
    /\ UNCHANGED early
    /\ antTx' = Append(antTx, msg)
    /\ UNCHANGED <<antRx, flow_control, server, timer, air, uplink, plant>>

------------------------------------------------------------------------------
(* The queue handler thread *)

(* Mutant: the flow is not stopped for a state request. *)
handle_queue_StopsLate ==
    /\ antTx # <<>>
    /\ flow_control = "CONTINUE"
    /\ antTx' = Tail(antTx)
    /\ flow_control' = IF Head(antTx).id = "ADD_PACKAGE" THEN "CONTINUE"
                       ELSE "STOP"
    /\ send_ANT_message(Head(antTx))
    /\ UNCHANGED <<antRx, timed_out, uplink, plant, world>>

(* Mutant: the flow is not stopped at all. *)
handle_queue_NeverStops ==
    /\ antTx # <<>>
    /\ flow_control = "CONTINUE"
    /\ antTx' = Tail(antTx)
    /\ send_ANT_message(Head(antTx))
    /\ UNCHANGED <<antRx, flow_control, timed_out, uplink, plant, world>>

handle_queue ==
    /\ antTx # <<>>
    /\ flow_control = "CONTINUE"
    /\ antTx' = Tail(antTx)
    /\ flow_control' = "STOP"
    /\ send_ANT_message(Head(antTx))
    /\ UNCHANGED <<antRx, timed_out, uplink, plant, world>>

------------------------------------------------------------------------------
(* The radio callback *)

(* The reply of conveyor c that the callback gets next. *)
TakeReply(c, id) ==
    /\ uplink[c] # <<>>
    /\ Head(uplink[c]).id = id
    /\ uplink' = [uplink EXCEPT ![c] = Tail(@)]
    /\ UNCHANGED <<antTx, timed_out, plant, world>>

(* A reply that nothing waits for is dropped. *)
Ignored == UNCHANGED <<antRx, flow_control, server, timer_running, air>>

(* An acknowledgement names the kind of the message and the conveyor, not  *)
(* the message.                                                            *)
AwaitsReceipt(reply) ==
    waiting = [id |-> reply.of, conveyor |-> reply.conveyor]

receive_MESSAGE_RECEIVED(c) ==
    /\ TakeReply(c, "MESSAGE_RECEIVED")
    /\ \/ /\ AwaitsReceipt(Head(uplink[c]))
          /\ StopWaiting
          /\ continue_flow_control
          /\ UNCHANGED <<antRx, pending_input, checking, timestamp, air>>
       \/ ~AwaitsReceipt(Head(uplink[c])) /\ Ignored

AwaitsState(c) == waiting = [id |-> "CONVEYOR_STATE_RESPONSE", conveyor |-> c]

(* A state that is awaited with no package held back only stops the timer. *)
NothingHeldBack ==
    /\ timer_running' = FALSE
    /\ UNCHANGED <<server, air>>

(* The input conveyor is ready: the package held back is sent. *)
receive_CONVEYOR_STATE_available(c) ==
    /\ TakeReply(c, "CONVEYOR_STATE_RESPONSE")
    /\ Head(uplink[c]).available
    /\ AwaitsState(c)
    /\ IF pending_input = NoMessage THEN NothingHeldBack
       ELSE /\ checking' = FALSE
            /\ SendAndWait(pending_input, "ADD_PACKAGE")
            /\ pending_input' = NoMessage
    /\ UNCHANGED <<antRx, flow_control>>

(* It is not: it is asked again at once. *)
receive_CONVEYOR_STATE_unavailable(c) ==
    /\ TakeReply(c, "CONVEYOR_STATE_RESPONSE")
    /\ ~Head(uplink[c]).available
    /\ AwaitsState(c)
    /\ IF pending_input = NoMessage THEN NothingHeldBack
       ELSE /\ send_conveyor_state_request(c, pending_input.uid)
            /\ UNCHANGED <<pending_input, checking>>
    /\ UNCHANGED <<antRx, flow_control>>

receive_CONVEYOR_STATE_ignored(c) ==
    /\ TakeReply(c, "CONVEYOR_STATE_RESPONSE")
    /\ ~AwaitsState(c)
    /\ Ignored

(* The number of packages is read one byte too early, where the id of the  *)
(* box is, and decides how much of the reply is passed on.                 *)
ForwardedLength(reply) == CLEAR_BOX_RESPONSE_STATIC_LENGTH + reply.box

(* Any conveyor's reply ends the wait. *)
receive_CLEAR_BOX_RESPONSE(c) ==
    /\ TakeReply(c, "CLEAR_BOX_RESPONSE")
    /\ \/ /\ waiting.id = "CLEAR_BOX_RESPONSE"
          /\ StopWaiting
          /\ antRx' = Append(antRx, [reply  |-> Head(uplink[c]),
                                     length |-> ForwardedLength(Head(uplink[c]))])
          /\ continue_flow_control
          /\ UNCHANGED <<pending_input, checking, timestamp, air>>
       \/ waiting.id # "CLEAR_BOX_RESPONSE" /\ Ignored

receive_PACKAGE_ARRIVED(c) ==
    /\ TakeReply(c, "PACKAGE_ARRIVED")
    /\ antRx' = Append(antRx, [reply  |-> Head(uplink[c]),
                               length |-> PACKAGE_ARRIVED_LENGTH])
    /\ UNCHANGED <<flow_control, server, timer_running, air>>

receive_ANT_message(c) ==
    \/ receive_MESSAGE_RECEIVED(c)
    \/ receive_CONVEYOR_STATE_available(c)
    \/ receive_CONVEYOR_STATE_unavailable(c)
    \/ receive_CONVEYOR_STATE_ignored(c)
    \/ receive_CLEAR_BOX_RESPONSE(c)
    \/ receive_PACKAGE_ARRIVED(c)

------------------------------------------------------------------------------
(* The timer thread and the driver loop *)

(* Nothing of the last exchange is on its way any more. *)
NothingInFlight ==
    /\ air = NoFrame
    /\ \A c \in ConveyorId : \A i \in DOMAIN uplink[c] :
          uplink[c][i].id = "PACKAGE_ARRIVED"

(* The timer may expire whenever it runs. *)
timer_expires ==
    /\ timer_running
    /\ timer_running' = FALSE
    /\ timed_out' = TRUE
    /\ early' = ~NothingInFlight
    /\ UNCHANGED <<antTx, antRx, flow_control, server, air, uplink, plant,
                   submitted>>

(* Mutant: the repeated message counts as a new one. *)
pending_message_timed_out_NewTimestamp ==
    /\ timed_out
    /\ timed_out' = FALSE
    /\ \/ /\ pending_msg # NoMessage
          /\ timestamp' = (timestamp + 1) % TIMESTAMP_MOD
          /\ send_message_to_driver(pending_msg, timestamp')
       \/ /\ pending_msg = NoMessage
          /\ UNCHANGED <<pending_msg, timer_running, air, timestamp>>
    /\ UNCHANGED <<antTx, antRx, flow_control, pending_input, checking,
                   waiting, uplink, plant, world>>

(* The last message is sent again, with the timestamp of the last new one. *)
pending_message_timed_out ==
    /\ timed_out
    /\ timed_out' = FALSE
    /\ \/ /\ pending_msg # NoMessage
          /\ send_message_to_driver(pending_msg, timestamp)
       \/ /\ pending_msg = NoMessage
          /\ UNCHANGED <<pending_msg, timer_running, air>>
    /\ UNCHANGED <<antTx, antRx, flow_control, pending_input, checking,
                   waiting, timestamp, uplink, plant, world>>

------------------------------------------------------------------------------
(* External: the radio and the conveyors *)

air_loses ==
    /\ air # NoFrame
    /\ air' = NoFrame
    /\ UNCHANGED <<antTx, antRx, flow_control, server, timer, uplink, plant,
                   world>>

uplink_loses(c) ==
    /\ uplink[c] # <<>>
    /\ uplink' = [uplink EXCEPT ![c] = Tail(@)]
    /\ UNCHANGED <<antTx, antRx, flow_control, server, timer, air, plant,
                   world>>

(* The possible replies to a frame. *)
Replies(msg) ==
    CASE msg.id = "CONVEYOR_STATE" ->
            {[id |-> "CONVEYOR_STATE_RESPONSE", available |-> a] :
                a \in IF busy < MaxBusy THEN BOOLEAN ELSE {TRUE}}
      [] msg.id = "CLEAR_BOX" ->
            {[id |-> "CLEAR_BOX_RESPONSE", box |-> BoxAt[msg.conveyor],
              count |-> n] : n \in Counts}
      [] OTHER ->
            {[id |-> "MESSAGE_RECEIVED", of |-> msg.id,
              conveyor |-> msg.conveyor]}

Unavailable(reply) ==
    reply.id = "CONVEYOR_STATE_RESPONSE" /\ ~reply.available

(* The frame reaches its conveyor, which answers. *)
deliver ==
    LET msg == air.msg IN
    /\ air # NoFrame
    /\ Len(uplink[msg.conveyor]) < MaxUplink
    /\ \E reply \in Replies(msg) :
          /\ uplink' = [uplink EXCEPT ![msg.conveyor] = Append(@, reply)]
          /\ busy' = IF Unavailable(reply) THEN busy + 1 ELSE busy
    /\ air' = NoFrame
    /\ last_seen' = [last_seen EXCEPT ![msg.conveyor] = air]
    /\ executed' = IF msg.id = "CONVEYOR_STATE" THEN executed
                   ELSE executed \union {msg.uid}
    /\ UNCHANGED <<antTx, antRx, flow_control, server, timer, arrivals,
                   world>>

package_arrives(c) ==
    /\ arrivals < MaxArrivals
    /\ Len(uplink[c]) < MaxUplink
    /\ arrivals' = arrivals + 1
    /\ uplink' = [uplink EXCEPT ![c] = Append(@, [id |-> "PACKAGE_ARRIVED"])]
    /\ UNCHANGED <<antTx, antRx, flow_control, server, timer, air, last_seen,
                   executed, busy, world>>

------------------------------------------------------------------------------

Next ==
    /\ ~early
    /\ \/ \E msg \in Command : enqueue_message(msg)
       \/ handle_queue
       \/ \E c \in ConveyorId : receive_ANT_message(c)
       \/ timer_expires
       \/ pending_message_timed_out
       \/ air_loses
       \/ \E c \in ConveyorId : uplink_loses(c)
       \/ deliver
       \/ \E c \in ConveyorId : package_arrives(c)

Spec == Init /\ [][Next]_vars

(* The three threads run; the timer of a message that is not answered      *)
(* expires.  The radio does not lose every frame or every reply.           *)
Fairness ==
    /\ WF_vars(~early /\ handle_queue)
    /\ WF_vars(~early /\ timer_expires)
    /\ WF_vars(~early /\ pending_message_timed_out)
    /\ SF_vars(~early /\ deliver)
    /\ \A c \in ConveyorId : SF_vars(~early /\ receive_ANT_message(c))

LiveSpec == Spec /\ Fairness

------------------------------------------------------------------------------
(* Properties *)

Reply ==
    [id : {"MESSAGE_RECEIVED"}, of : PlainId \union {"ADD_PACKAGE"},
     conveyor : ConveyorId]
        \union
    [id : {"CONVEYOR_STATE_RESPONSE"}, available : BOOLEAN]
        \union
    [id : {"CLEAR_BOX_RESPONSE"}, box : Nat, count : Counts]
        \union
    [id : {"PACKAGE_ARRIVED"}]

Message == Command \union StateRequest

Frame == [msg : Message, time : 0 .. TIMESTAMP_MOD - 1]

AwaitedId ==
    PlainId \union {"ADD_PACKAGE", "CLEAR_BOX_RESPONSE",
                    "CONVEYOR_STATE_RESPONSE"}

(* The type invariant. *)
TypeOK ==
    /\ antTx \in Seq(Command)
    /\ antRx \in Seq([reply : Reply, length : Nat])
    /\ flow_control \in {"CONTINUE", "STOP"}
    /\ pending_msg \in Message \union {NoMessage}
    /\ pending_input \in AddPackage \union {NoMessage}
    /\ checking \in BOOLEAN
    /\ waiting \in [id : AwaitedId, conveyor : ConveyorId]
                      \union {NotWaiting}
    /\ timestamp \in 0 .. TIMESTAMP_MOD - 1
    /\ timer_running \in BOOLEAN
    /\ timed_out \in BOOLEAN
    /\ air \in Frame \union {NoFrame}
    /\ uplink \in [ConveyorId -> Seq(Reply)]
    /\ last_seen \in [ConveyorId -> Frame \union {NoFrame}]
    /\ executed \subseteq Uid
    /\ early \in BOOLEAN
    /\ {submitted, arrivals, busy} \subseteq Nat

(* The reply that answers a message. *)
ReplyTo(id) ==
    CASE id = "CONVEYOR_STATE" -> "CONVEYOR_STATE_RESPONSE"
      [] id = "CLEAR_BOX" -> "CLEAR_BOX_RESPONSE"
      [] OTHER -> id

(* The fields that the three threads share describe one exchange: the flow *)
(* is stopped exactly while a reply is awaited, a message is pending       *)
(* exactly then and is the one whose reply is awaited, and a package is    *)
(* held back exactly while the state of the input conveyor is asked.  If a *)
(* state were awaited with no package held back, its reply would stop the  *)
(* timer and end nothing, and the link would be dead                       *)
(* (ANTServer.cpp:31-158, ANTQueueHandler.cpp:11-16).                      *)
FieldsAgree ==
    /\ flow_control = "STOP" <=> waiting # NotWaiting
    /\ flow_control = "STOP" <=> pending_msg # NoMessage
    /\ pending_msg # NoMessage =>
          waiting = [id       |-> ReplyTo(pending_msg.id),
                     conveyor |-> pending_msg.conveyor]
    /\ checking <=> pending_input # NoMessage
    /\ checking <=> pending_msg.id = "CONVEYOR_STATE"
    /\ checking => pending_input.conveyor = pending_msg.conveyor

(* This holds until a timeout comes early: the driver loop then writes     *)
(* back a message that another thread replaces (ANTServer.cpp:134,         *)
(* 172-177).                                                               *)
OneExchange == ~early => FieldsAgree

(* While a reply is awaited something will send the message again: the     *)
(* timer runs, or its expiry has not been handled yet (ANTServer.cpp:65,   *)
(* 86, 130-137, 188; BackendANTDriver.cpp:191-198).                        *)
RetransmissionArmed ==
    waiting # NotWaiting => timer_running \/ timed_out

(* A conveyor can tell a repeated command from a new one by its timestamp: *)
(* a frame other than the last one has another timestamp, and a command    *)
(* that comes again comes with the same one (ANTServer.cpp:40, 44, 135,    *)
(* 145, 168).  Within fewer frames than there are timestamps, and until a  *)
(* timeout comes early.                                                    *)
RepeatsShareTimestamp ==
    [][~early' => \A c \in ConveyorId : last_seen'[c] # last_seen[c] =>
          /\ last_seen'[c].time # last_seen[c].time
          /\ \/ last_seen'[c].msg # last_seen[c].msg
             \/ last_seen'[c].msg.id = "CONVEYOR_STATE"]_vars

(* The next command is begun only after the current one reached its        *)
(* conveyor: "Received message that we were waiting for"                   *)
(* (ANTServer.cpp:64-76).  It holds until a timeout comes early.           *)
ReleasedWasReceived ==
    [][~early' /\ flow_control = "STOP" /\ flow_control' = "CONTINUE" =>
          pending_msg.uid \in executed]_vars

(* The answer to a clear that is passed on is of the box that was asked to *)
(* clear, although the conveyor is not compared (ANTServer.cpp:92-109).    *)
(* Until a timeout comes early.                                            *)
ClearAnswersItsBox ==
    [][\A i \in DOMAIN antRx' \ DOMAIN antRx :
          ~early' /\ antRx'[i].reply.id = "CLEAR_BOX_RESPONSE" =>
              antRx'[i].reply.box = BoxAt[waiting.conveyor]]_vars

(* Every command submitted reaches its conveyor, unless a timeout comes    *)
(* early (ANTServer.cpp:130-137, ANTQueueHandler.cpp:18-20).               *)
EveryCommandExecuted ==
    \A n \in Uid : submitted >= n ~> early \/ n \in executed

(* The command of the current exchange. *)
Current ==
    IF flow_control = "CONTINUE" THEN NoMessage
    ELSE IF checking THEN pending_input ELSE pending_msg

Link == INSTANCE StopAndWait WITH
    None    <- NoMessage,
    queue   <- antTx,
    current <- Current,
    arrived <- Current.uid \in executed

(* Until a timeout comes early the server implements stop and wait:        *)
(* commands reach the plant one at a time, in the order of the queue, none *)
(* is skipped.                                                             *)
ImplementsStopAndWait == Link!Spec
===============================================================================
