----------------------------- MODULE ANTServerSteps -----------------------------
(***************************************************************************)
(* The handlers of ANTServer at the grain of their accesses to the fields  *)
(* that they share without a lock: the queue handler, the radio's callback *)
(* and the driver loop each run their handlers one access after another,   *)
(* the timer thread watches its flag.  A handler keeps what it sends in a  *)
(* local, job; every thread writes the one frame buffer of the driver.     *)
(*                                                                         *)
(* Accesses are joined where no other thread can tell: popping a command   *)
(* and stopping the flow (only the queue handler does either), the three   *)
(* waiting_ fields (only the callback reads them, and the id, without      *)
(* which nothing matches, is written last).                                *)
(*                                                                         *)
(* The timer is the code's: it may time out early, in the middle of        *)
(* another handler or with an answer on its way, whatever the length of    *)
(* the timeout.  The behaviours go on after that, until a deleted message  *)
(* is used.                                                                *)
(*                                                                         *)
(* The radio, the conveyors and the processing thread are those of         *)
(* ANTServer.                                                              *)
(***************************************************************************)
EXTENDS Integers, Sequences

CONSTANTS
    ConveyorId, BoxAt, PlainId, Counts, TIMESTAMP_MOD,
    MaxSubmits, MaxUplink, MaxArrivals, MaxBusy,    \* as in ANTServer
    ShortTrips      \* whether an exchange that is not lost takes less than
                    \* the 0.5 s of the timer, counted from its last start

VARIABLES
    antTx, antRx, flow_control, pending_msg, pending_input, checking, waiting,
    timestamp, timer_running, timed_out, air, uplink, last_seen, executed,
    submitted, arrivals, busy,                      \* as in ANTServer
    early,            \* as in ANTServer, or while a thread is in a handler
    pc,               \* where each thread is in its handler
    job,              \* what each thread sends: a message and a timestamp
    command,          \* the command the queue handler took last
    got,              \* the reply the callback handles, and its conveyor
    buffer,           \* current_msg_buffer of the driver
    dangling,         \* whether pending_msg points to a deleted message
    fault,            \* a deleted message or none was used: undefined
    timer_at,         \* where the timer thread is in its loop
    timeout_occured,  \* its local of this name
    fresh,            \* whether it measures from the last start or later
    before            \* history: the fields when the handler began

fields == <<flow_control, pending_msg, pending_input, checking, waiting,
            timestamp>>
plant == <<last_seen, executed, submitted, arrivals, busy>>
outside == <<antTx, antRx, uplink, plant>>
clock == <<timer_at, timeout_occured, fresh, early>>
local == <<command, got, before>>
steps == <<pc, job, local, buffer, dangling, fault, clock>>
vars == <<outside, fields, timer_running, timed_out, air, steps>>

Server == INSTANCE ANTServer

ASSUME StepsAssumption ==
    /\ ShortTrips \in BOOLEAN
    /\ Server!INPUT_CONVEYOR_ID \in ConveyorId
    /\ PlainId \subseteq Server!PlainMessage
    /\ MaxUplink \in Nat

Thread == {"queue", "callback", "driver"}

NoMessage == Server!NoMessage
NoFrame == Server!NoFrame

Init ==
    /\ Server!Init
    /\ pc = [t \in Thread |-> "idle"]
    /\ job = [t \in Thread |-> NoFrame]
    /\ command = NoMessage
    /\ got = [conveyor |-> 0, reply |-> [id |-> "NONE"]]
    /\ buffer = NoFrame
    /\ dangling = FALSE
    /\ fault = FALSE
    /\ timer_at = "out"
    /\ timeout_occured = FALSE
    /\ fresh = FALSE
    /\ before = [flow_control |-> "CONTINUE", pending_msg |-> NoMessage,
                 pending_input |-> NoMessage, checking |-> FALSE,
                 waiting |-> Server!NotWaiting, timestamp |-> 0,
                 timer_running |-> FALSE, timed_out |-> FALSE]

At(t, label) == pc[t] = label /\ ~fault

Goto(t, label) == pc' = [pc EXCEPT ![t] = label]

Remember ==
    before' = [flow_control |-> flow_control, pending_msg |-> pending_msg,
               pending_input |-> pending_input, checking |-> checking,
               waiting |-> waiting, timestamp |-> timestamp,
               timer_running |-> timer_running, timed_out |-> timed_out]

(* The threads in a handler that has not had its effect yet: it has with   *)
(* the frame, or with the flow that goes on.                               *)
InHandler(t) == pc[t] \notin {"idle", "forget"}

StateRequest(msg) == [msg EXCEPT !.id = "CONVEYOR_STATE"]

------------------------------------------------------------------------------
(* send_message_to_driver, for any thread, with what comes before a new    *)
(* message: wait_for_message and ++timestamp                               *)

wait_for_message(t) ==
    /\ At(t, "wait")
    /\ waiting' = [id       |-> Server!ReplyTo(job[t].msg.id),
                   conveyor |-> job[t].msg.conveyor]
    /\ Goto(t, "stamp")
    /\ UNCHANGED <<outside, flow_control, pending_msg, pending_input, checking,
                   timestamp, timer_running, timed_out, air, job, local,
                   buffer, dangling, fault, clock>>

increment_timestamp(t) ==
    /\ At(t, "stamp")
    /\ timestamp' = Server!NextTimestamp
    /\ job' = [job EXCEPT ![t].time = timestamp']
    /\ Goto(t, "check")
    /\ UNCHANGED <<outside, flow_control, pending_msg, pending_input, checking,
                   waiting, timer_running, timed_out, air, local, buffer,
                   dangling, fault, clock>>

(* What follows once nothing is pending: a handler that sends has a job.   *)
Emptied(t) == IF job[t] = NoFrame THEN "continue" ELSE "new"

check_pending(t) ==
    /\ At(t, "check")
    /\ Goto(t, IF pending_msg = NoMessage THEN Emptied(t) ELSE "delete")
    /\ UNCHANGED <<outside, fields, timer_running, timed_out, air, job, local,
                   buffer, dangling, fault, clock>>

delete_pending(t) ==
    /\ At(t, "delete")
    /\ fault' = dangling
    /\ dangling' = (pending_msg # NoMessage)
    /\ Goto(t, "null")
    /\ UNCHANGED <<outside, fields, timer_running, timed_out, air, job, local,
                   buffer, clock>>

(* pending_msg, set to null or to a new message. *)
SetPending(t, msg, label) ==
    /\ pending_msg' = msg
    /\ dangling' = FALSE
    /\ Goto(t, label)
    /\ UNCHANGED <<outside, flow_control, pending_input, checking, waiting,
                   timestamp, timer_running, timed_out, air, job, local,
                   buffer, fault, clock>>

null_pending(t) == At(t, "null") /\ SetPending(t, NoMessage, Emptied(t))

new_pending(t) == At(t, "new") /\ SetPending(t, job[t].msg, "start")

(* Mutant: a repeated message does not start the timer.                   *)
start_timer_FirstOnly(t) ==
    /\ At(t, "start")
    /\ timer_running' = (timer_running \/ t # "driver")
    /\ fresh' = (fresh /\ timer_at # "in")
    /\ Goto(t, "header")
    /\ UNCHANGED <<outside, fields, timed_out, air, job, local, buffer,
                   dangling, fault, timer_at, timeout_occured, early>>

(* A timer thread inside its loop goes on measuring from where it began.   *)
start_timer(t) ==
    /\ At(t, "start")
    /\ timer_running' = TRUE
    /\ fresh' = (fresh /\ timer_at # "in")
    /\ Goto(t, "header")
    /\ UNCHANGED <<outside, fields, timed_out, air, job, local, buffer,
                   dangling, fault, timer_at, timeout_occured, early>>

(* The bytes of the buffer are written one by one: conveyor, id and        *)
(* timestamp, then the data, which uid stands for.                         *)
fill_header(t) ==
    /\ At(t, "header")
    /\ buffer' = [msg  |-> [job[t].msg EXCEPT !.uid = buffer.msg.uid],
                  time |-> job[t].time]
    /\ Goto(t, "data")
    /\ UNCHANGED <<outside, fields, timer_running, timed_out, air, job, local,
                   dangling, fault, clock>>

fill_data(t) ==
    /\ At(t, "data")
    /\ buffer' = [buffer EXCEPT !.msg.uid = job[t].msg.uid]
    /\ Goto(t, "transmit")
    /\ UNCHANGED <<outside, fields, timer_running, timed_out, air, job, local,
                   dangling, fault, clock>>

(* The callback, once it has sent the package, forgets it.                 *)
transmit(t) ==
    /\ At(t, "transmit")
    /\ air' = IF air = NoFrame THEN buffer ELSE air
    /\ Goto(t, IF t = "callback" /\ job[t].msg.id = "ADD_PACKAGE"
               THEN "forget" ELSE "idle")
    /\ UNCHANGED <<outside, fields, timer_running, timed_out, job, local,
                   buffer, dangling, fault, clock>>

send_message_to_driver(t) ==
    \/ wait_for_message(t)
    \/ increment_timestamp(t)
    \/ check_pending(t)
    \/ delete_pending(t)
    \/ null_pending(t)
    \/ new_pending(t)
    \/ start_timer(t)
    \/ fill_header(t)
    \/ fill_data(t)
    \/ transmit(t)

------------------------------------------------------------------------------
(* The queue handler *)

(* Mutant: the flow is not stopped for the command.                       *)
take_command_StopsLate ==
    /\ At("queue", "idle")
    /\ antTx # <<>>
    /\ flow_control = "CONTINUE"
    /\ antTx' = Tail(antTx)
    /\ flow_control' = flow_control
    /\ command' = Head(antTx)
    /\ job' = [job EXCEPT !["queue"] = [msg |-> Head(antTx), time |-> 0]]
    /\ Goto("queue", IF Head(antTx).id = "ADD_PACKAGE" THEN "hold" ELSE "wait")
    /\ Remember
    /\ UNCHANGED <<antRx, uplink, plant, pending_msg, pending_input, checking, waiting,
                   timestamp, timer_running, timed_out, air, got, buffer,
                   dangling, fault, clock>>

take_command ==
    /\ At("queue", "idle")
    /\ antTx # <<>>
    /\ flow_control = "CONTINUE"
    /\ antTx' = Tail(antTx)
    /\ flow_control' = "STOP"
    /\ command' = Head(antTx)
    /\ job' = [job EXCEPT !["queue"] = [msg |-> Head(antTx), time |-> 0]]
    /\ Goto("queue", IF Head(antTx).id = "ADD_PACKAGE" THEN "hold" ELSE "wait")
    /\ Remember
    /\ UNCHANGED <<antRx, uplink, plant, pending_msg, pending_input, checking, waiting,
                   timestamp, timer_running, timed_out, air, got, buffer,
                   dangling, fault, clock>>

hold_package ==
    /\ At("queue", "hold")
    /\ pending_input' = command
    /\ checking' = TRUE
    /\ job' = [job EXCEPT !["queue"].msg = StateRequest(command)]
    /\ Goto("queue", "wait")
    /\ UNCHANGED <<outside, flow_control, pending_msg, waiting, timestamp,
                   timer_running, timed_out, air, local, buffer, dangling,
                   fault, clock>>

queue_handler ==
    take_command \/ hold_package \/ send_message_to_driver("queue")

------------------------------------------------------------------------------
(* The radio's callback *)

Awaited(c, reply) ==
    CASE reply.id = "MESSAGE_RECEIVED" -> Server!AwaitsReceipt(reply)
      [] reply.id = "CONVEYOR_STATE_RESPONSE" -> Server!AwaitsState(c)
      [] reply.id = "CLEAR_BOX_RESPONSE" ->
            waiting.id = "CLEAR_BOX_RESPONSE"

take_reply(c) ==
    /\ At("callback", "idle")
    /\ uplink[c] # <<>>
    /\ Head(uplink[c]).id # "PACKAGE_ARRIVED"
    /\ uplink' = [uplink EXCEPT ![c] = Tail(@)]
    /\ \/ /\ Awaited(c, Head(uplink[c]))
          /\ got' = [conveyor |-> c, reply |-> Head(uplink[c])]
          /\ Goto("callback", "stop")
          /\ Remember
       \/ /\ ~Awaited(c, Head(uplink[c]))
          /\ UNCHANGED <<got, pc, before>>
    /\ UNCHANGED <<antTx, antRx, plant, fields, timer_running, timed_out, air, job, command,
                   buffer, dangling, fault, clock>>

(* An arrival goes to the processing thread; no field is used. *)
take_arrival(c) ==
    /\ At("callback", "idle")
    /\ Server!receive_PACKAGE_ARRIVED(c)
    /\ UNCHANGED steps

stop_timer ==
    /\ At("callback", "stop")
    /\ timer_running' = FALSE
    /\ Goto("callback", IF got.reply.id = "CONVEYOR_STATE_RESPONSE"
                        THEN "held" ELSE "reset")
    /\ UNCHANGED <<outside, fields, timed_out, air, job, local, buffer,
                   dangling, fault, clock>>

(* Mutant: the flow goes on before the pending message is deleted.        *)
reset_waiting_FlowFirst ==
    /\ At("callback", "reset")
    /\ waiting' = Server!NotWaiting
    /\ job' = [job EXCEPT !["callback"] = NoFrame]
    /\ flow_control' = IF checking THEN flow_control ELSE "CONTINUE"
    /\ Goto("callback", "check")
    /\ UNCHANGED <<outside, pending_msg, pending_input, checking,
                   timestamp, timer_running, timed_out, air, local, buffer,
                   dangling, fault, clock>>

reset_waiting ==
    /\ At("callback", "reset")
    /\ waiting' = Server!NotWaiting
    /\ job' = [job EXCEPT !["callback"] = NoFrame]
    /\ Goto("callback", "check")
    /\ UNCHANGED <<outside, flow_control, pending_msg, pending_input, checking,
                   timestamp, timer_running, timed_out, air, local, buffer,
                   dangling, fault, clock>>

continue_flow_control ==
    /\ At("callback", "continue")
    /\ flow_control' = IF checking THEN flow_control ELSE "CONTINUE"
    /\ antRx' = IF got.reply.id # "CLEAR_BOX_RESPONSE" THEN antRx
                ELSE Append(antRx, [reply  |-> got.reply,
                                    length |-> Server!ForwardedLength(got.reply)])
    /\ Goto("callback", "idle")
    /\ UNCHANGED <<antTx, uplink, plant, pending_msg, pending_input, checking, waiting,
                   timestamp, timer_running, timed_out, air, job, local,
                   buffer, dangling, fault, clock>>

received_input_conveyor_state ==
    /\ At("callback", "held")
    /\ \/ /\ pending_input = NoMessage
          /\ Goto("callback", "idle")
          /\ UNCHANGED <<checking, job>>
       \/ /\ pending_input # NoMessage
          /\ Goto("callback", "wait")
          /\ checking' = (checking /\ ~got.reply.available)
          /\ job' = [job EXCEPT !["callback"].msg =
                        IF got.reply.available THEN pending_input
                        ELSE StateRequest(pending_input)]
    /\ UNCHANGED <<outside, flow_control, pending_msg, pending_input, waiting,
                   timestamp, timer_running, timed_out, air, local, buffer,
                   dangling, fault, clock>>

forget_package ==
    /\ At("callback", "forget")
    /\ pending_input' = NoMessage
    /\ Goto("callback", "idle")
    /\ UNCHANGED <<outside, flow_control, pending_msg, checking, waiting,
                   timestamp, timer_running, timed_out, air, job, local,
                   buffer, dangling, fault, clock>>

callback ==
    \/ stop_timer
    \/ reset_waiting
    \/ continue_flow_control
    \/ received_input_conveyor_state
    \/ forget_package
    \/ send_message_to_driver("callback")

------------------------------------------------------------------------------
(* The driver loop *)

notice_timeout ==
    /\ At("driver", "idle")
    /\ timed_out
    /\ timed_out' = FALSE
    /\ Goto("driver", "peek")
    /\ Remember
    /\ UNCHANGED <<outside, fields, timer_running, air, job, command, got,
                   buffer, dangling, fault, clock>>

peek_pending ==
    /\ At("driver", "peek")
    /\ Goto("driver", IF pending_msg = NoMessage THEN "idle" ELSE "copy")
    /\ UNCHANGED <<outside, fields, timer_running, timed_out, air, job, local,
                   buffer, dangling, fault, clock>>

(* The fields of the pending message are read through the pointer. *)
copy_pending ==
    /\ At("driver", "copy")
    /\ fault' = (dangling \/ pending_msg = NoMessage)
    /\ job' = [job EXCEPT !["driver"].msg = pending_msg]
    /\ Goto("driver", "read")
    /\ UNCHANGED <<outside, fields, timer_running, timed_out, air, local,
                   buffer, dangling, clock>>

read_timestamp ==
    /\ At("driver", "read")
    /\ job' = [job EXCEPT !["driver"].time = timestamp]
    /\ Goto("driver", "check")
    /\ UNCHANGED <<outside, fields, timer_running, timed_out, air, local,
                   buffer, dangling, fault, clock>>

driver_loop ==
    \/ notice_timeout
    \/ peek_pending
    \/ copy_pending
    \/ read_timestamp
    \/ send_message_to_driver("driver")

------------------------------------------------------------------------------
(* The timer thread.  It takes its start time before it enters the inner   *)
(* loop, and sleeps in there: a stop and a start while it sleeps escape    *)
(* it.                                                                     *)

Idle == \A t \in Thread : pc[t] = "idle"

Tick(from, to) ==
    /\ timer_at = from
    /\ ~fault
    /\ timer_at' = to
    /\ UNCHANGED <<outside, fields, air, pc, job, local, buffer, dangling,
                   fault>>

(* A timeout left over from a stopped timer skips the loop.                *)
enter_loop ==
    /\ timer_running
    /\ Tick("out", IF timeout_occured THEN "test" ELSE "in")
    /\ fresh' = (fresh \/ ~timeout_occured)
    /\ UNCHANGED <<timer_running, timed_out, timeout_occured, early>>

leave_loop ==
    /\ ~timer_running
    /\ Tick("in", "out")
    /\ UNCHANGED <<timer_running, timed_out, timeout_occured, fresh, early>>

(* The exchange is over, or lost, and no thread is in a handler. *)
Quiet == Idle /\ Server!NothingInFlight

(* 0.5 s have passed since the thread entered the loop.  Only where that   *)
(* was at the last start can trips be short enough.                        *)
time_passes ==
    /\ timer_running
    /\ ShortTrips /\ fresh => Quiet
    /\ Tick("in", "test")
    /\ timeout_occured' = TRUE
    /\ early' = (early \/ ~Quiet)
    /\ UNCHANGED <<timer_running, timed_out, fresh>>

test_running ==
    /\ Tick("test", IF timer_running THEN "clear" ELSE "out")
    /\ UNCHANGED <<timer_running, timed_out, timeout_occured, fresh, early>>

clear_running ==
    /\ Tick("clear", "set")
    /\ timer_running' = FALSE
    /\ timeout_occured' = FALSE
    /\ UNCHANGED <<timed_out, fresh, early>>

Set_timeout ==
    /\ Tick("set", "out")
    /\ timed_out' = TRUE
    /\ UNCHANGED <<timer_running, timeout_occured, fresh, early>>

timer ==
    \/ enter_loop
    \/ leave_loop
    \/ time_passes
    \/ test_running
    \/ clear_running
    \/ Set_timeout

------------------------------------------------------------------------------

(* The processing thread, the radio and the conveyors.  A reply behind the *)
(* one that is handled is lost before or after, which makes no difference. *)
environment ==
    /\ ~fault
    /\ \/ \E msg \in Server!Command : Server!enqueue_message(msg)
       \/ Server!air_loses
       \/ Server!deliver
       \/ \E c \in ConveyorId :
             /\ InHandler("callback") => c # got.conveyor
             /\ Server!uplink_loses(c)
       \/ \E c \in ConveyorId : Server!package_arrives(c)
    /\ UNCHANGED steps

Next ==
    \/ queue_handler
    \/ \E c \in ConveyorId : take_reply(c) \/ take_arrival(c)
    \/ callback
    \/ driver_loop
    \/ timer
    \/ environment

Spec == Init /\ [][Next]_vars

(* The threads run; the radio does not lose every frame or every reply.    *)
Fairness ==
    /\ WF_vars(queue_handler)
    /\ WF_vars(callback)
    /\ WF_vars(driver_loop)
    /\ WF_vars(timer)
    /\ SF_vars(Server!deliver /\ UNCHANGED steps)
    /\ \A c \in ConveyorId : SF_vars(take_reply(c) \/ take_arrival(c))

LiveSpec == Spec /\ Fairness

------------------------------------------------------------------------------
(* Properties *)

(* The states up to the first early timeout. *)
NotEarly == ~early

(* "if (pending_msg != nullptr)" (ANTServer.cpp:132): a timeout repeats    *)
(* the message that is pending.  No thread uses a message that another one *)
(* has deleted.                                                            *)
NoFault == ~fault

(* No thread uses a message that another one has deleted until a timeout   *)
(* comes early (ANTServer.cpp:71-74, 100-103, 132-134, 172-175).           *)
NoEarlierFault == ~early => ~fault

Unfinished == \E t \in Thread : InHandler(t)

(* The fields as ANTServer has them, where each handler is one step that   *)
(* takes place where it has its effect: until then it has not begun.       *)
antTxBar == IF InHandler("queue") THEN <<command>> \o antTx ELSE antTx
uplinkBar ==
    IF InHandler("callback")
    THEN [uplink EXCEPT ![got.conveyor] = <<got.reply>> \o @] ELSE uplink
flow_controlBar == IF Unfinished THEN before.flow_control ELSE flow_control
pending_msgBar == IF Unfinished THEN before.pending_msg ELSE pending_msg
pending_inputBar ==
    IF Unfinished THEN before.pending_input
    ELSE IF pc["callback"] = "forget" THEN NoMessage ELSE pending_input
checkingBar == IF Unfinished THEN before.checking ELSE checking
waitingBar == IF Unfinished THEN before.waiting ELSE waiting
timestampBar == IF Unfinished THEN before.timestamp ELSE timestamp
timer_runningBar ==
    IF Unfinished THEN before.timer_running
    ELSE timer_running \/ timer_at = "set"
timed_outBar == IF Unfinished THEN before.timed_out ELSE timed_out

Handlers == INSTANCE ANTServer WITH
    MaxUplink     <- MaxUplink + 1,
    antTx         <- antTxBar,
    uplink        <- uplinkBar,
    flow_control  <- flow_controlBar,
    pending_msg   <- pending_msgBar,
    pending_input <- pending_inputBar,
    checking      <- checkingBar,
    waiting       <- waitingBar,
    timestamp     <- timestampBar,
    timer_running <- timer_runningBar,
    timed_out     <- timed_outBar

(* The order of the accesses inside the handlers is such that without any  *)
(* lock each handler works as if it ran alone, until a timeout comes       *)
(* early: the flow is stopped before the frame is sent and goes on after   *)
(* the last field is reset, the reply is awaited and the timer started     *)
(* before the frame is sent (ANTQueueHandler.cpp:11-16,                    *)
(* ANTServer.cpp:55-200).                                                  *)
ImplementsHandlers ==
    Handlers!Init /\ [][Handlers!Next \/ early']_(Handlers!vars)

(* Every command submitted reaches its conveyor, although the threads stop *)
(* and start one timer and hand the flow to each other, unless a timeout   *)
(* comes early (ANTServer.cpp:48-53, 65, 188; ANTServerTimer.cpp:40-67).   *)
EveryCommandExecuted == []<>(early \/ 1 .. submitted \subseteq executed)

(* The next command is begun only after the current one reached its        *)
(* conveyor: "Received message that we were waiting for"                   *)
(* (ANTServer.cpp:66).                                                     *)
ReleasedWasReceived ==
    [][flow_control = "STOP" /\ flow_control' = "CONTINUE" =>
          command.uid \in executed]_vars
===============================================================================
