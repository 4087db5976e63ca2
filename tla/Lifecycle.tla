------------------------------- MODULE Lifecycle --------------------------------
(***************************************************************************)
(* Start and termination of the nine threads: who starts whom, who asks    *)
(* whom to terminate, who joins whom (MainThread.cpp, ANTThread.cpp,       *)
(* WebSocketThread.cpp, CentralComputerThread.cpp), and when each loop     *)
(* looks at its flag.  A message is a count in its queue: what it says     *)
(* makes no difference here.                                               *)
(*                                                                         *)
(* The clients are external, and so is websocketpp, which is not in the    *)
(* repository: its run returns once it neither listens nor has a           *)
(* connection, and its functions throw when they are called out of place,  *)
(* which nothing catches.                                                  *)
(***************************************************************************)
EXTENDS Naturals

CONSTANTS
    Client,
    MaxMessages      \* bound: messages the clients send

VARIABLES
    at,              \* where each thread is
    terminate_requested,
    exited,          \* the process was ended by exit, abort or an exception
    timer_deleted,
    webRx, webTx, antTx,    \* the number of messages in each queue
    listening,
    opening,         \* external: the clients in their opening handshake
    m_connections,
    leaving,         \* external: the clients in their closing handshake
    sent             \* messages sent by clients so far

Thread == {"main", "ant", "web", "processing", "queue", "driver", "timer",
           "webqueue", "asio"}

sockets == <<listening, opening, m_connections, leaving, sent>>
queues == <<webRx, webTx, antTx>>
vars == <<at, terminate_requested, exited, timer_deleted, queues, sockets>>

(* The timer thread is started when the objects are constructed.           *)
Init ==
    /\ at = [t \in Thread |-> IF t = "main" THEN "starting"
                             ELSE IF t = "timer" THEN "looping"
                             ELSE "new"]
    /\ terminate_requested = [t \in Thread |-> FALSE]
    /\ exited = FALSE
    /\ timer_deleted = FALSE
    /\ webRx = 0
    /\ webTx = 0
    /\ antTx = 0
    /\ listening = FALSE
    /\ opening = {}
    /\ m_connections = {}
    /\ leaving = {}
    /\ sent = 0

At(t, place) == at[t] = place /\ ~exited

Goto(t, place) == at' = [at EXCEPT ![t] = place]

Ended(t) == at[t] = "ended"

(* A thread does nothing but go from one place to another. *)
Goes(t, from, to) ==
    /\ At(t, from)
    /\ Goto(t, to)
    /\ UNCHANGED <<terminate_requested, exited, timer_deleted, queues, sockets>>

(* A thread starts others. *)
Starts(t, children, first) ==
    /\ at' = [u \in Thread |-> IF u = t THEN "looping"
                               ELSE IF u \in children THEN first
                               ELSE at[u]]
    /\ UNCHANGED <<terminate_requested, exited, timer_deleted, queues, sockets>>

(* A thread asks another one to terminate. *)
Requests(t, from, child, to) ==
    /\ At(t, from)
    /\ terminate_requested' = [terminate_requested EXCEPT ![child] = TRUE]
    /\ Goto(t, to)
    /\ UNCHANGED <<exited, timer_deleted, queues, sockets>>

(* A thread waits for another one to end. *)
Joins(t, from, child, to) == Ended(child) /\ Goes(t, from, to)

(* The process ends, with whatever its threads are doing. *)
Exits ==
    /\ exited' = TRUE
    /\ UNCHANGED <<at, terminate_requested, timer_deleted, queues, sockets>>

(* A loop ends that looks at its flag. *)
Obeys(t, from, to) == terminate_requested[t] /\ Goes(t, from, to)

------------------------------------------------------------------------------
(* The main thread *)

start_threads ==
    /\ At("main", "starting")
    /\ Starts("main", {"ant", "web", "processing"}, "starting")

(* A 0, or a word that is no number, is a request to terminate; any other  *)
(* number is not.                                                          *)
get_user_command == Requests("main", "looping", "main", "request_ant")

request_termination ==
    \/ Requests("main", "request_ant", "ant", "request_web")
    \/ Requests("main", "request_web", "web", "request_processing")
    \/ Requests("main", "request_processing", "processing", "join_ant")

(* Mutant: the main thread does not wait for the plant's threads. *)
join_threads_NotANT ==
    \/ Goes("main", "join_ant", "join_web")
    \/ Joins("main", "join_web", "web", "join_processing")
    \/ Joins("main", "join_processing", "processing", "ended")

join_threads ==
    \/ Joins("main", "join_ant", "ant", "join_web")
    \/ Joins("main", "join_web", "web", "join_processing")
    \/ Joins("main", "join_processing", "processing", "ended")

main == start_threads \/ get_user_command \/ request_termination \/ join_threads

------------------------------------------------------------------------------
(* ANTThread: the queue handler and the driver *)

(* Mutant: the driver is asked to terminate before the queue handler. *)
ANTThread_DriverFirst ==
    \/ At("ant", "starting") /\ Starts("ant", {"queue", "driver"}, "starting")
    \/ Obeys("ant", "looping", "request_queue")
    \/ Requests("ant", "request_queue", "driver", "request_driver")
    \/ Requests("ant", "request_driver", "queue", "join_queue")
    \/ Joins("ant", "join_queue", "queue", "join_driver")
    \/ Joins("ant", "join_driver", "driver", "ended")

ANTThread ==
    \/ At("ant", "starting") /\ Starts("ant", {"queue", "driver"}, "starting")
    \/ Obeys("ant", "looping", "request_queue")
    \/ Requests("ant", "request_queue", "queue", "request_driver")
    \/ Requests("ant", "request_driver", "driver", "join_queue")
    \/ Joins("ant", "join_queue", "queue", "join_driver")
    \/ Joins("ant", "join_driver", "driver", "ended")

(* The flag is looked at before each command. *)
take_command ==
    /\ At("queue", "looping")
    /\ ~terminate_requested["queue"]
    /\ antTx > 0
    /\ antTx' = antTx - 1
    /\ Goto("queue", "sending")
    /\ UNCHANGED <<terminate_requested, exited, timer_deleted, webRx, webTx,
                   sockets>>

(* A handler that begins a command stops and starts the timer.  Nothing    *)
(* keeps the timer for one that began before the driver ended: using the   *)
(* deleted timer is undefined, and may go well or end the process.         *)
queue_handler ==
    \/ Goes("queue", "starting", "looping")
    \/ Goes("queue", "sending", "looping")
    \/ At("queue", "sending") /\ timer_deleted /\ Exits
    \/ Obeys("queue", "looping", "ended")

(* Without the library, or without the radio's stick, the process exits. *)
Program_Init ==
    \/ Goes("driver", "starting", "looping")
    \/ At("driver", "starting") /\ Exits

(* The driver looks at its own flag only, whatever the queue handler does. *)
ANT_Close == Obeys("driver", "looping", "closed")

join_timer ==
    /\ At("driver", "join_timer")
    /\ Ended("timer")
    /\ timer_deleted' = TRUE
    /\ Goto("driver", "ended")
    /\ UNCHANGED <<terminate_requested, exited, queues, sockets>>

(* Mutant: the timer is joined without being asked to terminate. *)
driver_KeepsTimer ==
    \/ Program_Init
    \/ ANT_Close
    \/ Goes("driver", "closed", "join_timer")
    \/ join_timer

driver ==
    \/ Program_Init
    \/ ANT_Close
    \/ Requests("driver", "closed", "timer", "join_timer")
    \/ join_timer

timer == Obeys("timer", "looping", "ended")

------------------------------------------------------------------------------
(* The processing thread *)

handle_message ==
    /\ At("processing", "looping")
    /\ ~terminate_requested["processing"]
    /\ webRx > 0
    /\ webRx' = webRx - 1
    /\ \E answers, commands \in 0 .. 1 :
          webTx' = webTx + answers /\ antTx' = antTx + commands
    /\ UNCHANGED <<at, terminate_requested, exited, timer_deleted, sockets>>

processing ==
    \/ Goes("processing", "starting", "looping")
    \/ Obeys("processing", "looping", "ended")

------------------------------------------------------------------------------
(* WebSocketThread: the web queue handler and the server *)

(* The server does not look at its flag: it stops listening and closes the *)
(* connections it has.  Out of place, both throw.                          *)
request_server_termination ==
    /\ At("web", "request_asio")
    /\ \/ /\ listening
          /\ m_connections \intersect leaving = {}
          /\ terminate_requested' = [terminate_requested EXCEPT !["asio"] = TRUE]
          /\ listening' = FALSE
          /\ leaving' = m_connections
          /\ Goto("web", "join_webqueue")
          /\ UNCHANGED exited
       \/ /\ ~listening \/ m_connections \intersect leaving # {}
          /\ exited' = TRUE
          /\ UNCHANGED <<at, terminate_requested, listening, leaving>>
    /\ UNCHANGED <<timer_deleted, queues, opening, m_connections, sent>>

WebSocketThread ==
    \/ At("web", "starting") /\ Starts("web", {"webqueue", "asio"}, "starting")
    \/ Obeys("web", "looping", "request_webqueue")
    \/ Requests("web", "request_webqueue", "webqueue", "request_asio")
    \/ request_server_termination
    \/ Joins("web", "join_webqueue", "webqueue", "join_asio")
    \/ Joins("web", "join_asio", "asio", "ended")

(* The inner loop sends all there is, and does not look at the flag. *)
send ==
    /\ At("webqueue", "sending")
    /\ webTx > 0
    /\ webTx' = webTx - 1
    /\ UNCHANGED <<at, terminate_requested, exited, timer_deleted, webRx,
                   antTx, sockets>>

web_queue_handler ==
    \/ Goes("webqueue", "starting", "looping")
    \/ ~terminate_requested["webqueue"] /\ Goes("webqueue", "looping", "sending")
    \/ send
    \/ webTx = 0 /\ Goes("webqueue", "sending", "looping")
    \/ Obeys("webqueue", "looping", "ended")

(* The port may be in use, which throws. *)
listen ==
    /\ At("asio", "starting")
    /\ \/ /\ Goto("asio", "looping")
          /\ listening' = TRUE
          /\ UNCHANGED <<terminate_requested, exited, timer_deleted, queues,
                         opening, m_connections, leaving, sent>>
       \/ Exits

run_returns ==
    /\ ~listening
    /\ m_connections = {}
    /\ opening = {}
    /\ Goes("asio", "looping", "ended")

Serves(c) ==
    /\ At("asio", "looping")
    /\ UNCHANGED <<at, terminate_requested, exited, timer_deleted, webTx,
                   antTx, listening>>

on_message(c) ==
    /\ Serves(c)
    /\ c \in m_connections \ leaving
    /\ sent < MaxMessages
    /\ sent' = sent + 1
    /\ webRx' = webRx + 1
    /\ UNCHANGED <<opening, m_connections, leaving>>

on_open(c) ==
    /\ Serves(c)
    /\ c \in opening
    /\ opening' = opening \ {c}
    /\ m_connections' = m_connections \union {c}
    /\ UNCHANGED <<webRx, leaving, sent>>

on_close(c) ==
    /\ Serves(c)
    /\ c \in leaving
    /\ m_connections' = m_connections \ {c}
    /\ leaving' = leaving \ {c}
    /\ UNCHANGED <<webRx, opening, sent>>

------------------------------------------------------------------------------
(* External: the clients *)

connects(c) ==
    /\ Serves(c)
    /\ listening
    /\ c \notin opening \union m_connections
    /\ opening' = opening \union {c}
    /\ UNCHANGED <<webRx, m_connections, leaving, sent>>

leaves(c) ==
    /\ Serves(c)
    /\ c \in m_connections \ leaving
    /\ leaving' = leaving \union {c}
    /\ UNCHANGED <<webRx, opening, m_connections, sent>>

------------------------------------------------------------------------------

client(c) ==
    \/ on_message(c)
    \/ on_open(c)
    \/ on_close(c)
    \/ connects(c)
    \/ leaves(c)

Next ==
    \/ main
    \/ ANTThread
    \/ take_command
    \/ queue_handler
    \/ driver
    \/ timer
    \/ handle_message
    \/ processing
    \/ WebSocketThread
    \/ web_queue_handler
    \/ listen
    \/ run_returns
    \/ \E c \in Client : client(c)

Spec == Init /\ [][Next]_vars

(* The threads run.  No one has to enter a command.  A handshake ends, and *)
(* after the server stopped listening every client leaves in the end.      *)
Fairness ==
    /\ WF_vars(start_threads)
    /\ WF_vars(request_termination)
    /\ WF_vars(join_threads)
    /\ WF_vars(ANTThread)
    /\ WF_vars(queue_handler)
    /\ WF_vars(driver)
    /\ WF_vars(timer)
    /\ WF_vars(processing)
    /\ WF_vars(WebSocketThread)
    /\ WF_vars(web_queue_handler)
    /\ WF_vars(listen)
    /\ WF_vars(run_returns)
    /\ WF_vars(\E c \in Client : on_open(c))
    /\ WF_vars(\E c \in Client : on_close(c))
    /\ WF_vars(~listening /\ \E c \in Client : leaves(c))

LiveSpec == Spec /\ Fairness

------------------------------------------------------------------------------
(* Properties *)

(* The main thread ends last: it destroys the objects and queues that the  *)
(* others use (MainThread.cpp:25-29, 39-41; ANTThread.cpp:23-24;           *)
(* WebSocketThread.cpp:23-24; ANTServer.cpp:22).                           *)
MainEndsLast == Ended("main") => \A t \in Thread : Ended(t)

(* No command is begun once the timer is deleted, which it would start:    *)
(* the queue handler looks at its flag before each command, and was asked  *)
(* to terminate before the driver was (ANTQueueHandler.cpp:10;             *)
(* ANTThread.cpp:20-21; ANTServer.cpp:23, 188).  A command that was begun  *)
(* earlier may still be on its way to the timer then.                      *)
NoCommandBegunAfterTimer ==
    [][timer_deleted => ~(at["queue"] # "sending" /\ at'["queue"] = "sending")]_vars

(* Once the user asks for it every thread ends, or the process was ended   *)
(* by an exception: no thread waits for another one that waits for it      *)
(* (MainThread.cpp:39-50).                                                 *)
EveryThreadEnds ==
    terminate_requested["main"] ~>
        exited \/ \A t \in Thread : Ended(t)
===============================================================================
