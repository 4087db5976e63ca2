---------------------------- MODULE LifecycleProofs -----------------------------
(***************************************************************************)
(* The order in which the threads end and the timer is deleted, for any    *)
(* set of clients and any number of messages.                              *)
(***************************************************************************)
EXTENDS Lifecycle, TLAPS

Place ==
    {"new", "starting", "looping", "sending", "ended", "closed", "join_timer",
     "request_ant", "request_web", "request_processing", "request_queue",
     "request_driver", "request_webqueue", "request_asio", "join_ant",
     "join_web", "join_processing", "join_queue", "join_driver",
     "join_webqueue", "join_asio"}

Types ==
    /\ at \in [Thread -> Place]
    /\ terminate_requested \in [Thread -> BOOLEAN]

(* No thread runs before the one that starts it does. *)
StartInv ==
    /\ at["main"] = "starting" =>
          \A t \in {"ant", "web", "processing"} : at[t] = "new"
    /\ at["ant"] \in {"new", "starting"} =>
          \A t \in {"queue", "driver"} : at[t] = "new"
    /\ at["web"] \in {"new", "starting"} =>
          \A t \in {"webqueue", "asio"} : at[t] = "new"

(* Whoever is past a join joined an ended thread. *)
JoinInv ==
    /\ at["main"] \in {"join_web", "join_processing", "ended"} => Ended("ant")
    /\ at["main"] \in {"join_processing", "ended"} => Ended("web")
    /\ Ended("main") => Ended("processing")
    /\ at["ant"] \in {"join_driver", "ended"} => Ended("queue")
    /\ Ended("ant") => Ended("driver")
    /\ at["web"] \in {"join_asio", "ended"} => Ended("webqueue")
    /\ Ended("web") => Ended("asio")
    /\ Ended("driver") => Ended("timer")

(* The driver is asked to terminate after the queue handler, so that it    *)
(* deletes the timer after that.                                           *)
TimerInv ==
    /\ at["ant"] \in {"request_driver", "join_queue", "join_driver", "ended"} =>
          terminate_requested["queue"]
    /\ terminate_requested["driver"] => terminate_requested["queue"]
    /\ at["driver"] \in {"closed", "join_timer", "ended"} =>
          terminate_requested["queue"]
    /\ timer_deleted => Ended("driver")

ThreadInv == Types /\ StartInv /\ JoinInv /\ TimerInv

LEMMA InitThreads == Init => ThreadInv
  BY SMT DEF Init, ThreadInv, Types, StartInv, JoinInv, TimerInv, Thread, Place,
             Ended

------------------------------------------------------------------------------
(* Each thread preserves the invariant. *)

LEMMA MainThread == ThreadInv /\ main => ThreadInv'
<1> USE DEF ThreadInv, Types, StartInv, JoinInv, TimerInv, Thread, Place, Ended,
            Goto, At, queues, sockets
<1> SUFFICES ASSUME ThreadInv, main PROVE ThreadInv'
  OBVIOUS
<1>1. CASE start_threads
  BY <1>1, SMT DEF start_threads, Starts
<1>2. CASE get_user_command
  BY <1>2, SMT DEF get_user_command, Requests
<1>3. CASE request_termination
  <2>1. CASE Requests("main", "request_ant", "ant", "request_web")
    BY <2>1, SMT DEF Requests
  <2>2. CASE Requests("main", "request_web", "web", "request_processing")
    BY <2>2, SMT DEF Requests
  <2>3. CASE Requests("main", "request_processing", "processing", "join_ant")
    BY <2>3, SMT DEF Requests
  <2> QED
    BY <1>3, <2>1, <2>2, <2>3 DEF request_termination
<1>4. CASE join_threads
  BY <1>4, SMT DEF join_threads, Joins, Goes
<1> QED
  BY <1>1, <1>2, <1>3, <1>4 DEF main

LEMMA PlantThreads ==
    ThreadInv /\ (ANTThread \/ take_command \/ queue_handler \/ driver \/ timer)
    => ThreadInv'
<1> USE DEF ThreadInv, Types, StartInv, JoinInv, TimerInv, Thread, Place, Ended,
            Goto, At, queues, sockets
<1> SUFFICES ASSUME ThreadInv,
                    ANTThread \/ take_command \/ queue_handler \/ driver \/ timer
             PROVE  ThreadInv'
  OBVIOUS
<1>1. CASE ANTThread
  <2>1. CASE At("ant", "starting") /\ Starts("ant", {"queue", "driver"}, "starting")
    BY <2>1, SMT DEF Starts
  <2>2. CASE Obeys("ant", "looping", "request_queue")
    BY <2>2, SMT DEF Obeys, Goes
  <2>3. CASE Requests("ant", "request_queue", "queue", "request_driver")
    BY <2>3, SMT DEF Requests
  <2>4. CASE Requests("ant", "request_driver", "driver", "join_queue")
    BY <2>4, SMT DEF Requests
  <2>5. CASE Joins("ant", "join_queue", "queue", "join_driver")
    BY <2>5, SMT DEF Joins, Goes
  <2>6. CASE Joins("ant", "join_driver", "driver", "ended")
    BY <2>6, SMT DEF Joins, Goes
  <2> QED
    BY <1>1, <2>1, <2>2, <2>3, <2>4, <2>5, <2>6 DEF ANTThread
<1>2. CASE take_command
  BY <1>2, SMT DEF take_command
<1>3. CASE queue_handler
  BY <1>3, SMT DEF queue_handler, Obeys, Goes, Exits
<1>4. CASE driver
  <2>1. CASE Program_Init
    BY <2>1, SMT DEF Program_Init, Exits, Goes
  <2>2. CASE ANT_Close
    BY <2>2, SMT DEF ANT_Close, Obeys, Goes
  <2>3. CASE Requests("driver", "closed", "timer", "join_timer")
    BY <2>3, SMT DEF Requests
  <2>4. CASE join_timer
    BY <2>4, SMT DEF join_timer
  <2> QED
    BY <1>4, <2>1, <2>2, <2>3, <2>4 DEF driver
<1>5. CASE timer
  BY <1>5, SMT DEF timer, Obeys, Goes
<1> QED
  BY <1>1, <1>2, <1>3, <1>4, <1>5

LEMMA WebThreads ==
    ThreadInv /\ (WebSocketThread \/ web_queue_handler \/ listen \/ run_returns)
    => ThreadInv'
<1> USE DEF ThreadInv, Types, StartInv, JoinInv, TimerInv, Thread, Place, Ended,
            Goto, At, queues, sockets
<1> SUFFICES ASSUME ThreadInv,
                    WebSocketThread \/ web_queue_handler \/ listen \/ run_returns
             PROVE  ThreadInv'
  OBVIOUS
<1>1. CASE WebSocketThread
  <2>1. CASE At("web", "starting") /\ Starts("web", {"webqueue", "asio"}, "starting")
    BY <2>1, SMT DEF Starts
  <2>2. CASE Obeys("web", "looping", "request_webqueue")
    BY <2>2, SMT DEF Obeys, Goes
  <2>3. CASE Requests("web", "request_webqueue", "webqueue", "request_asio")
    BY <2>3, SMT DEF Requests
  <2>4. CASE request_server_termination
    <3>1. CASE /\ at["web"] = "request_asio"
               /\ at' = [at EXCEPT !["web"] = "join_webqueue"]
               /\ terminate_requested' =
                     [terminate_requested EXCEPT !["asio"] = TRUE]
               /\ UNCHANGED timer_deleted
      BY <3>1, SMT
    <3>2. CASE UNCHANGED <<at, terminate_requested, timer_deleted>>
      BY <3>2, SMT
    <3> QED
      BY <2>4, <3>1, <3>2, Zenon DEF request_server_termination
  <2>5. CASE Joins("web", "join_webqueue", "webqueue", "join_asio")
    BY <2>5, SMT DEF Joins, Goes
  <2>6. CASE Joins("web", "join_asio", "asio", "ended")
    BY <2>6, SMT DEF Joins, Goes
  <2> QED
    BY <1>1, <2>1, <2>2, <2>3, <2>4, <2>5, <2>6 DEF WebSocketThread
<1>2. CASE web_queue_handler
  BY <1>2, SMT DEF web_queue_handler, send, Obeys, Goes
<1>3. CASE listen
  BY <1>3, SMT DEF listen, Exits
<1>4. CASE run_returns
  BY <1>4, SMT DEF run_returns, Goes
<1> QED
  BY <1>1, <1>2, <1>3, <1>4

(* Clients, and the messages they send, move no thread. *)
LEMMA OtherSteps ==
    /\ ThreadInv
    /\ \/ handle_message
       \/ processing
       \/ \E c \in Client : client(c)
       \/ UNCHANGED vars
    => ThreadInv'
<1> USE DEF ThreadInv, Types, StartInv, JoinInv, TimerInv, Thread, Place, Ended,
            Goto, At, queues, sockets
<1> SUFFICES ASSUME ThreadInv,
                    \/ handle_message
                    \/ processing
                    \/ \E c \in Client : client(c)
                    \/ UNCHANGED vars
             PROVE  ThreadInv'
  OBVIOUS
<1>1. CASE handle_message
  BY <1>1, SMT DEF handle_message
<1>2. CASE processing
  BY <1>2, SMT DEF processing, Obeys, Goes
<1>3. CASE \E c \in Client : client(c)
  BY <1>3, SMT DEF client, Serves, on_message, on_open, on_close, connects, leaves
<1>4. CASE UNCHANGED vars
  BY <1>4, SMT DEF vars
<1> QED
  BY <1>1, <1>2, <1>3, <1>4

------------------------------------------------------------------------------

(* The threads start, end and are joined in the order that ThreadInv       *)
(* says, at every moment (MainThread.cpp, ANTThread.cpp,                   *)
(* WebSocketThread.cpp).                                                   *)
THEOREM ThreadInvHolds == Spec => []ThreadInv
<1>1. ThreadInv /\ [Next]_vars => ThreadInv'
  BY MainThread, PlantThreads, WebThreads, OtherSteps DEF Next
<1> QED
  BY InitThreads, <1>1, PTL DEF Spec

(* The main thread ends last, however many clients there are and whenever  *)
(* the user asks to terminate: nothing that it destroys is still used.     *)
THEOREM MainEndsLastHolds == Spec => []MainEndsLast
<1>1. ThreadInv => MainEndsLast
  BY DEF ThreadInv, JoinInv, MainEndsLast, Thread, Ended
<1> QED
  BY <1>1, ThreadInvHolds, PTL

(* Only take_command begins a command, and it looks at the flag.           *)
LEMMA BeginsBeforeRequest ==
    ThreadInv /\ [Next]_vars
    => (terminate_requested["queue"]
        => ~(at["queue"] # "sending" /\ at'["queue"] = "sending"))
<1> USE DEF ThreadInv, Types, Thread, Goto, At, queues, sockets
<1> SUFFICES ASSUME ThreadInv, [Next]_vars, terminate_requested["queue"],
                    at["queue"] # "sending"
             PROVE  at'["queue"] # "sending"
  OBVIOUS
<1>1. CASE main
  BY <1>1, SMT DEF main, start_threads, Starts, get_user_command, Requests,
                   request_termination, join_threads, Joins, Goes
<1>2. CASE ANTThread
  BY <1>2, SMT DEF ANTThread, Starts, Requests, Joins, Obeys, Goes
<1>3. CASE take_command
  BY <1>3 DEF take_command
<1>4. CASE queue_handler
  BY <1>4, SMT DEF queue_handler, Obeys, Goes, Exits
<1>5. CASE driver \/ timer
  BY <1>5, SMT DEF driver, Program_Init, Exits, ANT_Close, Requests, join_timer,
                   timer, Obeys, Goes
<1>6. CASE handle_message \/ processing
  BY <1>6, SMT DEF handle_message, processing, Obeys, Goes
<1>7. CASE WebSocketThread
  <2>1. CASE request_server_termination
    <3>1. CASE at' = [at EXCEPT !["web"] = "join_webqueue"]
      BY <3>1, SMT
    <3>2. CASE UNCHANGED at
      BY <3>2
    <3> QED
      BY <2>1, <3>1, <3>2, Zenon DEF request_server_termination
  <2>2. CASE WebSocketThread /\ ~request_server_termination
    BY <2>2, SMT DEF WebSocketThread, Starts, Requests, Joins, Obeys, Goes
  <2> QED
    BY <1>7, <2>1, <2>2
<1>8. CASE web_queue_handler \/ listen \/ run_returns
  BY <1>8, SMT DEF web_queue_handler, send, listen, run_returns, Obeys, Goes, Exits
<1>9. CASE \E c \in Client : client(c)
  BY <1>9, SMT DEF client, Serves, on_message, on_open, on_close, connects, leaves
<1>10. CASE UNCHANGED vars
  BY <1>10 DEF vars
<1> QED
  BY <1>1, <1>2, <1>3, <1>4, <1>5, <1>6, <1>7, <1>8, <1>9, <1>10 DEF Next

(* No command is begun once the timer has been deleted, whatever the       *)
(* clients do and whenever the user asks to terminate.                     *)
THEOREM NoCommandBegunAfterTimerHolds == Spec => NoCommandBegunAfterTimer
<1>1. ThreadInv /\ timer_deleted => terminate_requested["queue"]
  BY DEF ThreadInv, TimerInv, Ended
<1>2. ThreadInv /\ [Next]_vars =>
        [timer_deleted =>
            ~(at["queue"] # "sending" /\ at'["queue"] = "sending")]_vars
  BY <1>1, BeginsBeforeRequest
<1> QED
  BY <1>2, ThreadInvHolds, PTL DEF Spec, NoCommandBegunAfterTimer
===============================================================================
