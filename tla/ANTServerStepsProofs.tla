-------------------------- MODULE ANTServerStepsProofs --------------------------
(***************************************************************************)
(* Theorems about the handlers of ANTServer access by access, for every    *)
(* set of conveyors and every bound, with the timer of the code and any    *)
(* length of its timeout, up to the first timeout that comes while a       *)
(* thread is in a handler or a frame or a reply is on its way.             *)
(*                                                                         *)
(* No lock keeps the threads apart: what does is that the reason for a     *)
(* handler to begin is gone as long as another one runs.  The inductive    *)
(* invariant says where the one reason is: with the flow that goes on,     *)
(* with the frame or the reply on its way, with the timer that expired, or *)
(* with the thread that is in its handler.                                 *)
(*                                                                         *)
(* HandlerInv says besides what the thread in its handler has done so far  *)
(* with the fields, from which every access is a step of ANTServer or      *)
(* none: the handlers implement the handlers that are one step each.       *)
(***************************************************************************)
EXTENDS ANTServerSteps, TLAPS

------------------------------------------------------------------------------
(* The inductive invariant *)

Label ==
    {"idle", "hold", "wait", "stamp", "check", "delete", "null", "new",
     "start", "header", "data", "transmit", "forget", "stop", "held", "reset",
     "continue", "peek", "copy", "read"}

IsASeq(s) == s \in Seq({s[i] : i \in DOMAIN s})

UplinkTyped ==
    /\ uplink = [c \in ConveyorId |-> uplink[c]]
    /\ \A c \in ConveyorId : IsASeq(uplink[c])

Replied(c, i) == uplink[c][i].id # "PACKAGE_ARRIVED"

Expired == timed_out \/ timer_at \in {"test", "clear", "set"}

StepsTyped ==
    /\ pc \in [Thread -> Label]
    /\ UplinkTyped
    /\ early = FALSE

(* One thread at a time is in its handler, and only the callback still has *)
(* something to do when its frame is sent.                                 *)
OneThread ==
    /\ \A t, u \in Thread : pc[t] # "idle" /\ pc[u] # "idle" => t = u
    /\ \A t \in Thread : pc[t] = "forget" => t = "callback"

(* One frame or one reply is on its way. *)
OneOnItsWay ==
    /\ air # NoFrame =>
          \A c \in ConveyorId : \A i \in DOMAIN uplink[c] : ~Replied(c, i)
    /\ \A c, d \in ConveyorId : \A i \in DOMAIN uplink[c] :
          \A j \in DOMAIN uplink[d] :
             Replied(c, i) /\ Replied(d, j) => c = d /\ i = j

(* The reason for the next handler to begin is in one place. *)
OneReason ==
    /\ ~Idle => flow_control # "CONTINUE" /\ ~Expired
    /\ Unfinished => Server!NothingInFlight
    /\ Expired => flow_control # "CONTINUE" /\ Server!NothingInFlight
    /\ flow_control = "CONTINUE" =>
          Server!NothingInFlight /\ ~timer_running

(* The timer runs until it expires, and not once its handler began. *)
TimerInStep ==
    /\ timeout_occured => timer_at \in {"test", "clear"}
    /\ timer_at \in {"test", "clear"} => timer_running
    /\ timed_out \/ timer_at = "set" => ~timer_running
    /\ timed_out => timer_at # "set"
    /\ pc["callback"] \notin {"idle", "stop", "header", "data", "transmit",
                              "forget"} => ~timer_running

(* The message that is pending is used before it is deleted, and only      *)
(* between its deletion and the next assignment the pointer dangles.       *)
PointerInStep ==
    /\ dangling => \E t \in Thread : pc[t] = "null"
    /\ \A t \in Thread : pc[t] = "copy" => pending_msg # NoMessage

StepsInv ==
    /\ StepsTyped
    /\ OneThread
    /\ OneOnItsWay
    /\ OneReason
    /\ TimerInStep
    /\ PointerInStep
    /\ NoFault
------------------------------------------------------------------------------
(* Sequences, and what is on its way *)

LEMMA Proper == ASSUME NEW S, NEW s \in Seq(S) PROVE IsASeq(s)
<1>1. Len(s) \in Nat /\ DOMAIN s = 1 .. Len(s)
  OBVIOUS
<1>2. s = [i \in 1 .. Len(s) |-> s[i]]
  OBVIOUS
<1>3. \A i \in 1 .. Len(s) : s[i] \in {s[j] : j \in DOMAIN s}
  BY <1>1
<1> DEFINE R == {s[j] : j \in DOMAIN s}
<1>4. s \in [1 .. Len(s) -> R]
  BY <1>2, <1>3
<1> HIDE DEF R
<1>5. s \in Seq(R)
  BY <1>1, <1>4
<1> QED
  BY <1>5 DEF IsASeq, R

LEMMA Appending ==
    ASSUME NEW s, IsASeq(s), NEW e
    PROVE  /\ IsASeq(Append(s, e))
           /\ \A i \in DOMAIN Append(s, e) :
                 \/ i \in DOMAIN s /\ Append(s, e)[i] = s[i]
                 \/ i = Len(s) + 1 /\ Append(s, e)[i] = e
<1> DEFINE T == {s[i] : i \in DOMAIN s} \union {e}
<1>1. s \in Seq({s[i] : i \in DOMAIN s})
  BY DEF IsASeq
<1> DEFINE R == {s[i] : i \in DOMAIN s}
<1>2. s \in Seq(R) /\ R \subseteq T /\ e \in T
  BY <1>1
<1> HIDE DEF T, R
<1>3. s \in Seq(T)
  BY <1>2
<1>4. Append(s, e) \in Seq(T)
  BY <1>2, <1>3
<1>5. IsASeq(Append(s, e))
  BY <1>4, Proper
<1> QED
  BY <1>2, <1>3, <1>5

LEMMA Tailing ==
    ASSUME NEW s, IsASeq(s), s # <<>>
    PROVE  /\ IsASeq(Tail(s))
           /\ Head(s) = s[1]
           /\ 1 \in DOMAIN s
           /\ \A i \in DOMAIN Tail(s) : /\ i \in Nat \ {0}
                                      /\ i + 1 \in DOMAIN s
                                      /\ Tail(s)[i] = s[i + 1]
<1> DEFINE R == {s[i] : i \in DOMAIN s}
<1>1. s \in Seq(R)
  BY DEF IsASeq
<1> HIDE DEF R
<1>2. Tail(s) \in Seq(R)
  BY <1>1
<1>3. IsASeq(Tail(s))
  BY <1>2, Proper
<1> QED
  BY <1>1, <1>2, <1>3
(* Taking or losing a reply moves up those behind it. *)
LEMMA Shifted ==
    ASSUME UplinkTyped, NEW c \in ConveyorId, uplink[c] # <<>>,
           uplink' = [uplink EXCEPT ![c] = Tail(@)]
    PROVE  /\ UplinkTyped'
           /\ \A d \in ConveyorId : \A j \in DOMAIN uplink'[d] :
                 \E i \in DOMAIN uplink[d] :
                    /\ uplink'[d][j] = uplink[d][i]
                    /\ i = IF d = c THEN j + 1 ELSE j
                    /\ d = c => j \in Nat \ {0}
<1>1. \A d \in ConveyorId :
         uplink'[d] = IF d = c THEN Tail(uplink[c]) ELSE uplink[d]
  BY DEF UplinkTyped
<1>2. UplinkTyped'
  <2>1. uplink' = [d \in ConveyorId |-> uplink'[d]]
    BY DEF UplinkTyped
  <2>2. ASSUME NEW d \in ConveyorId PROVE IsASeq(uplink'[d])
    <3>1. CASE d = c
      BY <1>1, <3>1, Tailing DEF UplinkTyped
    <3>2. CASE d # c
      BY <1>1, <3>2 DEF UplinkTyped
    <3> QED
      BY <3>1, <3>2
  <2> QED
    BY <2>1, <2>2 DEF UplinkTyped
<1>3. ASSUME NEW d \in ConveyorId, NEW j \in DOMAIN uplink'[d]
      PROVE  \E i \in DOMAIN uplink[d] :
                /\ uplink'[d][j] = uplink[d][i]
                /\ i = IF d = c THEN j + 1 ELSE j
                /\ d = c => j \in Nat \ {0}
  <2>1. CASE d = c
    <3>1. IsASeq(uplink[c])
      BY DEF UplinkTyped
    <3>2. /\ j \in Nat \ {0}
          /\ j + 1 \in DOMAIN uplink[c]
          /\ Tail(uplink[c])[j] = uplink[c][j + 1]
      <4>1. j \in DOMAIN Tail(uplink[c])
        BY <1>1, <2>1
      <4> QED
        BY <3>1, <4>1, Tailing
    <3> QED
      BY <1>1, <2>1, <3>2
  <2>2. CASE d # c
    BY <1>1, <2>2
  <2> QED
    BY <2>1, <2>2
<1> QED
  BY <1>2, <1>3

(* With a reply less, at most one is on its way as before. *)
LEMMA OneLess ==
    ASSUME UplinkTyped, OneOnItsWay, NEW c \in ConveyorId, uplink[c] # <<>>,
           uplink' = [uplink EXCEPT ![c] = Tail(@)], UNCHANGED air
    PROVE  /\ OneOnItsWay'
           /\ Server!NothingInFlight => Server!NothingInFlight'
<1>1. \A d \in ConveyorId : \A j \in DOMAIN uplink'[d] :
         \E i \in DOMAIN uplink[d] :
            /\ uplink'[d][j] = uplink[d][i]
            /\ i = IF d = c THEN j + 1 ELSE j
            /\ d = c => j \in Nat \ {0}
  BY Shifted
<1>2. Server!NothingInFlight => Server!NothingInFlight'
  BY <1>1 DEF Server!NothingInFlight, Server!NoFrame, Server!NoMessage
<1>3. ASSUME air' # NoFrame, NEW d \in ConveyorId, NEW j \in DOMAIN uplink'[d]
      PROVE  ~Replied(d, j)'
  BY <1>1, <1>3 DEF OneOnItsWay, Replied
<1>4. ASSUME NEW d \in ConveyorId, NEW e \in ConveyorId,
             NEW j \in DOMAIN uplink'[d], NEW k \in DOMAIN uplink'[e],
             Replied(d, j)', Replied(e, k)'
      PROVE  d = e /\ j = k
  <2>1. PICK i \in DOMAIN uplink[d] :
           /\ uplink'[d][j] = uplink[d][i]
           /\ i = IF d = c THEN j + 1 ELSE j
           /\ d = c => j \in Nat \ {0}
    BY <1>1
  <2>2. PICK h \in DOMAIN uplink[e] :
           /\ uplink'[e][k] = uplink[e][h]
           /\ h = IF e = c THEN k + 1 ELSE k
           /\ e = c => k \in Nat \ {0}
    BY <1>1
  <2>3. Replied(d, i) /\ Replied(e, h)
    BY <1>4, <2>1, <2>2 DEF Replied
  <2>4. d = e /\ i = h
    BY <2>3 DEF OneOnItsWay
  <2> QED
    BY <2>1, <2>2, <2>4
<1> QED
  BY <1>2, <1>3, <1>4 DEF OneOnItsWay, NoFrame, Server!NoFrame,
                          Server!NoMessage

(* The reply that is taken was all that was on its way. *)
LEMMA LastTaken ==
    ASSUME UplinkTyped, OneOnItsWay, NEW c \in ConveyorId, uplink[c] # <<>>,
           Head(uplink[c]).id # "PACKAGE_ARRIVED",
           uplink' = [uplink EXCEPT ![c] = Tail(@)], UNCHANGED air
    PROVE  /\ ~Server!NothingInFlight
           /\ Server!NothingInFlight'
<1>1. /\ 1 \in DOMAIN uplink[c]
      /\ Replied(c, 1)
  BY Tailing DEF UplinkTyped, Replied
<1>2. air = NoFrame
  BY <1>1 DEF OneOnItsWay
<1>3. ASSUME NEW d \in ConveyorId, NEW j \in DOMAIN uplink'[d]
      PROVE  ~Replied(d, j)'
  <2>1. PICK i \in DOMAIN uplink[d] :
           /\ uplink'[d][j] = uplink[d][i]
           /\ i = IF d = c THEN j + 1 ELSE j
           /\ d = c => j \in Nat \ {0}
    BY Shifted, ZenonT(30)
  <2>2. d = c => i # 1
    BY <2>1
  <2>3. ~Replied(d, i)
    BY <1>1, <2>2 DEF OneOnItsWay
  <2> QED
    BY <2>1, <2>3 DEF Replied
<1> QED
  BY <1>1, <1>2, <1>3 DEF Server!NothingInFlight, Replied, NoFrame

(* A message that is put behind the replies of a conveyor. *)
LEMMA Behind ==
    ASSUME UplinkTyped, NEW c, NEW e,
           uplink' = [uplink EXCEPT ![c] = Append(@, e)]
    PROVE  /\ UplinkTyped'
           /\ \A d \in ConveyorId : \A j \in DOMAIN uplink'[d] :
                 \/ j \in DOMAIN uplink[d] /\ uplink'[d][j] = uplink[d][j]
                 \/ /\ d = c
                    /\ j = Len(uplink[c]) + 1
                    /\ uplink'[d][j] = e
<1>1. \A d \in ConveyorId :
         uplink'[d] = IF d = c THEN Append(uplink[c], e) ELSE uplink[d]
  BY DEF UplinkTyped
<1>2. ASSUME NEW d \in ConveyorId
      PROVE  /\ IsASeq(uplink'[d])
             /\ \A j \in DOMAIN uplink'[d] :
                   \/ j \in DOMAIN uplink[d] /\ uplink'[d][j] = uplink[d][j]
                   \/ /\ d = c
                      /\ j = Len(uplink[c]) + 1
                      /\ uplink'[d][j] = e
  <2>1. CASE d = c
    <3>1. IsASeq(uplink[c])
      BY <2>1 DEF UplinkTyped
    <3> QED
      BY <1>1, <2>1, <3>1, Appending
  <2>2. CASE d # c
    BY <1>1, <2>2 DEF UplinkTyped
  <2> QED
    BY <2>1, <2>2
<1>3. uplink' = [d \in ConveyorId |-> uplink'[d]]
  BY DEF UplinkTyped
<1> QED
  BY <1>2, <1>3 DEF UplinkTyped
------------------------------------------------------------------------------
(* Steps of a handler *)

LEMMA Alone ==
    ASSUME StepsInv, NEW t \in Thread, pc[t] # "idle"
    PROVE  /\ \A u \in Thread : u # t => pc[u] = "idle"
           /\ pc[t] # "null" => ~dangling
           /\ flow_control # "CONTINUE"
           /\ ~timed_out
           /\ timer_at \notin {"test", "clear", "set"}
           /\ ~timeout_occured
           /\ pc[t] # "forget" => Server!NothingInFlight
<1>1. \A u \in Thread : u # t => pc[u] = "idle"
  BY DEF StepsInv, OneThread
<1>2. ~Idle
  BY DEF Idle
<1>3. pc[t] # "null" => ~dangling
  BY <1>1 DEF StepsInv, PointerInStep
<1>4. pc[t] # "forget" => Unfinished
  BY DEF Unfinished, InHandler
<1> QED
  BY <1>1, <1>2, <1>3, <1>4
  DEF StepsInv, OneReason, Expired, TimerInStep

LEMMA Going ==
    ASSUME StepsTyped, NEW t \in Thread, NEW l, Goto(t, l)
    PROVE  /\ pc'[t] = l
           /\ \A u \in Thread : u # t => pc'[u] = pc[u]
           /\ l \in Label => pc' \in [Thread -> Label]
BY DEF StepsTyped, Goto

(* A step from one access to the next. *)
LEMMA InsideStep ==
    ASSUME StepsInv, NEW t \in Thread, NEW l \in Label,
           pc[t] \notin {"idle", "forget"}, l \notin {"idle", "forget"},
           Goto(t, l),
           UNCHANGED <<uplink, air, flow_control, timer_at, timed_out,
                       timeout_occured, early>>,
           timer_running' =>
              \/ l \in {"header", "data", "transmit"}
              \/ /\ timer_running
                 /\ pc[t] \notin {"stop", "header", "data", "transmit"},
           dangling' => l = "null",
           l = "copy" => pending_msg' # NoMessage,
           ~fault'
    PROVE  StepsInv'
<1>1. /\ pc'[t] = l
      /\ pc' \in [Thread -> Label]
      /\ \A u \in Thread : u # t => pc'[u] = pc[u]
  BY Going DEF StepsInv
<1>2. /\ \A u \in Thread : u # t => pc[u] = "idle"
      /\ flow_control # "CONTINUE"
      /\ ~timed_out
      /\ timer_at \notin {"test", "clear", "set"}
      /\ ~timeout_occured
      /\ Server!NothingInFlight
  BY Alone
<1>3. StepsTyped'
  BY <1>1 DEF StepsInv, StepsTyped, UplinkTyped
<1>4. OneThread'
  BY <1>1, <1>2 DEF OneThread
<1>5. OneOnItsWay'
  BY DEF StepsInv, OneOnItsWay, Replied, NoFrame, Server!NoFrame,
         Server!NoMessage
<1>6. OneReason'
  BY <1>2 DEF OneReason, Expired, Server!NothingInFlight, Server!NoFrame,
              Server!NoMessage
<1>7. TimerInStep'
  <2>1. CASE t = "callback"
    BY <1>1, <1>2, <2>1 DEF TimerInStep, StepsInv
  <2>2. CASE t # "callback"
    <3>1. pc'["callback"] = "idle"
      BY <1>1, <1>2, <2>2 DEF Thread
    <3> QED
      BY <1>2, <3>1 DEF TimerInStep
  <2> QED
    BY <2>1, <2>2
<1>8. PointerInStep'
  BY <1>1, <1>2 DEF PointerInStep, NoMessage, Server!NoMessage
<1> QED
  BY <1>3, <1>4, <1>5, <1>6, <1>7, <1>8 DEF StepsInv, NoFault

(* The last access of a handler, with the frame that is sent on its way,   *)
(* or with the flow that goes on. *)
LEMMA LastStep ==
    ASSUME StepsInv, NEW t \in Thread, NEW l \in {"idle", "forget"},
           pc[t] # "idle", pc[t] # "null", Goto(t, l),
           l = "forget" => t = "callback",
           UNCHANGED <<uplink, timer_at, timed_out, timeout_occured, early,
                       dangling, timer_running, fault>>,
           air' = air \/ Server!NothingInFlight,
           \/ flow_control' = flow_control
           \/ Server!NothingInFlight' /\ ~timer_running /\ l = "idle"
    PROVE  StepsInv'
<1>1. /\ pc'[t] = l
      /\ pc' \in [Thread -> Label]
      /\ \A u \in Thread : u # t => pc'[u] = pc[u]
  BY Going DEF StepsInv, Label
<1>2. /\ \A u \in Thread : u # t => pc[u] = "idle"
      /\ flow_control # "CONTINUE"
      /\ ~timed_out
      /\ timer_at \notin {"test", "clear", "set"}
      /\ ~timeout_occured
      /\ ~dangling
  BY Alone
<1>3. StepsTyped'
  BY <1>1 DEF StepsInv, StepsTyped, UplinkTyped
<1>4. OneThread'
  BY <1>1, <1>2 DEF OneThread
<1>5. OneOnItsWay'
  BY DEF StepsInv, OneOnItsWay, Replied, NoFrame, Server!NoFrame,
         Server!NoMessage, Server!NothingInFlight
<1>6. OneReason'
  <2>1. ~Unfinished'
    BY <1>1, <1>2 DEF Unfinished, InHandler
  <2>2. ~Expired'
    BY <1>2 DEF Expired
  <2>3. ~Idle' => flow_control' # "CONTINUE"
    <3>1. CASE flow_control' = flow_control
      BY <1>2, <3>1
    <3>2. CASE l = "idle"
      BY <1>1, <1>2, <3>2 DEF Idle
    <3> QED
      BY <3>1, <3>2
  <2> QED
    BY <1>2, <2>1, <2>2, <2>3 DEF OneReason
<1>7. TimerInStep'
  <2>1. pc'["callback"] \in {"idle", "forget"}
    BY <1>1, <1>2 DEF Thread
  <2> QED
    BY <1>2, <2>1 DEF TimerInStep
<1>8. PointerInStep'
  BY <1>1, <1>2 DEF PointerInStep
<1> QED
  BY <1>3, <1>4, <1>5, <1>6, <1>7, <1>8 DEF StepsInv, NoFault
LEMMA ThreadsDiffer ==
    /\ Thread = {"queue", "callback", "driver"}
    /\ "queue" # "callback" /\ "queue" # "driver" /\ "callback" # "driver"
BY DEF Thread

LEMMA SendSteps ==
    ASSUME StepsInv, NEW t \in Thread, send_message_to_driver(t)
    PROVE  StepsInv'
<1> USE DEF outside, fields, plant, clock, At
<1>1. CASE wait_for_message(t)
  BY <1>1, InsideStep, Alone DEF wait_for_message, Label
<1>2. CASE increment_timestamp(t)
  BY <1>2, InsideStep, Alone DEF increment_timestamp, Label
<1>3. CASE check_pending(t)
  <2>1. PICK l \in {"continue", "new", "delete"} : Goto(t, l)
    BY <1>3 DEF check_pending, Emptied
  <2> QED
    BY <1>3, <2>1, InsideStep, Alone DEF check_pending, Label
<1>4. CASE delete_pending(t)
  BY <1>4, InsideStep, Alone DEF delete_pending, Label
<1>5. CASE null_pending(t)
  <2>1. PICK l \in {"continue", "new"} : Goto(t, l)
    BY <1>5 DEF null_pending, SetPending, Emptied
  <2> QED
    BY <1>5, <2>1, InsideStep DEF null_pending, SetPending, Label
<1>6. CASE new_pending(t)
  BY <1>6, InsideStep DEF new_pending, SetPending, Label
<1>7. CASE start_timer(t)
  BY <1>7, InsideStep, Alone DEF start_timer, Label
<1>8. CASE fill_header(t)
  BY <1>8, InsideStep, Alone DEF fill_header, Label
<1>9. CASE fill_data(t)
  BY <1>9, InsideStep, Alone DEF fill_data, Label
<1>10. CASE transmit(t)
  <2>1. PICK l \in {"idle", "forget"} :
           Goto(t, l) /\ (l = "forget" => t = "callback")
    BY <1>10 DEF transmit
  <2>2. Server!NothingInFlight
    BY <1>10, Alone DEF transmit
  <2> QED
    BY <1>10, <2>1, <2>2, LastStep DEF transmit
<1> QED
  BY <1>1, <1>2, <1>3, <1>4, <1>5, <1>6, <1>7, <1>8, <1>9, <1>10
  DEF send_message_to_driver

(* A handler begins: the reason for it is gone. *)
LEMMA Beginning ==
    ASSUME StepsInv, NEW t \in Thread, NEW l \in {"hold", "wait", "stop", "peek"},
           \A u \in Thread : pc[u] = "idle",
           Goto(t, l),
           t = "callback" => l = "stop",
           UplinkTyped', Server!NothingInFlight',
           flow_control' # "CONTINUE", ~Expired',
           UNCHANGED <<timer_at, timer_running, timeout_occured, early,
                       dangling, fault, pending_msg>>
    PROVE  StepsInv'
<1>1. /\ pc'[t] = l
      /\ pc' \in [Thread -> Label]
      /\ \A u \in Thread : u # t => pc'[u] = "idle"
  BY Going DEF StepsInv, Label
<1>2. StepsTyped'
  BY <1>1 DEF StepsInv, StepsTyped
<1>3. OneThread'
  BY <1>1 DEF OneThread
<1>4. OneOnItsWay'
  BY DEF OneOnItsWay, Server!NothingInFlight, Replied, NoFrame
<1>5. OneReason'
  BY DEF OneReason
<1>6. TimerInStep'
  <2>1. pc'["callback"] \in {"idle", "stop"}
    BY <1>1, ThreadsDiffer
  <2>2. ~timeout_occured'
    BY DEF StepsInv, TimerInStep, Expired
  <2> QED
    BY <2>1, <2>2 DEF TimerInStep, Expired
<1>7. PointerInStep'
  <2>1. ~dangling
    BY DEF StepsInv, PointerInStep
  <2> QED
    BY <1>1, <2>1 DEF PointerInStep
<1> QED
  BY <1>2, <1>3, <1>4, <1>5, <1>6, <1>7 DEF StepsInv, NoFault

LEMMA QueueSteps ==
    ASSUME StepsInv, queue_handler
    PROVE  StepsInv'
<1> USE DEF outside, fields, plant, clock, At
<1>1. CASE take_command
  <2>1. PICK l \in {"hold", "wait"} : Goto("queue", l)
    BY <1>1 DEF take_command
  <2>2. flow_control = "CONTINUE" /\ flow_control' = "STOP"
    BY <1>1 DEF take_command
  <2>3. Idle /\ ~Expired /\ Server!NothingInFlight
    BY <2>2 DEF StepsInv, OneReason
  <2>4. UNCHANGED <<uplink, air, timer_at, timer_running, timed_out,
                    timeout_occured, early, dangling, fault, pending_msg>>
    BY <1>1 DEF take_command
  <2>5. Server!NothingInFlight' /\ ~Expired' /\ UplinkTyped'
    BY <2>3, <2>4 DEF Server!NothingInFlight, Expired, Server!NoFrame,
                      Server!NoMessage, StepsInv, StepsTyped, UplinkTyped
  <2> QED
    BY <2>1, <2>2, <2>3, <2>4, <2>5, Beginning, ThreadsDiffer DEF Idle
<1>2. CASE hold_package
  BY <1>2, InsideStep, Alone, ThreadsDiffer DEF hold_package, Label
<1>3. CASE send_message_to_driver("queue")
  BY <1>3, SendSteps, ThreadsDiffer
<1> QED
  BY <1>1, <1>2, <1>3 DEF queue_handler

LEMMA CallbackSteps ==
    ASSUME StepsInv, callback
    PROVE  StepsInv'
<1> USE DEF outside, fields, plant, clock, At
<1>1. CASE stop_timer
  <2>1. PICK l \in {"held", "reset"} : Goto("callback", l)
    BY <1>1 DEF stop_timer
  <2> QED
    BY <1>1, <2>1, InsideStep, Alone, ThreadsDiffer DEF stop_timer, Label
<1>2. CASE reset_waiting
  BY <1>2, InsideStep, Alone, ThreadsDiffer DEF reset_waiting, Label
<1>3. CASE continue_flow_control
  <2>1. /\ pc["callback"] = "continue"
        /\ Server!NothingInFlight
        /\ ~timer_running
    BY <1>3, Alone, ThreadsDiffer
    DEF continue_flow_control, StepsInv, TimerInStep
  <2>2. /\ Goto("callback", "idle")
        /\ UNCHANGED <<uplink, air, timer_at, timed_out, timeout_occured,
                       early, dangling, timer_running, fault>>
    BY <1>3 DEF continue_flow_control
  <2>3. Server!NothingInFlight'
    BY <2>1, <2>2 DEF Server!NothingInFlight, Server!NoFrame, Server!NoMessage
  <2> QED
    BY <2>1, <2>2, <2>3, LastStep, ThreadsDiffer
<1>4. CASE received_input_conveyor_state
  <2>1. PICK l \in {"idle", "wait"} : Goto("callback", l)
    BY <1>4 DEF received_input_conveyor_state
  <2>2. /\ pc["callback"] = "held"
        /\ UNCHANGED <<uplink, air, flow_control, timer_at, timed_out,
                       timeout_occured, early, dangling, timer_running,
                       fault>>
        /\ ~fault
    BY <1>4 DEF received_input_conveyor_state
  <2>3. CASE l = "idle"
    BY <2>1, <2>2, <2>3, LastStep, ThreadsDiffer
  <2>4. CASE l = "wait"
    BY <2>1, <2>2, <2>4, InsideStep, Alone, ThreadsDiffer DEF Label
  <2> QED
    BY <2>3, <2>4
<1>5. CASE forget_package
  BY <1>5, LastStep, ThreadsDiffer DEF forget_package
<1>6. CASE send_message_to_driver("callback")
  BY <1>6, SendSteps, ThreadsDiffer
<1> QED
  BY <1>1, <1>2, <1>3, <1>4, <1>5, <1>6 DEF callback

LEMMA ReplySteps ==
    ASSUME StepsInv, NEW c \in ConveyorId, take_reply(c)
    PROVE  StepsInv'
<1> USE DEF outside, fields, plant, clock, At
<1>1. /\ pc["callback"] = "idle"
      /\ uplink[c] # <<>>
      /\ Head(uplink[c]).id # "PACKAGE_ARRIVED"
      /\ uplink' = [uplink EXCEPT ![c] = Tail(@)]
      /\ UNCHANGED <<air, flow_control, timer_at, timed_out, timeout_occured,
                     early, dangling, timer_running, fault, pending_msg>>
      /\ Goto("callback", "stop") \/ pc' = pc
  BY DEF take_reply
<1>2. ~Server!NothingInFlight /\ Server!NothingInFlight' /\ UplinkTyped'
  BY <1>1, LastTaken, Shifted DEF StepsInv, StepsTyped
<1>3. ~Unfinished /\ ~Expired /\ flow_control # "CONTINUE"
  BY <1>2 DEF StepsInv, OneReason
<1>4. \A u \in Thread : pc[u] = "idle"
  BY <1>1, <1>3, ThreadsDiffer DEF StepsInv, OneThread, Unfinished, InHandler
<1>5. ~Expired'
  BY <1>1, <1>3 DEF Expired
<1>6. CASE Goto("callback", "stop")
  BY <1>1, <1>2, <1>3, <1>4, <1>5, <1>6, Beginning, ThreadsDiffer
<1>7. CASE pc' = pc
  <2>1. StepsTyped' /\ OneThread'
    BY <1>1, <1>2, <1>7 DEF StepsInv, StepsTyped, OneThread
  <2>2. OneOnItsWay' /\ OneReason'
    BY <1>1, <1>2, <1>3, <1>5 DEF OneReason, OneOnItsWay,
       Server!NothingInFlight, Replied, NoFrame
  <2>3. TimerInStep' /\ PointerInStep'
    BY <1>1, <1>7, <1>4 DEF StepsInv, TimerInStep, PointerInStep
  <2> QED
    BY <1>1, <2>1, <2>2, <2>3 DEF StepsInv, NoFault
<1> QED
  BY <1>1, <1>6, <1>7

LEMMA DriverSteps ==
    ASSUME StepsInv, driver_loop
    PROVE  StepsInv'
<1> USE DEF outside, fields, plant, clock, At
<1>1. CASE notice_timeout
  <2>1. Expired /\ timed_out
    BY <1>1 DEF notice_timeout, Expired
  <2>2. Idle /\ flow_control # "CONTINUE" /\ Server!NothingInFlight
    BY <2>1 DEF StepsInv, OneReason
  <2>3. timer_at \notin {"test", "clear", "set"}
    BY <2>1 DEF StepsInv, TimerInStep
  <2>4. /\ ~timed_out'
        /\ Goto("driver", "peek")
        /\ UNCHANGED <<uplink, air, flow_control, timer_at, timer_running,
                       timeout_occured, early, dangling, fault, pending_msg>>
    BY <1>1 DEF notice_timeout
  <2>5. Server!NothingInFlight' /\ ~Expired' /\ UplinkTyped'
    BY <2>2, <2>3, <2>4
    DEF Server!NothingInFlight, Expired, Server!NoFrame, Server!NoMessage,
        StepsInv, StepsTyped, UplinkTyped
  <2> QED
    BY <2>2, <2>4, <2>5, Beginning, ThreadsDiffer DEF Idle
<1>2. CASE peek_pending
  <2>1. PICK l \in {"idle", "copy"} :
           Goto("driver", l) /\ (l = "copy" => pending_msg # NoMessage)
    BY <1>2 DEF peek_pending
  <2>2. /\ pc["driver"] = "peek"
        /\ UNCHANGED <<uplink, air, flow_control, timer_at, timed_out,
                       timeout_occured, early, dangling, timer_running,
                       fault, pending_msg>>
        /\ ~fault
    BY <1>2 DEF peek_pending
  <2>3. CASE l = "idle"
    BY <2>1, <2>2, <2>3, LastStep, ThreadsDiffer
  <2>4. CASE l = "copy"
    BY <2>1, <2>2, <2>4, InsideStep, Alone, ThreadsDiffer DEF Label
  <2> QED
    BY <2>3, <2>4
<1>3. CASE copy_pending
  <2>1. /\ pc["driver"] = "copy"
        /\ Goto("driver", "read")
        /\ fault' = (dangling \/ pending_msg = NoMessage)
        /\ UNCHANGED <<uplink, air, flow_control, timer_at, timed_out,
                       timeout_occured, early, dangling, timer_running>>
    BY <1>3 DEF copy_pending
  <2>2. ~dangling /\ pending_msg # NoMessage
    BY <2>1, Alone, ThreadsDiffer DEF StepsInv, PointerInStep
  <2> QED
    BY <2>1, <2>2, InsideStep, ThreadsDiffer DEF Label
<1>4. CASE read_timestamp
  BY <1>4, InsideStep, Alone, ThreadsDiffer DEF read_timestamp, Label
<1>5. CASE send_message_to_driver("driver")
  BY <1>5, SendSteps, ThreadsDiffer
<1> QED
  BY <1>1, <1>2, <1>3, <1>4, <1>5 DEF driver_loop
------------------------------------------------------------------------------
(* Steps of the timer and of the environment *)

LEMMA TimerSteps ==
    ASSUME StepsInv, ~early', timer
    PROVE  StepsInv'
<1> USE DEF outside, fields, plant
<1>1. /\ UNCHANGED <<uplink, air, flow_control, pc, dangling, fault,
                     pending_msg>>
      /\ ~fault
  BY DEF timer, enter_loop, leave_loop, time_passes, test_running,
         clear_running, Set_timeout, Tick
<1>2. /\ StepsTyped'
      /\ OneThread'
      /\ OneOnItsWay'
      /\ PointerInStep'
      /\ NoFault'
  BY <1>1 DEF StepsInv, StepsTyped, UplinkTyped, OneThread, OneOnItsWay,
              Replied, PointerInStep, NoFault, NoFrame, NoMessage,
              Server!NoFrame, Server!NoMessage
<1>3. ASSUME ~Expired', timer_running' => timer_running
      PROVE  OneReason'
  BY <1>1, <1>3
  DEF OneReason, Idle, Unfinished, InHandler, Server!NothingInFlight,
      StepsInv, Server!NoFrame, Server!NoMessage
<1>4. ASSUME Idle, flow_control # "CONTINUE", Server!NothingInFlight
      PROVE  OneReason'
  BY <1>1, <1>4
  DEF OneReason, Idle, Unfinished, InHandler, Server!NothingInFlight,
      StepsInv, Server!NoFrame, Server!NoMessage
<1>5. ASSUME Expired PROVE OneReason'
  BY <1>4, <1>5 DEF StepsInv, OneReason
<1>6. CASE enter_loop
  <2>1. /\ timer_running
        /\ timer_at = "out"
        /\ timer_at' = IF timeout_occured THEN "test" ELSE "in"
        /\ UNCHANGED <<timer_running, timed_out, timeout_occured>>
    BY <1>6 DEF enter_loop, Tick
  <2>2. ~timeout_occured /\ ~timed_out
    BY <2>1 DEF StepsInv, TimerInStep
  <2>3. OneReason'
    BY <1>3, <2>1, <2>2 DEF Expired
  <2>4. TimerInStep'
    BY <1>1, <2>1, <2>2 DEF StepsInv, TimerInStep
  <2> QED
    BY <1>2, <2>3, <2>4 DEF StepsInv
<1>7. CASE leave_loop
  <2>1. /\ ~timer_running
        /\ timer_at = "in"
        /\ timer_at' = "out"
        /\ UNCHANGED <<timer_running, timed_out, timeout_occured>>
    BY <1>7 DEF leave_loop, Tick
  <2>2. OneReason'
    BY <1>3, <1>5, <2>1 DEF Expired
  <2>3. TimerInStep'
    BY <1>1, <2>1 DEF StepsInv, TimerInStep
  <2> QED
    BY <1>2, <2>2, <2>3 DEF StepsInv
<1>8. CASE time_passes
  <2>1. /\ timer_running
        /\ timer_at = "in"
        /\ timer_at' = "test"
        /\ timeout_occured' = TRUE
        /\ UNCHANGED <<timer_running, timed_out>>
        /\ Quiet
    BY <1>8 DEF time_passes, Tick
  <2>2. Idle /\ Server!NothingInFlight
    BY <2>1 DEF Quiet
  <2>3. flow_control # "CONTINUE" /\ ~timed_out
    BY <2>1 DEF StepsInv, OneReason, TimerInStep
  <2>4. OneReason'
    BY <1>4, <2>2, <2>3
  <2>5. TimerInStep'
    BY <1>1, <2>1, <2>2, <2>3, ThreadsDiffer DEF TimerInStep, Idle
  <2> QED
    BY <1>2, <2>4, <2>5 DEF StepsInv
<1>9. CASE test_running
  <2>1. /\ timer_at = "test"
        /\ timer_at' = IF timer_running THEN "clear" ELSE "out"
        /\ UNCHANGED <<timer_running, timed_out, timeout_occured>>
    BY <1>9 DEF test_running, Tick
  <2>2. timer_running /\ ~timed_out
    BY <2>1 DEF StepsInv, TimerInStep
  <2>3. OneReason'
    BY <1>5, <2>1 DEF Expired
  <2>4. TimerInStep'
    BY <1>1, <2>1, <2>2 DEF StepsInv, TimerInStep
  <2> QED
    BY <1>2, <2>3, <2>4 DEF StepsInv
<1>10. CASE clear_running
  <2>1. /\ timer_at = "clear"
        /\ timer_at' = "set"
        /\ timer_running' = FALSE
        /\ timeout_occured' = FALSE
        /\ UNCHANGED timed_out
    BY <1>10 DEF clear_running, Tick
  <2>2. ~timed_out
    BY <2>1 DEF StepsInv, TimerInStep
  <2>3. OneReason'
    BY <1>5, <2>1 DEF Expired
  <2>4. TimerInStep'
    BY <1>1, <2>1, <2>2 DEF StepsInv, TimerInStep
  <2> QED
    BY <1>2, <2>3, <2>4 DEF StepsInv
<1>11. CASE Set_timeout
  <2>1. /\ timer_at = "set"
        /\ timer_at' = "out"
        /\ timed_out' = TRUE
        /\ UNCHANGED <<timer_running, timeout_occured>>
    BY <1>11 DEF Set_timeout, Tick
  <2>2. ~timer_running /\ ~timeout_occured
    BY <2>1 DEF StepsInv, TimerInStep
  <2>3. OneReason'
    BY <1>5, <2>1 DEF Expired
  <2>4. TimerInStep'
    BY <1>1, <2>1, <2>2 DEF StepsInv, TimerInStep
  <2> QED
    BY <1>2, <2>3, <2>4 DEF StepsInv
<1> QED
  BY <1>6, <1>7, <1>8, <1>9, <1>10, <1>11 DEF timer

(* What the radio does, does not concern the threads. *)
LEMMA Outside ==
    ASSUME StepsInv, UplinkTyped', OneOnItsWay',
           Server!NothingInFlight => Server!NothingInFlight',
           UNCHANGED <<flow_control, timer_running, timed_out, early,
                       pending_msg, steps>>
    PROVE  StepsInv'
<1> USE DEF steps, local, clock
<1>1. StepsTyped' /\ OneThread' /\ NoFault'
  BY DEF StepsInv, StepsTyped, OneThread, NoFault
<1>2. OneReason'
  BY DEF StepsInv, OneReason, Idle, Expired, Unfinished, InHandler
<1>3. TimerInStep' /\ PointerInStep'
  BY DEF StepsInv, TimerInStep, PointerInStep, NoMessage, Server!NoMessage
<1> QED
  BY <1>1, <1>2, <1>3 DEF StepsInv

LEMMA EnvironmentSteps ==
    ASSUME StepsInv, environment
    PROVE  StepsInv'
<1> USE DEF Server!server, Server!timer, Server!plant, Server!world
<1>1. UNCHANGED steps
  BY DEF environment
<1>2. UplinkTyped /\ OneOnItsWay
  BY DEF StepsInv, StepsTyped
<1>3. ASSUME NEW msg \in Server!Command, Server!enqueue_message(msg)
      PROVE  StepsInv'
  <2>1. UNCHANGED <<uplink, air, flow_control, timer_running, timed_out,
                    early, pending_msg>>
    BY <1>3 DEF Server!enqueue_message
  <2>2. UplinkTyped' /\ OneOnItsWay'
    BY <1>2, <2>1 DEF UplinkTyped, OneOnItsWay, Replied, NoFrame,
                      Server!NoFrame, Server!NoMessage
  <2>3. Server!NothingInFlight => Server!NothingInFlight'
    BY <2>1 DEF Server!NothingInFlight, Server!NoFrame, Server!NoMessage
  <2> QED
    BY <1>1, <2>1, <2>2, <2>3, Outside
<1>4. CASE Server!air_loses
  <2>1. /\ UNCHANGED <<uplink, flow_control, timer_running, timed_out,
                       early, pending_msg>>
        /\ air' = Server!NoFrame
    BY <1>4 DEF Server!air_loses
  <2>2. UplinkTyped' /\ OneOnItsWay'
    BY <1>2, <2>1 DEF UplinkTyped, OneOnItsWay, Replied, NoFrame,
                      Server!NoFrame, Server!NoMessage
  <2>3. Server!NothingInFlight => Server!NothingInFlight'
    BY <2>1 DEF Server!NothingInFlight, Server!NoFrame, Server!NoMessage
  <2> QED
    BY <1>1, <2>1, <2>2, <2>3, Outside
<1>5. CASE Server!deliver
  <2>1. PICK reply : uplink' = [uplink EXCEPT ![air.msg.conveyor] =
                                   Append(@, reply)]
    BY <1>5 DEF Server!deliver
  <2>2. /\ UNCHANGED <<flow_control, timer_running, timed_out, early,
                       pending_msg>>
        /\ air # NoFrame
        /\ air' = NoFrame
    BY <1>5 DEF Server!deliver, NoFrame
  <2>3. UplinkTyped'
    BY <1>2, <2>1, Behind
  <2>4. \A d \in ConveyorId : \A j \in DOMAIN uplink'[d] :
           Replied(d, j)' => /\ d = air.msg.conveyor
                             /\ j = Len(uplink[air.msg.conveyor]) + 1
    <3> SUFFICES ASSUME NEW d \in ConveyorId, NEW j \in DOMAIN uplink'[d],
                        Replied(d, j)'
                 PROVE  /\ d = air.msg.conveyor
                        /\ j = Len(uplink[air.msg.conveyor]) + 1
      OBVIOUS
    <3>1. \/ j \in DOMAIN uplink[d] /\ uplink'[d][j] = uplink[d][j]
          \/ /\ d = air.msg.conveyor
             /\ j = Len(uplink[air.msg.conveyor]) + 1
      BY <1>2, <2>1, Behind
    <3>2. j \in DOMAIN uplink[d] => ~Replied(d, j)
      BY <1>2, <2>2 DEF OneOnItsWay
    <3> QED
      BY <3>1, <3>2 DEF Replied
  <2>5. OneOnItsWay'
    <3>1. air' = Server!NoFrame
      BY <2>2 DEF NoFrame
    <3>2. air' = NoFrame'
      BY <3>1 DEF NoFrame, Server!NoFrame, Server!NoMessage
    <3> QED
      BY <2>4, <3>2 DEF OneOnItsWay
  <2>6. ~Server!NothingInFlight
    BY <2>2 DEF Server!NothingInFlight, NoFrame
  <2> QED
    BY <1>1, <2>2, <2>3, <2>5, <2>6, Outside
<1>6. ASSUME NEW c \in ConveyorId, Server!uplink_loses(c)
      PROVE  StepsInv'
  <2>1. /\ UNCHANGED <<air, flow_control, timer_running, timed_out, early,
                       pending_msg>>
        /\ uplink[c] # <<>>
        /\ uplink' = [uplink EXCEPT ![c] = Tail(@)]
    BY <1>6 DEF Server!uplink_loses
  <2>2. UplinkTyped'
    BY <1>2, <2>1, Shifted
  <2>3. OneOnItsWay' /\ (Server!NothingInFlight => Server!NothingInFlight')
    BY <1>2, <2>1, OneLess
  <2> QED
    BY <1>1, <2>1, <2>2, <2>3, Outside
<1>7. ASSUME NEW c \in ConveyorId, Server!package_arrives(c)
      PROVE  StepsInv'
  <2>1. UNCHANGED <<air, flow_control, timer_running, timed_out, early,
                    pending_msg>>
    BY <1>7 DEF Server!package_arrives
  <2>2. PICK e : /\ e.id = "PACKAGE_ARRIVED"
                 /\ uplink' = [uplink EXCEPT ![c] = Append(@, e)]
    BY <1>7 DEF Server!package_arrives
  <2>3. UplinkTyped'
    BY <1>2, <2>2, Behind
  <2>4. ASSUME NEW d \in ConveyorId, NEW j \in DOMAIN uplink'[d],
               Replied(d, j)'
        PROVE  j \in DOMAIN uplink[d] /\ Replied(d, j)
    <3>1. \/ j \in DOMAIN uplink[d] /\ uplink'[d][j] = uplink[d][j]
          \/ /\ d = c
             /\ j = Len(uplink[c]) + 1
             /\ uplink'[d][j] = e
      BY <1>2, <2>2, Behind
    <3> QED
      BY <2>2, <2>4, <3>1 DEF Replied
  <2>5. OneOnItsWay'
    BY <1>2, <2>1, <2>4 DEF OneOnItsWay, NoFrame, Server!NoFrame,
                            Server!NoMessage
  <2>6. Server!NothingInFlight => Server!NothingInFlight'
    BY <2>1, <2>4 DEF Server!NothingInFlight, Replied, Server!NoFrame,
                      Server!NoMessage
  <2> QED
    BY <1>1, <2>1, <2>3, <2>5, <2>6, Outside
<1> QED
  BY <1>3, <1>4, <1>5, <1>6, <1>7 DEF environment

LEMMA ArrivalSteps ==
    ASSUME StepsInv, NEW c \in ConveyorId, take_arrival(c)
    PROVE  StepsInv'
<1> USE DEF Server!server, Server!timer, Server!plant, Server!world
<1>1. /\ UNCHANGED <<air, flow_control, timer_running, timed_out, early,
                     pending_msg, steps>>
      /\ uplink[c] # <<>>
      /\ uplink' = [uplink EXCEPT ![c] = Tail(@)]
  BY DEF take_arrival, Server!receive_PACKAGE_ARRIVED, Server!TakeReply
<1>2. UplinkTyped /\ OneOnItsWay
  BY DEF StepsInv, StepsTyped
<1>3. UplinkTyped'
  BY <1>1, <1>2, Shifted
<1>4. OneOnItsWay' /\ (Server!NothingInFlight => Server!NothingInFlight')
  BY <1>1, <1>2, OneLess
<1> QED
  BY <1>1, <1>3, <1>4, Outside

------------------------------------------------------------------------------
(* Theorems *)

LEMMA InitSteps == ASSUME Init PROVE StepsInv
<1> USE DEF Init, Server!Init
<1>1. /\ pc = [t \in Thread |-> "idle"]
      /\ uplink = [c \in ConveyorId |-> <<>>]
      /\ air = NoFrame
      /\ early = FALSE
      /\ flow_control = "CONTINUE"
      /\ ~timed_out /\ ~timer_running /\ ~timeout_occured
      /\ timer_at = "out"
      /\ ~dangling /\ ~fault
  BY DEF NoFrame
<1>2. IsASeq(<<>>)
  BY DEF IsASeq
<1>3. \A c \in ConveyorId : uplink[c] = <<>> /\ DOMAIN uplink[c] = {}
  <2>1. DOMAIN <<>> = {}
    OBVIOUS
  <2> QED
    BY <1>1, <2>1
<1>4. UplinkTyped
  BY <1>1, <1>2, <1>3 DEF UplinkTyped
<1>5. StepsTyped
  BY <1>1, <1>4 DEF StepsTyped, Label
<1>6. Server!NothingInFlight /\ OneOnItsWay
  BY <1>1, <1>3 DEF Server!NothingInFlight, OneOnItsWay, NoFrame
<1>7. Idle /\ ~Unfinished /\ ~Expired
  BY <1>1 DEF Idle, Unfinished, InHandler, Expired
<1> QED
  BY <1>1, <1>5, <1>6, <1>7, ThreadsDiffer
  DEF StepsInv, OneThread, OneReason, TimerInStep, PointerInStep, NoFault

LEMMA StepSteps == StepsInv /\ ~early' /\ [Next]_vars => StepsInv'
<1> SUFFICES ASSUME StepsInv, ~early', [Next]_vars PROVE StepsInv'
  OBVIOUS
<1>1. CASE UNCHANGED vars
  BY <1>1
  DEF vars, outside, fields, plant, steps, local, clock, StepsInv, StepsTyped,
      UplinkTyped, OneThread, OneOnItsWay, Replied, OneReason, Idle, Expired,
      Unfinished, InHandler, TimerInStep, PointerInStep, NoFault, NoFrame,
      NoMessage, Server!NothingInFlight, Server!NoFrame, Server!NoMessage
<1>2. ASSUME NEW c \in ConveyorId, take_reply(c) \/ take_arrival(c)
      PROVE  StepsInv'
  BY <1>2, ReplySteps, ArrivalSteps
<1> QED
  BY <1>1, <1>2, QueueSteps, CallbackSteps, DriverSteps, TimerSteps,
     EnvironmentSteps
  DEF Next

(* Once a timeout came early, it did. *)
LEMMA EarlyStays ==
    ASSUME early, [Next]_vars
    PROVE  early'
<1> USE DEF outside, plant, steps, clock, Server!world
<1>1. CASE queue_handler \/ callback \/ driver_loop
  BY <1>1
  DEF queue_handler, take_command, hold_package, callback, stop_timer,
      reset_waiting, continue_flow_control, received_input_conveyor_state,
      forget_package, driver_loop, notice_timeout, peek_pending, copy_pending,
      read_timestamp, send_message_to_driver, wait_for_message,
      increment_timestamp, check_pending, delete_pending, null_pending,
      new_pending, SetPending, start_timer, fill_header, fill_data, transmit
<1>2. CASE timer
  BY <1>2
  DEF timer, enter_loop, leave_loop, time_passes, test_running, clear_running,
      Set_timeout
<1>3. CASE environment
  BY <1>3 DEF environment
<1>4. CASE \E c \in ConveyorId : take_reply(c) \/ take_arrival(c)
  BY <1>4 DEF take_reply, take_arrival
<1>5. CASE UNCHANGED vars
  BY <1>5 DEF vars
<1> QED
  BY <1>1, <1>2, <1>3, <1>4, <1>5 DEF Next

(* Until a timeout comes early one thread at a time is in its handler, and *)
(* what keeps the others out is that the reason for them to begin is gone  *)
(* (ANTServer.cpp:160-200, BackendANTDriver.cpp:190-198,                   *)
(* ANTQueueHandler.cpp:9-16).                                              *)
THEOREM StepsInvHolds == Spec => [](~early => StepsInv)
<1>1. Init => StepsInv
  BY InitSteps
<1>2. (~early => StepsInv) /\ [Next]_vars => (~early => StepsInv)'
  BY StepSteps, EarlyStays
<1> QED
  BY <1>1, <1>2, PTL DEF Spec

(* For every set of conveyors, every queue of commands, every loss and the *)
(* timer of the code: no thread uses a message that another one has        *)
(* deleted, although nothing locks pending_msg, before a timeout comes     *)
(* early (ANTServer.cpp:71-74, 100-103, 132-134, 172-175).                 *)
THEOREM NoEarlierFaultHolds == Spec => []NoEarlierFault
<1>1. (~early => StepsInv) => NoEarlierFault
  BY DEF StepsInv, NoFault, NoEarlierFault
<1> QED
  BY <1>1, StepsInvHolds, PTL
------------------------------------------------------------------------------
(* What a handler has done so far *)

ReplyId ==
    {"MESSAGE_RECEIVED", "CONVEYOR_STATE_RESPONSE", "CLEAR_BOX_RESPONSE",
     "PACKAGE_ARRIVED"}

JobTyped ==
    /\ job = [t \in Thread |-> job[t]]
    /\ \A t \in Thread : job[t] = [msg |-> job[t].msg, time |-> job[t].time]

RepliesTyped ==
    \A c \in ConveyorId : \A i \in DOMAIN uplink[c] : uplink[c][i].id \in ReplyId

(* The types that decide what a handler does. *)
Kinds ==
    /\ antTx \in Seq(Server!Command)
    /\ RepliesTyped
    /\ JobTyped
    /\ pending_msg \in Server!Message \union {NoMessage}
    /\ pending_input \in Server!AddPackage \union {NoMessage}
    /\ {checking, timer_running, timed_out} \subseteq BOOLEAN
    /\ waiting.id = "CONVEYOR_STATE_RESPONSE" =>
          waiting.conveyor = Server!INPUT_CONVEYOR_ID

(* Thread t is sending msg: the accesses it has behind it.                 *)
Sent(t, msg) ==
    /\ msg \in Server!Message
    /\ job[t].msg = msg
    /\ pc[t] \notin {"wait", "stamp"} => job[t].time = timestamp
    /\ pc[t] \in {"start", "header", "data", "transmit"} => pending_msg = msg
    /\ pc[t] \in {"header", "data", "transmit"} => timer_running = TRUE
    /\ pc[t] = "data" =>
          buffer = [msg  |-> [msg EXCEPT !.uid = buffer.msg.uid],
                    time |-> timestamp]
    /\ pc[t] = "transmit" => buffer = [msg |-> msg, time |-> timestamp]

Sending ==
    {"check", "delete", "null", "new", "start", "header", "data", "transmit"}

(* It awaits the reply, under a new timestamp. *)
Asking(t, msg) ==
    /\ pc[t] \in {"wait", "stamp"} \union Sending
    /\ Sent(t, msg)
    /\ pc[t] # "wait" =>
          waiting = [id       |-> Server!ReplyTo(msg.id),
                     conveyor |-> msg.conveyor]
    /\ timestamp = IF pc[t] \in {"wait", "stamp"} THEN before.timestamp
                   ELSE (before.timestamp + 1) % TIMESTAMP_MOD

(* The flow is stopped and the command is taken; a package is held back    *)
(* and the state of its conveyor asked.                                    *)
QueueSim ==
    pc["queue"] # "idle" =>
        /\ command \in Server!Command
        /\ before.flow_control = "CONTINUE"
        /\ flow_control = "STOP"
        /\ before.timed_out = FALSE
        /\ IF pc["queue"] = "hold"
           THEN /\ command.id = "ADD_PACKAGE"
                /\ pending_input = before.pending_input
                /\ checking = before.checking
                /\ timestamp = before.timestamp
           ELSE IF command.id = "ADD_PACKAGE"
           THEN /\ pending_input = command
                /\ checking = TRUE
                /\ Asking("queue", StateRequest(command))
           ELSE /\ pending_input = before.pending_input
                /\ checking = before.checking
                /\ Asking("queue", command)

(* What follows the state of the input conveyor. *)
NextMessage ==
    IF got.reply.available THEN before.pending_input
    ELSE StateRequest(before.pending_input)

WasAwaited ==
    /\ got.reply.id = "MESSAGE_RECEIVED" =>
          before.waiting = [id       |-> got.reply.of,
                            conveyor |-> got.reply.conveyor]
    /\ got.reply.id = "CONVEYOR_STATE_RESPONSE" =>
          /\ before.waiting = [id       |-> "CONVEYOR_STATE_RESPONSE",
                               conveyor |-> got.conveyor]
          /\ got.conveyor = Server!INPUT_CONVEYOR_ID
    /\ got.reply.id = "CLEAR_BOX_RESPONSE" =>
          before.waiting.id = "CLEAR_BOX_RESPONSE"

(* An acknowledgement or a cleared box ends the exchange. *)
Ending ==
    /\ pc["callback"] \in {"check", "delete", "null", "continue"}
    /\ waiting = Server!NotWaiting
    /\ timestamp = before.timestamp
    /\ checking = before.checking
    /\ job["callback"] = NoFrame
    /\ pc["callback"] = "continue" => pending_msg = NoMessage

CallbackSim ==
    pc["callback"] \notin {"idle", "forget"} =>
        /\ got.conveyor \in ConveyorId
        /\ got.reply.id \in ReplyId \ {"PACKAGE_ARRIVED"}
        /\ WasAwaited
        /\ flow_control = before.flow_control
        /\ pending_input = before.pending_input
        /\ before.timed_out = FALSE
        /\ IF pc["callback"] \in {"stop", "held", "reset"}
           THEN /\ waiting = before.waiting
                /\ timestamp = before.timestamp
                /\ pending_msg = before.pending_msg
                /\ checking = before.checking
                /\ pc["callback"] = "held" =>
                      got.reply.id = "CONVEYOR_STATE_RESPONSE"
                /\ pc["callback"] = "reset" =>
                      got.reply.id # "CONVEYOR_STATE_RESPONSE"
           ELSE IF got.reply.id = "CONVEYOR_STATE_RESPONSE"
           THEN /\ before.pending_input \in Server!AddPackage
                /\ checking = (before.checking /\ ~got.reply.available)
                /\ before.checking \in BOOLEAN
                /\ Asking("callback", NextMessage)
           ELSE Ending

(* The message pending when the driver noticed the timeout is sent as it   *)
(* is.                                                                     *)
DriverSim ==
    pc["driver"] # "idle" =>
        /\ before.timed_out = TRUE
        /\ flow_control = before.flow_control
        /\ pending_input = before.pending_input
        /\ checking = before.checking
        /\ waiting = before.waiting
        /\ timestamp = before.timestamp
        /\ IF pc["driver"] \in {"peek", "copy", "read"}
           THEN /\ pending_msg = before.pending_msg
                /\ timer_running = before.timer_running
                /\ pc["driver"] # "peek" => pending_msg # NoMessage
                /\ pc["driver"] = "read" => job["driver"].msg = pending_msg
           ELSE /\ pc["driver"] \in Sending
                /\ Sent("driver", before.pending_msg)

(* What the thread in its handler has done with the fields, and with the   *)
(* copies from before it began.                                            *)
HandlerInv == StepsInv /\ Kinds /\ QueueSim /\ CallbackSim /\ DriverSim
------------------------------------------------------------------------------
(* Messages *)

LEMMA MessageShape ==
    ASSUME NEW msg \in Server!Message
    PROVE  /\ msg = [id       |-> msg.id, conveyor |-> msg.conveyor,
                     uid      |-> msg.uid]
           /\ msg.id \in Server!PlainMessage
                   \union {"ADD_PACKAGE", "CLEAR_BOX", "CONVEYOR_STATE"}
           /\ msg # NoMessage
           /\ msg.id = "CONVEYOR_STATE" =>
                 msg.conveyor = Server!INPUT_CONVEYOR_ID
<1> USE DEF Server!Message, Server!Command, Server!AddPackage,
            Server!StateRequest
<1>1. msg = [id |-> msg.id, conveyor |-> msg.conveyor, uid |-> msg.uid]
  OBVIOUS
<1>2. msg.id \in Server!PlainMessage
                 \union {"ADD_PACKAGE", "CLEAR_BOX", "CONVEYOR_STATE"}
  BY StepsAssumption
<1>3. msg # NoMessage
  BY <1>2 DEF Server!PlainMessage, NoMessage, Server!NoMessage
<1>4. msg.id = "CONVEYOR_STATE" => msg.conveyor = Server!INPUT_CONVEYOR_ID
  BY StepsAssumption DEF Server!PlainMessage
<1> QED
  BY <1>1, <1>2, <1>3, <1>4

LEMMA CommandShape ==
    ASSUME NEW cmd \in Server!Command
    PROVE  /\ cmd \in Server!Message
           /\ cmd.id # "CONVEYOR_STATE"
           /\ cmd.id = "ADD_PACKAGE" => cmd \in Server!AddPackage
BY StepsAssumption
DEF Server!Message, Server!Command, Server!AddPackage, Server!PlainMessage

LEMMA PackageShape ==
    ASSUME NEW cmd \in Server!AddPackage
    PROVE  /\ cmd.id = "ADD_PACKAGE"
           /\ cmd.conveyor = Server!INPUT_CONVEYOR_ID
           /\ cmd \in Server!Message
           /\ StateRequest(cmd) = [id       |-> "CONVEYOR_STATE",
                                   conveyor |-> cmd.conveyor,
                                   uid      |-> cmd.uid]
           /\ StateRequest(cmd) \in Server!Message
BY DEF Server!Message, Server!Command, Server!AddPackage, StateRequest,
       Server!StateRequest

(* Only the state of the input conveyor is asked. *)
LEMMA AskedState ==
    ASSUME NEW msg \in Server!Message,
           Server!ReplyTo(msg.id) = "CONVEYOR_STATE_RESPONSE"
    PROVE  msg.conveyor = Server!INPUT_CONVEYOR_ID
<1>1. msg.id = "CONVEYOR_STATE"
  BY MessageShape DEF Server!ReplyTo, Server!PlainMessage
<1> QED
  BY <1>1, MessageShape

------------------------------------------------------------------------------
(* The steps of a thread that sends *)

(* What is known of the job when it, or one of its fields, is assigned. *)
LEMMA JobSet ==
    ASSUME JobTyped, NEW t \in Thread, NEW m, NEW s,
           job' = [job EXCEPT ![t] = [msg |-> m, time |-> s]]
    PROVE  JobTyped' /\ job'[t] = [msg |-> m, time |-> s]
<1>1. job'[t] = [msg |-> m, time |-> s]
  BY DEF JobTyped
<1>2. \A u \in Thread : u # t => job'[u] = job[u]
  BY DEF JobTyped
<1>3. job' = [u \in Thread |-> job'[u]]
  BY DEF JobTyped
<1> QED
  BY <1>1, <1>2, <1>3 DEF JobTyped

LEMMA JobMsgSet ==
    ASSUME JobTyped, NEW t \in Thread, NEW m,
           job' = [job EXCEPT ![t].msg = m]
    PROVE  JobTyped' /\ job'[t].msg = m
<1>1. job'[t] = [msg |-> m, time |-> job[t].time]
  BY DEF JobTyped
<1>2. \A u \in Thread : u # t => job'[u] = job[u]
  BY DEF JobTyped
<1>3. job' = [u \in Thread |-> job'[u]]
  BY DEF JobTyped
<1> QED
  BY <1>1, <1>2, <1>3 DEF JobTyped

LEMMA JobTimeSet ==
    ASSUME JobTyped, NEW t \in Thread, NEW s,
           job' = [job EXCEPT ![t].time = s]
    PROVE  JobTyped' /\ job'[t].msg = job[t].msg /\ job'[t].time = s
<1>1. job'[t] = [msg |-> job[t].msg, time |-> s]
  BY DEF JobTyped
<1>2. \A u \in Thread : u # t => job'[u] = job[u]
  BY DEF JobTyped
<1>3. job' = [u \in Thread |-> job'[u]]
  BY DEF JobTyped
<1> QED
  BY <1>1, <1>2, <1>3 DEF JobTyped

LEMMA SendAt ==
    ASSUME NEW t, send_message_to_driver(t)
    PROVE  /\ pc[t] \in {"wait", "stamp"} \union Sending
           /\ \E l : Goto(t, l)
BY DEF send_message_to_driver, wait_for_message, increment_timestamp,
       check_pending, delete_pending, null_pending, new_pending, SetPending,
       start_timer, fill_header, fill_data, transmit, At, Sending

(* What a thread that sends leaves alone. *)
Spared ==
    UNCHANGED <<antTx, antRx, uplink, flow_control, pending_input, checking,
                timed_out, command, got, before>>

(* One access of a thread that sends msg. *)
LEMMA SendSim ==
    ASSUME StepsTyped, JobTyped, NEW t \in Thread, NEW msg, Sent(t, msg),
           pc[t] \in {"wait", "stamp"} \union Sending,
           send_message_to_driver(t)
    PROVE  /\ JobTyped'
           /\ Spared
           /\ \/ pc'[t] \in {"idle", "forget"} /\ pc[t] = "transmit"
              \/ /\ pc'[t] \in Sending \union {"stamp"}
                 /\ pc'[t] = "stamp" <=> pc[t] = "wait"
                 /\ Sent(t, msg)'
           /\ waiting' = IF pc[t] = "wait"
                         THEN [id       |-> Server!ReplyTo(msg.id),
                               conveyor |-> msg.conveyor]
                         ELSE waiting
           /\ timestamp' = IF pc[t] = "stamp" THEN Server!NextTimestamp
                           ELSE timestamp
           /\ pending_msg' \in {pending_msg, NoMessage, msg}
           /\ timer_running' \in {timer_running, TRUE}
<1> USE DEF outside, fields, plant, clock, local, At, Spared
<1>1. /\ msg \in Server!Message
      /\ msg # NoMessage
      /\ job[t].msg = msg
      /\ Emptied(t) = "new"
  BY MessageShape
  DEF Sent, Emptied, NoFrame, Server!NoFrame, NoMessage
<1>2. CASE wait_for_message(t)
  <2>1. pc'[t] = "stamp" /\ UNCHANGED <<job, timestamp, buffer, timer_running>>
    BY <1>2, Going DEF wait_for_message
  <2>2. Sent(t, msg)'
    BY <1>1, <2>1 DEF Sent
  <2> QED
    BY <1>1, <1>2, <2>1, <2>2 DEF wait_for_message, JobTyped, Sending
<1>3. CASE increment_timestamp(t)
  <2>1. pc'[t] = "check"
    BY <1>3, Going DEF increment_timestamp
  <2>2. JobTyped' /\ job'[t].msg = msg /\ job'[t].time = timestamp'
    BY <1>1, <1>3, JobTimeSet DEF increment_timestamp
  <2>3. Sent(t, msg)'
    BY <1>1, <2>1, <2>2 DEF Sent
  <2> QED
    BY <1>1, <1>3, <2>1, <2>2, <2>3 DEF increment_timestamp, Sending
<1>4. CASE check_pending(t)
  <2>1. pc'[t] \in {"new", "delete"} /\ pc[t] = "check"
    BY <1>1, <1>4, Going DEF check_pending
  <2>2. UNCHANGED <<job, timestamp, buffer, timer_running, pending_msg>>
    BY <1>4 DEF check_pending
  <2>3. Sent(t, msg)'
    BY <1>1, <2>1, <2>2 DEF Sent
  <2> QED
    BY <1>1, <1>4, <2>1, <2>2, <2>3 DEF check_pending, JobTyped, Sending
<1>5. CASE delete_pending(t)
  <2>1. pc'[t] = "null" /\ pc[t] = "delete"
    BY <1>1, <1>5, Going DEF delete_pending
  <2>2. UNCHANGED <<job, timestamp, buffer, timer_running, pending_msg>>
    BY <1>5 DEF delete_pending
  <2>3. Sent(t, msg)'
    BY <1>1, <2>1, <2>2 DEF Sent
  <2> QED
    BY <1>1, <1>5, <2>1, <2>2, <2>3 DEF delete_pending, JobTyped, Sending
<1>6. CASE null_pending(t)
  <2>1. pc'[t] = "new" /\ pc[t] = "null"
    BY <1>1, <1>6, Going DEF null_pending, SetPending
  <2>2. UNCHANGED <<job, timestamp, buffer, timer_running>>
    BY <1>6 DEF null_pending, SetPending
  <2>3. Sent(t, msg)'
    BY <1>1, <2>1, <2>2 DEF Sent
  <2> QED
    BY <1>1, <1>6, <2>1, <2>2, <2>3
    DEF null_pending, SetPending, JobTyped, Sending
<1>7. CASE new_pending(t)
  <2>1. pc'[t] = "start" /\ pc[t] = "new" /\ pending_msg' = msg
    BY <1>1, <1>7, Going DEF new_pending, SetPending
  <2>2. UNCHANGED <<job, timestamp, buffer, timer_running>>
    BY <1>7 DEF new_pending, SetPending
  <2>3. Sent(t, msg)'
    BY <1>1, <2>1, <2>2 DEF Sent
  <2> QED
    BY <1>1, <1>7, <2>1, <2>2, <2>3
    DEF new_pending, SetPending, JobTyped, Sending
<1>8. CASE start_timer(t)
  <2>1. pc'[t] = "header" /\ pc[t] = "start" /\ timer_running' = TRUE
    BY <1>1, <1>8, Going DEF start_timer
  <2>2. UNCHANGED <<job, timestamp, buffer, pending_msg>>
    BY <1>8 DEF start_timer
  <2>3. Sent(t, msg)'
    BY <1>1, <2>1, <2>2 DEF Sent
  <2> QED
    BY <1>1, <1>8, <2>1, <2>2, <2>3 DEF start_timer, JobTyped, Sending
<1>9. CASE fill_header(t)
  <2>1. pc'[t] = "data" /\ pc[t] = "header"
    BY <1>1, <1>9, Going DEF fill_header
  <2>2. UNCHANGED <<job, timestamp, timer_running, pending_msg>>
    BY <1>9 DEF fill_header
  <2>3. buffer' = [msg  |-> [msg EXCEPT !.uid = buffer'.msg.uid],
                   time |-> timestamp]
    BY <1>1, <1>9, MessageShape DEF fill_header, Sent
  <2>4. Sent(t, msg)'
    BY <1>1, <2>1, <2>2, <2>3 DEF Sent
  <2> QED
    BY <1>1, <1>9, <2>1, <2>2, <2>4 DEF fill_header, JobTyped, Sending
<1>10. CASE fill_data(t)
  <2>1. pc'[t] = "transmit" /\ pc[t] = "data"
    BY <1>1, <1>10, Going DEF fill_data
  <2>2. UNCHANGED <<job, timestamp, timer_running, pending_msg>>
    BY <1>10 DEF fill_data
  <2>3. buffer' = [msg |-> msg, time |-> timestamp]
    BY <1>1, <1>10, MessageShape DEF fill_data, Sent
  <2>4. Sent(t, msg)'
    BY <1>1, <2>1, <2>2, <2>3 DEF Sent
  <2> QED
    BY <1>1, <1>10, <2>1, <2>2, <2>4 DEF fill_data, JobTyped, Sending
<1>11. CASE transmit(t)
  <2>1. pc'[t] \in {"idle", "forget"} /\ pc[t] = "transmit"
    BY <1>1, <1>11, Going DEF transmit
  <2> QED
    BY <1>1, <1>11, <2>1 DEF transmit, JobTyped
<1> QED
  BY <1>2, <1>3, <1>4, <1>5, <1>6, <1>7, <1>8, <1>9, <1>10, <1>11
  DEF send_message_to_driver

(* One access of a thread that asks for a reply. *)
LEMMA AskSim ==
    ASSUME StepsTyped, JobTyped, NEW t \in Thread, NEW msg, Asking(t, msg),
           send_message_to_driver(t)
    PROVE  pc'[t] \in {"idle", "forget"} \/ Asking(t, msg)'
<1> SUFFICES ASSUME pc'[t] \notin {"idle", "forget"}
             PROVE  Asking(t, msg)'
  OBVIOUS
<1>1. /\ before' = before
      /\ pc'[t] \in Sending \union {"stamp"}
      /\ pc'[t] = "stamp" <=> pc[t] = "wait"
      /\ Sent(t, msg)'
      /\ waiting' = IF pc[t] = "wait"
                    THEN [id       |-> Server!ReplyTo(msg.id),
                          conveyor |-> msg.conveyor]
                    ELSE waiting
      /\ timestamp' = IF pc[t] = "stamp" THEN Server!NextTimestamp
                      ELSE timestamp
  BY SendSim DEF Asking, Spared
<1>2. waiting' = [id       |-> Server!ReplyTo(msg.id),
                  conveyor |-> msg.conveyor]
  BY <1>1 DEF Asking
<1>3. timestamp' = IF pc'[t] = "stamp" THEN before'.timestamp
                   ELSE (before'.timestamp + 1) % TIMESTAMP_MOD
  BY <1>1 DEF Asking, Server!NextTimestamp
<1>4. pc'[t] # "wait"
  BY <1>1 DEF Sending
<1> QED
  BY <1>1, <1>2, <1>3, <1>4 DEF Asking
------------------------------------------------------------------------------
(* The invariant of the handlers is inductive *)

(* What does not concern a thread leaves it where it is. *)
Standstill ==
    UNCHANGED <<fields, timer_running, pc, job, command, got, before, buffer>>

LEMMA Bystanders ==
    ASSUME QueueSim, CallbackSim, DriverSim, Standstill
    PROVE  QueueSim' /\ CallbackSim' /\ DriverSim'
<1> USE DEF Standstill, fields
<1>1. \A t \in Thread : \A msg : Sent(t, msg) <=> Sent(t, msg)'
  BY DEF Sent
<1>2. \A t \in Thread : \A msg : Asking(t, msg) <=> Asking(t, msg)'
  BY <1>1 DEF Asking
<1>3. QueueSim'
  BY <1>2, ThreadsDiffer DEF QueueSim, StateRequest
<1>4. CallbackSim'
  BY <1>2, ThreadsDiffer
  DEF CallbackSim, WasAwaited, Ending, NextMessage, StateRequest, NoMessage,
      NoFrame, Server!NoFrame, Server!NoMessage
<1>5. DriverSim'
  BY <1>1, ThreadsDiffer DEF DriverSim, NoMessage, Server!NoMessage
<1> QED
  BY <1>3, <1>4, <1>5

(* The threads that are not in a handler have nothing to keep. *)
LEMMA OthersIdle ==
    ASSUME StepsTyped, NEW t \in Thread, NEW l, Goto(t, l),
           \A u \in Thread : u # t => pc[u] = "idle"
    PROVE  /\ t # "queue" => QueueSim'
           /\ t # "callback" => CallbackSim'
           /\ t # "driver" => DriverSim'
BY Going, ThreadsDiffer DEF QueueSim, CallbackSim, DriverSim

(* The types are kept by an access that leaves the queues alone. *)
LEMMA KindsKept ==
    ASSUME Kinds, JobTyped', UNCHANGED <<antTx, uplink>>,
           pending_msg' \in Server!Message \union {NoMessage},
           pending_input' \in Server!AddPackage \union {NoMessage},
           {checking', timer_running', timed_out'} \subseteq BOOLEAN,
           \/ UNCHANGED waiting
           \/ waiting'.id # "CONVEYOR_STATE_RESPONSE"
           \/ waiting'.conveyor = Server!INPUT_CONVEYOR_ID
    PROVE  Kinds'
<1>1. RepliesTyped'
  BY DEF Kinds, RepliesTyped
<1>2. NoMessage' = NoMessage
  BY DEF NoMessage, Server!NoMessage
<1>3. antTx' \in Seq(Server!Command)
  BY DEF Kinds
<1>4. waiting'.id = "CONVEYOR_STATE_RESPONSE" =>
         waiting'.conveyor = Server!INPUT_CONVEYOR_ID
  BY DEF Kinds
<1> QED
  BY <1>1, <1>2, <1>3, <1>4 DEF Kinds

LEMMA SendKinds ==
    ASSUME StepsTyped, Kinds, NEW t \in Thread, NEW msg, Sent(t, msg),
           pc[t] \in {"wait", "stamp"} \union Sending,
           send_message_to_driver(t)
    PROVE  Kinds'
<1>1. /\ JobTyped'
      /\ Spared
      /\ pending_msg' \in {pending_msg, NoMessage, msg}
      /\ timer_running' \in {timer_running, TRUE}
      /\ waiting' = IF pc[t] = "wait"
                    THEN [id       |-> Server!ReplyTo(msg.id),
                          conveyor |-> msg.conveyor]
                    ELSE waiting
  BY SendSim DEF Kinds
<1>2. msg \in Server!Message
  BY DEF Sent
<1>3. \/ UNCHANGED waiting
      \/ waiting'.id # "CONVEYOR_STATE_RESPONSE"
      \/ waiting'.conveyor = Server!INPUT_CONVEYOR_ID
  BY <1>1, <1>2, AskedState
<1>4. /\ UNCHANGED <<antTx, uplink>>
      /\ pending_msg' \in Server!Message \union {NoMessage}
      /\ pending_input' \in Server!AddPackage \union {NoMessage}
      /\ {checking', timer_running', timed_out'} \subseteq BOOLEAN
  BY <1>1, <1>2 DEF Kinds, Spared
<1> QED
  BY <1>1, <1>3, <1>4, KindsKept

LEMMA TakeCommandSim ==
    ASSUME HandlerInv, take_command
    PROVE  Kinds' /\ QueueSim'
<1> USE DEF outside, fields, plant, clock, At
<1>0. PICK cmd : cmd = Head(antTx)
  OBVIOUS
<1>1. /\ antTx # <<>>
      /\ flow_control = "CONTINUE"
      /\ antTx' = Tail(antTx)
      /\ flow_control' = "STOP"
      /\ command' = cmd
      /\ job' = [job EXCEPT !["queue"] = [msg |-> cmd, time |-> 0]]
      /\ Goto("queue", IF cmd.id = "ADD_PACKAGE" THEN "hold" ELSE "wait")
      /\ Remember
      /\ UNCHANGED <<uplink, pending_msg, pending_input, checking, waiting,
                     timestamp, timer_running, timed_out>>
  BY <1>0 DEF take_command
<1>2. antTx' \in Seq(Server!Command) /\ cmd \in Server!Command
  BY <1>0, <1>1 DEF HandlerInv, Kinds
<1>3. JobTyped' /\ job'["queue"].msg = cmd
  <2>1. JobTyped' /\ job'["queue"] = [msg |-> cmd, time |-> 0]
    BY <1>1, JobSet, ThreadsDiffer DEF HandlerInv, Kinds
  <2> QED
    BY <2>1
<1>4. pc'["queue"] = IF cmd.id = "ADD_PACKAGE" THEN "hold" ELSE "wait"
  BY <1>1, Going, ThreadsDiffer DEF HandlerInv, StepsInv
<1>5. timed_out = FALSE
  BY <1>1 DEF HandlerInv, StepsInv, Kinds, OneReason, Expired
<1>6. /\ before'.flow_control = flow_control
      /\ before'.pending_input = pending_input
      /\ before'.checking = checking
      /\ before'.timestamp = timestamp
      /\ before'.timed_out = FALSE
  BY <1>1, <1>5 DEF Remember
<1>7. Kinds'
  <2>1. RepliesTyped' /\ NoMessage' = NoMessage
    BY <1>1 DEF HandlerInv, Kinds, RepliesTyped, NoMessage, Server!NoMessage
  <2>2. /\ waiting'.id = "CONVEYOR_STATE_RESPONSE" =>
              waiting'.conveyor = Server!INPUT_CONVEYOR_ID
        /\ pending_msg' \in Server!Message \union {NoMessage}
        /\ pending_input' \in Server!AddPackage \union {NoMessage}
        /\ {checking', timer_running', timed_out'} \subseteq BOOLEAN
    BY <1>1 DEF HandlerInv, Kinds
  <2> QED
    BY <1>2, <1>3, <2>1, <2>2 DEF Kinds
<1>8. QueueSim'
  <2>1. CASE cmd.id = "ADD_PACKAGE"
    BY <1>1, <1>2, <1>4, <1>6, <2>1 DEF QueueSim
  <2>2. CASE cmd.id # "ADD_PACKAGE"
    <3>1. Sent("queue", cmd)'
      BY <1>2, <1>3, <1>4, <2>2, CommandShape DEF Sent
    <3>2. Asking("queue", cmd)'
      BY <1>1, <1>4, <1>6, <2>2, <3>1 DEF Asking
    <3> QED
      BY <1>1, <1>2, <1>4, <1>6, <2>2, <3>2 DEF QueueSim
  <2> QED
    BY <2>1, <2>2
<1> QED
  BY <1>7, <1>8

LEMMA QueueInv ==
    ASSUME HandlerInv, queue_handler
    PROVE  HandlerInv'
<1> USE DEF outside, fields, plant, clock, local, At
<1>1. StepsInv'
  BY QueueSteps DEF HandlerInv
<1>2. StepsTyped /\ Kinds /\ QueueSim
  BY DEF HandlerInv, StepsInv
<1>3. CASE take_command
  <2>1. /\ \A u \in Thread : pc[u] = "idle"
        /\ \E l : Goto("queue", l)
    BY <1>3 DEF take_command, HandlerInv, StepsInv, OneReason, Idle
  <2>2. CallbackSim' /\ DriverSim'
    BY <1>2, <2>1, OthersIdle, ThreadsDiffer
  <2> QED
    BY <1>1, <1>3, <2>2, TakeCommandSim DEF HandlerInv
<1>4. CASE hold_package
  <2>1. /\ pc["queue"] = "hold"
        /\ Goto("queue", "wait")
        /\ pending_input' = command
        /\ checking' = TRUE
        /\ job' = [job EXCEPT !["queue"].msg = StateRequest(command)]
        /\ UNCHANGED <<antTx, uplink, flow_control, pending_msg, waiting,
                       timestamp, timer_running, timed_out, command, before>>
    BY <1>4 DEF hold_package
  <2>2. CallbackSim' /\ DriverSim'
    BY <1>2, <2>1, OthersIdle, ThreadsDiffer, Alone DEF HandlerInv
  <2>3. /\ command \in Server!Command
        /\ command.id = "ADD_PACKAGE"
        /\ command \in Server!AddPackage
        /\ StateRequest(command) \in Server!Message
    BY <1>2, <2>1, CommandShape, PackageShape DEF QueueSim
  <2>4. pc'["queue"] = "wait"
    BY <1>2, <2>1, Going, ThreadsDiffer
  <2>5. JobTyped' /\ job'["queue"].msg = StateRequest(command)
    BY <1>2, <2>1, JobMsgSet, ThreadsDiffer DEF Kinds
  <2>6. Kinds'
    BY <1>2, <2>1, <2>3, <2>5, KindsKept DEF Kinds
  <2>7. StateRequest(command)' = StateRequest(command)
    BY <2>1 DEF StateRequest
  <2>8. Sent("queue", StateRequest(command))'
    BY <2>3, <2>4, <2>5, <2>7 DEF Sent
  <2>9. Asking("queue", StateRequest(command))'
    BY <1>2, <2>1, <2>4, <2>8 DEF Asking, QueueSim
  <2>10. QueueSim'
    BY <1>2, <2>1, <2>3, <2>4, <2>9 DEF QueueSim
  <2> QED
    BY <1>1, <2>2, <2>6, <2>10 DEF HandlerInv
<1>5. CASE send_message_to_driver("queue")
  <2>1. pc["queue"] # "idle" /\ pc["queue"] # "hold" /\ \E l : Goto("queue", l)
    BY <1>5, SendAt DEF Sending
  <2>2. CallbackSim' /\ DriverSim'
    BY <1>2, <2>1, OthersIdle, ThreadsDiffer, Alone DEF HandlerInv
  <2>3. PICK msg : /\ msg = IF command.id = "ADD_PACKAGE"
                            THEN StateRequest(command) ELSE command
                   /\ Asking("queue", msg)
    BY <1>2, <2>1 DEF QueueSim
  <2>4. pc["queue"] \in {"wait", "stamp"} \union Sending /\ Sent("queue", msg)
    BY <2>3 DEF Asking
  <2>5. Kinds' /\ Spared
    BY <1>2, <1>5, <2>4, SendKinds, SendSim, ThreadsDiffer DEF Kinds
  <2>6. pc'["queue"] \in {"idle", "forget"} \/ Asking("queue", msg)'
    BY <1>2, <1>5, <2>3, AskSim, ThreadsDiffer DEF Kinds
  <2>7. pc'["queue"] # "forget"
    BY <1>1, ThreadsDiffer DEF StepsInv, OneThread
  <2>8. ASSUME Asking("queue", msg)' PROVE QueueSim'
    <3>1. UNCHANGED <<command, flow_control, pending_input, checking, before>>
      BY <2>5 DEF Spared
    <3>2. pc'["queue"] # "hold"
      BY <2>8 DEF Asking, Sending
    <3>3. IF command'.id = "ADD_PACKAGE"
          THEN Asking("queue", StateRequest(command))'
          ELSE Asking("queue", command)'
      BY <2>3, <2>8, <3>1 DEF StateRequest
    <3> QED
      BY <1>2, <2>1, <3>1, <3>2, <3>3 DEF QueueSim
  <2>9. QueueSim'
    BY <2>6, <2>7, <2>8 DEF QueueSim
  <2> QED
    BY <1>1, <2>2, <2>5, <2>9 DEF HandlerInv
<1> QED
  BY <1>3, <1>4, <1>5 DEF queue_handler
LEMMA EndingSim ==
    ASSUME StepsTyped, Kinds, Ending, send_message_to_driver("callback")
    PROVE  Kinds' /\ Ending' /\ Spared
<1> USE DEF outside, fields, plant, clock, local, At, Spared
<1>1. /\ pc["callback"] \in {"check", "delete", "null", "continue"}
      /\ waiting = Server!NotWaiting
      /\ timestamp = before.timestamp
      /\ checking = before.checking
      /\ job["callback"] = NoFrame
      /\ Emptied("callback") = "continue"
  BY DEF Ending, Emptied
<1>2. PICK l : Goto("callback", l)
  BY SendAt
<1>3. pc'["callback"] = l
  BY <1>2, Going, ThreadsDiffer
<1>4. /\ \/ check_pending("callback")
         \/ delete_pending("callback")
         \/ null_pending("callback")
  BY <1>1
  DEF send_message_to_driver, wait_for_message, increment_timestamp,
      new_pending, start_timer, fill_header, fill_data, transmit
<1>5. /\ UNCHANGED <<waiting, timestamp, checking, pending_input, job,
                     timer_running, antTx, uplink>>
      /\ Spared
      /\ pending_msg' \in {pending_msg, NoMessage}
      /\ pc'["callback"] \in {"delete", "null", "continue"}
      /\ pc'["callback"] = "continue" => pending_msg' = NoMessage
  <2>1. CASE check_pending("callback")
    <3>1. pc'["callback"] = IF pending_msg = NoMessage THEN "continue"
                            ELSE "delete"
      BY <1>1, <2>1, Going, ThreadsDiffer DEF check_pending
    <3> QED
      BY <2>1, <3>1 DEF check_pending
  <2>2. CASE delete_pending("callback")
    <3>1. pc'["callback"] = "null"
      BY <2>2, Going, ThreadsDiffer DEF delete_pending
    <3> QED
      BY <2>2, <3>1 DEF delete_pending
  <2>3. CASE null_pending("callback")
    <3>1. pc'["callback"] = "continue"
      BY <1>1, <2>3, Going, ThreadsDiffer DEF null_pending, SetPending
    <3> QED
      BY <2>3, <3>1 DEF null_pending, SetPending
  <2> QED
    BY <1>4, <2>1, <2>2, <2>3
<1>6. JobTyped'
  BY <1>5 DEF Kinds, JobTyped
<1>7. /\ pending_msg' \in Server!Message \union {NoMessage}
      /\ pending_input' \in Server!AddPackage \union {NoMessage}
      /\ {checking', timer_running', timed_out'} \subseteq BOOLEAN
  BY <1>5 DEF Kinds
<1>8. Kinds'
  BY <1>5, <1>6, <1>7, KindsKept
<1>9. Ending'
  BY <1>1, <1>5 DEF Ending, NoFrame, NoMessage, Server!NoFrame,
                    Server!NoMessage
<1> QED
  BY <1>5, <1>8, <1>9

(* The steps of the callback between its first access and the frame. *)
LEMMA CallbackSendInv ==
    ASSUME HandlerInv, send_message_to_driver("callback")
    PROVE  Kinds' /\ CallbackSim'
<1>1. StepsTyped /\ Kinds /\ CallbackSim
  BY DEF HandlerInv, StepsInv
<1>2. pc["callback"] \in {"wait", "stamp"} \union Sending
  BY SendAt
<1>3. /\ got.conveyor \in ConveyorId
      /\ got.reply.id \in ReplyId \ {"PACKAGE_ARRIVED"}
      /\ WasAwaited
      /\ flow_control = before.flow_control
      /\ pending_input = before.pending_input
      /\ before.timed_out = FALSE
      /\ IF got.reply.id = "CONVEYOR_STATE_RESPONSE"
         THEN /\ before.pending_input \in Server!AddPackage
              /\ checking = (before.checking /\ ~got.reply.available)
              /\ before.checking \in BOOLEAN
              /\ Asking("callback", NextMessage)
         ELSE Ending
  BY <1>1, <1>2 DEF CallbackSim, Sending
<1>4. ASSUME Spared
      PROVE  /\ UNCHANGED <<got, before, flow_control, pending_input,
                            checking>>
             /\ WasAwaited' /\ NextMessage' = NextMessage
  <2>1. UNCHANGED <<got, before, flow_control, pending_input, checking>>
    BY <1>4 DEF Spared
  <2>2. WasAwaited'
    BY <1>3, <2>1 DEF WasAwaited
  <2>3. NextMessage' = NextMessage
    BY <2>1 DEF NextMessage, StateRequest
  <2> QED
    BY <2>1, <2>2, <2>3
<1>5. CASE got.reply.id # "CONVEYOR_STATE_RESPONSE"
  <2>1. Kinds' /\ Ending' /\ Spared
    BY <1>1, <1>3, <1>5, EndingSim
  <2>2. pc'["callback"] \notin {"stop", "held", "reset"}
    BY <2>1 DEF Ending
  <2> QED
    BY <1>3, <1>4, <1>5, <2>1, <2>2 DEF CallbackSim
<1>6. CASE got.reply.id = "CONVEYOR_STATE_RESPONSE"
  <2>1. PICK msg : msg = NextMessage
    OBVIOUS
  <2>2. Asking("callback", msg)
    BY <1>3, <1>6, <2>1
  <2>3. Sent("callback", msg)
    BY <2>2 DEF Asking
  <2>4. Kinds' /\ Spared
    BY <1>1, <1>2, <2>3, SendKinds, SendSim, ThreadsDiffer DEF Kinds
  <2>5. pc'["callback"] \in {"idle", "forget"} \/ Asking("callback", msg)'
    BY <1>1, <2>2, AskSim, ThreadsDiffer DEF Kinds
  <2>6. ASSUME Asking("callback", msg)' PROVE CallbackSim'
    <3>1. pc'["callback"] \notin {"stop", "held", "reset"}
      BY <2>6 DEF Asking, Sending
    <3>2. Asking("callback", NextMessage)'
      BY <1>4, <2>1, <2>4, <2>6
    <3> QED
      BY <1>3, <1>4, <1>6, <2>4, <3>1, <3>2 DEF CallbackSim
  <2> QED
    BY <2>4, <2>5, <2>6 DEF CallbackSim
<1> QED
  BY <1>5, <1>6

(* Its steps before that. *)
LEMMA CallbackOwnInv ==
    ASSUME HandlerInv,
           \/ stop_timer
           \/ reset_waiting
           \/ continue_flow_control
           \/ received_input_conveyor_state
           \/ forget_package
    PROVE  Kinds' /\ CallbackSim' /\ pc["callback"] # "idle"
           /\ \E l : Goto("callback", l)
<1> USE DEF outside, fields, plant, clock, local, At
<1>1. StepsTyped /\ Kinds /\ CallbackSim
  BY DEF HandlerInv, StepsInv
<1>2. /\ pending_msg \in Server!Message \union {NoMessage}
      /\ pending_input \in Server!AddPackage \union {NoMessage}
      /\ {checking, timer_running, timed_out} \subseteq BOOLEAN
      /\ JobTyped
  BY <1>1 DEF Kinds
<1>3. CASE stop_timer
  <2>1. /\ pc["callback"] = "stop"
        /\ timer_running' = FALSE
        /\ Goto("callback", IF got.reply.id = "CONVEYOR_STATE_RESPONSE"
                            THEN "held" ELSE "reset")
        /\ UNCHANGED <<antTx, uplink, flow_control, pending_msg,
                       pending_input, checking, waiting, timestamp, timed_out,
                       job, got, before>>
    BY <1>3 DEF stop_timer
  <2>2. pc'["callback"] = IF got.reply.id = "CONVEYOR_STATE_RESPONSE"
                          THEN "held" ELSE "reset"
    BY <1>1, <2>1, Going, ThreadsDiffer
  <2>3. Kinds'
    BY <1>1, <1>2, <2>1, KindsKept DEF JobTyped
  <2>4. WasAwaited'
    BY <1>1, <2>1 DEF CallbackSim, WasAwaited
  <2>5. CallbackSim'
    BY <1>1, <2>1, <2>2, <2>4 DEF CallbackSim
  <2> QED
    BY <2>1, <2>3, <2>5
<1>4. CASE reset_waiting
  <2>1. /\ pc["callback"] = "reset"
        /\ waiting' = Server!NotWaiting
        /\ job' = [job EXCEPT !["callback"] = NoFrame]
        /\ Goto("callback", "check")
        /\ UNCHANGED <<antTx, uplink, flow_control, pending_msg,
                       pending_input, checking, timestamp, timer_running,
                       timed_out, got, before>>
    BY <1>4 DEF reset_waiting
  <2>2. pc'["callback"] = "check"
    BY <1>1, <2>1, Going, ThreadsDiffer
  <2>3. JobTyped' /\ job'["callback"] = NoFrame
    BY <1>2, <2>1, JobSet, ThreadsDiffer DEF NoFrame, Server!NoFrame
  <2>4. Kinds'
    BY <1>1, <1>2, <2>1, <2>3, KindsKept DEF Server!NotWaiting
  <2>5. WasAwaited'
    BY <1>1, <2>1 DEF CallbackSim, WasAwaited
  <2>6. Ending'
    BY <1>1, <2>1, <2>2, <2>3
    DEF CallbackSim, Ending, NoFrame, Server!NoFrame, Server!NoMessage
  <2>7. CallbackSim'
    BY <1>1, <2>1, <2>2, <2>5, <2>6 DEF CallbackSim
  <2> QED
    BY <2>1, <2>4, <2>7
<1>5. CASE continue_flow_control
  <2>1. /\ pc["callback"] = "continue"
        /\ Goto("callback", "idle")
        /\ UNCHANGED <<antTx, uplink, pending_msg, pending_input, checking,
                       waiting, timer_running, timed_out, job>>
    BY <1>5 DEF continue_flow_control
  <2>2. pc'["callback"] = "idle"
    BY <1>1, <2>1, Going, ThreadsDiffer
  <2>3. Kinds'
    BY <1>1, <1>2, <2>1, KindsKept DEF JobTyped
  <2> QED
    BY <2>1, <2>2, <2>3 DEF CallbackSim
<1>6. CASE received_input_conveyor_state
  <2>1. /\ pc["callback"] = "held"
        /\ UNCHANGED <<antTx, uplink, flow_control, pending_msg,
                       pending_input, waiting, timestamp, timer_running,
                       timed_out, got, before>>
        /\ \/ /\ Goto("callback", "idle")
              /\ UNCHANGED <<checking, job>>
           \/ /\ pending_input # NoMessage
              /\ Goto("callback", "wait")
              /\ checking' = (checking /\ ~got.reply.available)
              /\ job' = [job EXCEPT !["callback"].msg =
                            IF got.reply.available THEN pending_input
                            ELSE StateRequest(pending_input)]
    BY <1>6 DEF received_input_conveyor_state
  <2>2. CASE Goto("callback", "idle") /\ UNCHANGED <<checking, job>>
    <3>1. pc'["callback"] = "idle"
      BY <1>1, <2>2, Going, ThreadsDiffer
    <3>2. Kinds'
      BY <1>1, <1>2, <2>1, <2>2, KindsKept DEF JobTyped
    <3> QED
      BY <2>1, <2>2, <3>1, <3>2 DEF CallbackSim
  <2>3. CASE /\ pending_input # NoMessage
             /\ Goto("callback", "wait")
             /\ checking' = (checking /\ ~got.reply.available)
             /\ job' = [job EXCEPT !["callback"].msg =
                           IF got.reply.available THEN pending_input
                           ELSE StateRequest(pending_input)]
    <3>1. pc'["callback"] = "wait"
      BY <1>1, <2>3, Going, ThreadsDiffer
    <3>2. /\ got.conveyor \in ConveyorId
          /\ got.reply.id = "CONVEYOR_STATE_RESPONSE"
          /\ got.reply.id \in ReplyId \ {"PACKAGE_ARRIVED"}
          /\ WasAwaited
          /\ flow_control = before.flow_control
          /\ pending_input = before.pending_input
          /\ before.timed_out = FALSE
          /\ timestamp = before.timestamp
          /\ checking = before.checking
      BY <1>1, <2>1 DEF CallbackSim
    <3>3. before.pending_input \in Server!AddPackage
      BY <1>2, <2>3, <3>2
    <3>4. PICK msg : msg = NextMessage
      OBVIOUS
    <3>5. msg \in Server!Message
      BY <3>3, <3>4, PackageShape DEF NextMessage
    <3>6. JobTyped' /\ job'["callback"].msg = msg
      BY <1>2, <2>3, <3>2, <3>4, JobMsgSet, ThreadsDiffer DEF NextMessage
    <3>7. Sent("callback", msg)'
      BY <3>1, <3>5, <3>6 DEF Sent
    <3>8. Asking("callback", msg)'
      BY <2>1, <3>1, <3>2, <3>7 DEF Asking
    <3>9. NextMessage' = msg /\ WasAwaited'
      BY <2>1, <3>2, <3>4 DEF NextMessage, WasAwaited, StateRequest
    <3>10. checking' \in BOOLEAN
      BY <1>2, <2>3
    <3>11. Kinds'
      BY <1>1, <1>2, <2>1, <3>6, <3>10, KindsKept
    <3>12. CallbackSim'
      BY <1>2, <2>1, <2>3, <3>1, <3>2, <3>3, <3>8, <3>9 DEF CallbackSim
    <3> QED
      BY <2>1, <2>3, <3>11, <3>12
  <2> QED
    BY <2>1, <2>2, <2>3
<1>7. CASE forget_package
  <2>1. /\ pc["callback"] = "forget"
        /\ Goto("callback", "idle")
        /\ pending_input' = NoMessage
        /\ UNCHANGED <<antTx, uplink, pending_msg, checking, waiting,
                       timer_running, timed_out, job>>
    BY <1>7 DEF forget_package
  <2>2. pc'["callback"] = "idle"
    BY <1>1, <2>1, Going, ThreadsDiffer
  <2>3. Kinds'
    BY <1>1, <1>2, <2>1, KindsKept DEF JobTyped
  <2> QED
    BY <2>1, <2>2, <2>3 DEF CallbackSim
<1> QED
  BY <1>3, <1>4, <1>5, <1>6, <1>7

LEMMA CallbackInv ==
    ASSUME HandlerInv, callback
    PROVE  HandlerInv'
<1>1. StepsInv'
  BY CallbackSteps DEF HandlerInv
<1>2. /\ Kinds' /\ CallbackSim'
      /\ pc["callback"] # "idle"
      /\ \E l : Goto("callback", l)
  <2>1. CASE send_message_to_driver("callback")
    BY <2>1, CallbackSendInv, SendAt DEF Sending
  <2> QED
    BY <2>1, CallbackOwnInv DEF callback
<1>3. QueueSim' /\ DriverSim'
  BY <1>2, OthersIdle, Alone, ThreadsDiffer DEF HandlerInv, StepsInv
<1> QED
  BY <1>1, <1>2, <1>3 DEF HandlerInv
LEMMA ReplyInv ==
    ASSUME HandlerInv, NEW c \in ConveyorId, take_reply(c)
    PROVE  HandlerInv'
<1> USE DEF outside, fields, plant, clock, local, At
<1>1. StepsInv'
  BY ReplySteps DEF HandlerInv
<1>2. StepsTyped /\ Kinds /\ UplinkTyped /\ OneOnItsWay
  BY DEF HandlerInv, StepsInv, StepsTyped
<1>3. PICK reply : reply = Head(uplink[c])
  OBVIOUS
<1>4. /\ pc["callback"] = "idle"
      /\ uplink[c] # <<>>
      /\ reply.id # "PACKAGE_ARRIVED"
      /\ uplink' = [uplink EXCEPT ![c] = Tail(@)]
      /\ UNCHANGED <<antTx, air, flow_control, pending_msg, pending_input,
                     checking, waiting, timestamp, timer_running, timed_out,
                     job, command, buffer>>
      /\ \/ /\ Awaited(c, reply)
            /\ got' = [conveyor |-> c, reply |-> reply]
            /\ Goto("callback", "stop")
            /\ Remember
         \/ UNCHANGED <<got, pc, before>>
  BY <1>3 DEF take_reply
<1>5. reply.id \in ReplyId
  <2>1. IsASeq(uplink[c])
    BY <1>2 DEF UplinkTyped
  <2>2. 1 \in DOMAIN uplink[c] /\ reply = uplink[c][1]
    BY <1>3, <1>4, <2>1, Tailing
  <2> QED
    BY <1>2, <2>2 DEF Kinds, RepliesTyped
<1>6. RepliesTyped'
  <2>1. ASSUME NEW d \in ConveyorId, NEW j \in DOMAIN uplink'[d]
        PROVE  uplink'[d][j].id \in ReplyId
    <3>1. PICK i \in DOMAIN uplink[d] :
             /\ uplink'[d][j] = uplink[d][i]
             /\ i = IF d = c THEN j + 1 ELSE j
             /\ d = c => j \in Nat \ {0}
      BY <1>2, <1>4, Shifted, ZenonT(30)
    <3> QED
      BY <1>2, <3>1 DEF Kinds, RepliesTyped
  <2> QED
    BY <2>1 DEF RepliesTyped
<1>7. Kinds'
  <2>1. JobTyped' /\ NoMessage' = NoMessage
    BY <1>2, <1>4 DEF Kinds, JobTyped, NoMessage, Server!NoMessage
  <2> QED
    BY <1>2, <1>4, <1>6, <2>1 DEF Kinds
<1>8. CASE UNCHANGED <<got, pc, before>>
  <2>1. QueueSim' /\ CallbackSim' /\ DriverSim'
    BY <1>4, <1>8, Bystanders DEF HandlerInv, Standstill
  <2> QED
    BY <1>1, <1>7, <2>1 DEF HandlerInv
<1>9. CASE /\ Awaited(c, reply)
           /\ got' = [conveyor |-> c, reply |-> reply]
           /\ Goto("callback", "stop")
           /\ Remember
  <2>1. ~Server!NothingInFlight
    BY <1>2, <1>3, <1>4, LastTaken
  <2>2. ~Unfinished /\ ~Expired
    BY <2>1 DEF HandlerInv, StepsInv, OneReason
  <2>3. \A u \in Thread : u # "callback" => pc[u] = "idle"
    BY <2>2, ThreadsDiffer
    DEF HandlerInv, StepsInv, OneThread, Unfinished, InHandler
  <2>4. QueueSim' /\ DriverSim'
    BY <1>2, <1>9, <2>3, OthersIdle, ThreadsDiffer
  <2>5. pc'["callback"] = "stop"
    BY <1>2, <1>9, Going, ThreadsDiffer
  <2>6. timed_out = FALSE
    BY <1>2, <2>2 DEF Kinds, Expired
  <2>7. /\ before'.flow_control = flow_control
        /\ before'.pending_input = pending_input
        /\ before'.pending_msg = pending_msg
        /\ before'.checking = checking
        /\ before'.waiting = waiting
        /\ before'.timestamp = timestamp
        /\ before'.timed_out = FALSE
    BY <1>9, <2>6 DEF Remember
  <2>8. got'.conveyor = c /\ got'.reply = reply
    BY <1>9
  <2>9. WasAwaited'
    <3>1. CASE reply.id = "MESSAGE_RECEIVED"
      <4>1. waiting = [id |-> reply.of, conveyor |-> reply.conveyor]
        BY <1>9, <3>1 DEF Awaited, Server!AwaitsReceipt
      <4> QED
        BY <2>7, <2>8, <3>1, <4>1 DEF WasAwaited
    <3>2. CASE reply.id = "CONVEYOR_STATE_RESPONSE"
      <4>1. waiting = [id |-> "CONVEYOR_STATE_RESPONSE", conveyor |-> c]
        BY <1>9, <3>2 DEF Awaited, Server!AwaitsState
      <4>2. c = Server!INPUT_CONVEYOR_ID
        BY <1>2, <4>1 DEF Kinds
      <4> QED
        BY <2>7, <2>8, <3>2, <4>1, <4>2 DEF WasAwaited
    <3>3. CASE reply.id = "CLEAR_BOX_RESPONSE"
      <4>1. waiting.id = "CLEAR_BOX_RESPONSE"
        BY <1>9, <3>3 DEF Awaited
      <4> QED
        BY <2>7, <2>8, <3>3, <4>1 DEF WasAwaited
    <3> QED
      BY <1>4, <1>5, <3>1, <3>2, <3>3 DEF ReplyId
  <2>10. CallbackSim'
    BY <1>4, <1>5, <2>5, <2>7, <2>8, <2>9 DEF CallbackSim
  <2> QED
    BY <1>1, <1>7, <2>4, <2>10 DEF HandlerInv
<1> QED
  BY <1>4, <1>8, <1>9

LEMMA DriverInv ==
    ASSUME HandlerInv, driver_loop
    PROVE  HandlerInv'
<1> USE DEF outside, fields, plant, clock, local, At
<1>1. StepsInv'
  BY DriverSteps DEF HandlerInv
<1>2. StepsTyped /\ Kinds /\ DriverSim
  BY DEF HandlerInv, StepsInv
<1>3. ASSUME pc["driver"] # "idle", NEW l, Goto("driver", l)
      PROVE  QueueSim' /\ CallbackSim'
  BY <1>2, <1>3, OthersIdle, Alone, ThreadsDiffer DEF HandlerInv
<1>4. /\ pending_msg \in Server!Message \union {NoMessage}
      /\ pending_input \in Server!AddPackage \union {NoMessage}
      /\ {checking, timer_running, timed_out} \subseteq BOOLEAN
      /\ JobTyped
  BY <1>2 DEF Kinds
<1>5. CASE notice_timeout
  <2>1. /\ timed_out
        /\ timed_out' = FALSE
        /\ Goto("driver", "peek")
        /\ Remember
        /\ UNCHANGED <<antTx, uplink, flow_control, pending_msg,
                       pending_input, checking, waiting, timestamp,
                       timer_running, job>>
    BY <1>5 DEF notice_timeout
  <2>2. \A u \in Thread : pc[u] = "idle"
    BY <2>1 DEF HandlerInv, StepsInv, OneReason, Expired, Idle
  <2>3. QueueSim' /\ CallbackSim'
    BY <1>2, <2>1, <2>2, OthersIdle, ThreadsDiffer
  <2>4. Kinds'
    BY <1>2, <1>4, <2>1, KindsKept DEF JobTyped
  <2>5. pc'["driver"] = "peek"
    BY <1>2, <2>1, Going, ThreadsDiffer
  <2>6. timed_out = TRUE
    BY <1>4, <2>1
  <2>7. DriverSim'
    BY <2>1, <2>5, <2>6 DEF DriverSim, Remember
  <2> QED
    BY <1>1, <2>3, <2>4, <2>7 DEF HandlerInv
<1>6. CASE peek_pending
  <2>1. /\ pc["driver"] = "peek"
        /\ Goto("driver", IF pending_msg = NoMessage THEN "idle" ELSE "copy")
        /\ UNCHANGED <<antTx, uplink, flow_control, pending_msg,
                       pending_input, checking, waiting, timestamp,
                       timer_running, timed_out, job, before>>
    BY <1>6 DEF peek_pending
  <2>2. pc'["driver"] = IF pending_msg = NoMessage THEN "idle" ELSE "copy"
    BY <1>2, <2>1, Going, ThreadsDiffer
  <2>3. Kinds'
    BY <1>2, <1>4, <2>1, KindsKept DEF JobTyped
  <2>4. NoMessage' = NoMessage
    BY DEF NoMessage, Server!NoMessage
  <2>5. DriverSim'
    BY <1>2, <2>1, <2>2, <2>4 DEF DriverSim
  <2> QED
    BY <1>1, <1>3, <2>1, <2>3, <2>5 DEF HandlerInv
<1>7. CASE copy_pending
  <2>1. /\ pc["driver"] = "copy"
        /\ Goto("driver", "read")
        /\ job' = [job EXCEPT !["driver"].msg = pending_msg]
        /\ UNCHANGED <<antTx, uplink, flow_control, pending_msg,
                       pending_input, checking, waiting, timestamp,
                       timer_running, timed_out, before>>
    BY <1>7 DEF copy_pending
  <2>2. pc'["driver"] = "read"
    BY <1>2, <2>1, Going, ThreadsDiffer
  <2>3. JobTyped' /\ job'["driver"].msg = pending_msg
    BY <1>4, <2>1, JobMsgSet, ThreadsDiffer
  <2>4. Kinds'
    BY <1>2, <1>4, <2>1, <2>3, KindsKept
  <2>5. NoMessage' = NoMessage
    BY DEF NoMessage, Server!NoMessage
  <2>6. DriverSim'
    BY <1>2, <2>1, <2>2, <2>3, <2>5 DEF DriverSim
  <2> QED
    BY <1>1, <1>3, <2>1, <2>4, <2>6 DEF HandlerInv
<1>8. CASE read_timestamp
  <2>1. /\ pc["driver"] = "read"
        /\ Goto("driver", "check")
        /\ job' = [job EXCEPT !["driver"].time = timestamp]
        /\ UNCHANGED <<antTx, uplink, flow_control, pending_msg,
                       pending_input, checking, waiting, timestamp,
                       timer_running, timed_out, before>>
    BY <1>8 DEF read_timestamp
  <2>2. pc'["driver"] = "check"
    BY <1>2, <2>1, Going, ThreadsDiffer
  <2>3. PICK msg : msg = before.pending_msg
    OBVIOUS
  <2>4. job["driver"].msg = msg /\ pending_msg = msg /\ msg \in Server!Message
    BY <1>2, <1>4, <2>1, <2>3 DEF DriverSim
  <2>5. JobTyped' /\ job'["driver"].msg = msg /\ job'["driver"].time = timestamp
    BY <1>4, <2>1, <2>4, JobTimeSet, ThreadsDiffer
  <2>6. Kinds'
    BY <1>2, <1>4, <2>1, <2>5, KindsKept
  <2>7. Sent("driver", msg)'
    BY <2>1, <2>2, <2>4, <2>5 DEF Sent
  <2>8. DriverSim'
    BY <1>2, <2>1, <2>2, <2>3, <2>7 DEF DriverSim, Sending
  <2> QED
    BY <1>1, <1>3, <2>1, <2>6, <2>8 DEF HandlerInv
<1>9. CASE send_message_to_driver("driver")
  <2>1. pc["driver"] \in {"wait", "stamp"} \union Sending /\ \E l : Goto("driver", l)
    BY <1>9, SendAt
  <2>2. PICK msg : msg = before.pending_msg
    OBVIOUS
  <2>3. /\ pc["driver"] \in Sending
        /\ Sent("driver", msg)
        /\ before.timed_out = TRUE
        /\ flow_control = before.flow_control
        /\ pending_input = before.pending_input
        /\ checking = before.checking
        /\ waiting = before.waiting
        /\ timestamp = before.timestamp
    BY <1>2, <2>1, <2>2 DEF DriverSim, Sending
  <2>4. Kinds'
    BY <1>2, <1>9, <2>1, <2>3, SendKinds, ThreadsDiffer
  <2>5. /\ Spared
        /\ \/ pc'["driver"] \in {"idle", "forget"}
           \/ pc'["driver"] \in Sending /\ Sent("driver", msg)'
        /\ UNCHANGED <<waiting, timestamp>>
    BY <1>2, <1>4, <1>9, <2>3, SendSim, ThreadsDiffer DEF Sending
  <2>6. pc'["driver"] # "forget"
    BY <1>1, ThreadsDiffer DEF StepsInv, OneThread
  <2>7. DriverSim'
    BY <2>2, <2>3, <2>5, <2>6 DEF DriverSim, Spared, Sending
  <2> QED
    BY <1>1, <1>3, <2>1, <2>4, <2>7 DEF HandlerInv, Sending
<1> QED
  BY <1>5, <1>6, <1>7, <1>8, <1>9 DEF driver_loop
LEMMA TimerInv ==
    ASSUME HandlerInv, ~early', timer
    PROVE  HandlerInv'
<1> USE DEF outside, fields, plant, local
<1>1. StepsInv'
  BY TimerSteps DEF HandlerInv
<1>2. Kinds /\ QueueSim /\ CallbackSim /\ DriverSim
  BY DEF HandlerInv
<1>3. /\ UNCHANGED <<antTx, uplink, flow_control, pending_msg, pending_input,
                     checking, waiting, timestamp, pc, job, command, got,
                     before, buffer>>
      /\ timer_running' \in {timer_running, FALSE}
      /\ timed_out' \in {timed_out, TRUE}
      /\ timer_running' = timer_running \/ Expired
  BY DEF timer, enter_loop, leave_loop, time_passes, test_running,
         clear_running, Set_timeout, Tick, Expired
<1>4. Kinds'
  BY <1>2, <1>3, KindsKept DEF Kinds, JobTyped
<1>5. QueueSim' /\ CallbackSim' /\ DriverSim'
  <2>1. CASE timer_running' = timer_running
    BY <1>2, <1>3, <2>1, Bystanders DEF Standstill
  <2>2. CASE Expired
    <3>1. \A t \in Thread : pc'[t] = "idle"
      BY <1>3, <2>2 DEF HandlerInv, StepsInv, OneReason, Idle
    <3> QED
      BY <3>1, ThreadsDiffer DEF QueueSim, CallbackSim, DriverSim
  <2> QED
    BY <1>3, <2>1, <2>2
<1> QED
  BY <1>1, <1>4, <1>5 DEF HandlerInv

(* What is outside leaves the handlers where they are. *)
LEMMA OutsideKinds ==
    ASSUME HandlerInv, RepliesTyped', antTx' \in Seq(Server!Command),
           UNCHANGED <<flow_control, pending_msg, pending_input, checking,
                       waiting, timestamp, timer_running, timed_out, steps>>
    PROVE  Kinds' /\ QueueSim' /\ CallbackSim' /\ DriverSim'
<1> USE DEF steps, local, clock
<1>1. Kinds'
  <2>1. JobTyped' /\ NoMessage' = NoMessage
    BY DEF HandlerInv, Kinds, JobTyped, NoMessage, Server!NoMessage
  <2> QED
    BY <2>1 DEF HandlerInv, Kinds
<1>2. QueueSim' /\ CallbackSim' /\ DriverSim'
  BY Bystanders DEF HandlerInv, Standstill, fields
<1> QED
  BY <1>1, <1>2

LEMMA FewerTyped ==
    ASSUME RepliesTyped, UplinkTyped, NEW c \in ConveyorId, uplink[c] # <<>>,
           uplink' = [uplink EXCEPT ![c] = Tail(@)]
    PROVE  RepliesTyped'
<1>1. ASSUME NEW d \in ConveyorId, NEW j \in DOMAIN uplink'[d]
      PROVE  uplink'[d][j].id \in ReplyId
  <2>1. PICK i \in DOMAIN uplink[d] :
           /\ uplink'[d][j] = uplink[d][i]
           /\ i = IF d = c THEN j + 1 ELSE j
           /\ d = c => j \in Nat \ {0}
    BY Shifted, ZenonT(30)
  <2> QED
    BY <2>1 DEF RepliesTyped
<1> QED
  BY <1>1 DEF RepliesTyped

LEMMA MoreTyped ==
    ASSUME RepliesTyped, UplinkTyped, NEW c, NEW e, e.id \in ReplyId,
           uplink' = [uplink EXCEPT ![c] = Append(@, e)]
    PROVE  RepliesTyped'
<1>1. ASSUME NEW d \in ConveyorId, NEW j \in DOMAIN uplink'[d]
      PROVE  uplink'[d][j].id \in ReplyId
  <2>1. \/ j \in DOMAIN uplink[d] /\ uplink'[d][j] = uplink[d][j]
        \/ uplink'[d][j] = e
    BY Behind
  <2> QED
    BY <2>1 DEF RepliesTyped
<1> QED
  BY <1>1 DEF RepliesTyped

LEMMA EnvironmentInv ==
    ASSUME HandlerInv, environment
    PROVE  HandlerInv'
<1> USE DEF Server!server, Server!timer, Server!plant, Server!world
<1>1. StepsInv' /\ UNCHANGED steps
  BY EnvironmentSteps DEF HandlerInv, environment
<1>2. RepliesTyped /\ UplinkTyped /\ antTx \in Seq(Server!Command)
  BY DEF HandlerInv, Kinds, StepsInv, StepsTyped
<1>3. ASSUME RepliesTyped', antTx' \in Seq(Server!Command),
             UNCHANGED <<flow_control, pending_msg, pending_input, checking,
                         waiting, timestamp, timer_running, timed_out>>
      PROVE  HandlerInv'
  BY <1>1, <1>3, OutsideKinds DEF HandlerInv
<1>4. ASSUME NEW msg \in Server!Command, Server!enqueue_message(msg)
      PROVE  HandlerInv'
  <2>1. /\ antTx' = Append(antTx, msg)
        /\ UNCHANGED <<uplink, flow_control, pending_msg, pending_input,
                       checking, waiting, timestamp, timer_running, timed_out>>
    BY <1>4 DEF Server!enqueue_message
  <2>2. RepliesTyped' /\ antTx' \in Seq(Server!Command)
    BY <1>2, <2>1 DEF RepliesTyped
  <2> QED
    BY <1>3, <2>1, <2>2
<1>5. CASE Server!air_loses
  <2>1. UNCHANGED <<antTx, uplink, flow_control, pending_msg, pending_input,
                    checking, waiting, timestamp, timer_running, timed_out>>
    BY <1>5 DEF Server!air_loses
  <2>2. RepliesTyped' /\ antTx' \in Seq(Server!Command)
    BY <1>2, <2>1 DEF RepliesTyped
  <2> QED
    BY <1>3, <2>1, <2>2
<1>6. CASE Server!deliver
  <2>1. PICK reply \in Server!Replies(air.msg) :
           uplink' = [uplink EXCEPT ![air.msg.conveyor] = Append(@, reply)]
    BY <1>6 DEF Server!deliver
  <2>2. reply.id \in ReplyId
    <3>1. CASE air.msg.id = "CONVEYOR_STATE"
      <4>1. PICK a : reply = [id        |-> "CONVEYOR_STATE_RESPONSE",
                              available |-> a]
        BY <2>1, <3>1 DEF Server!Replies
      <4> QED
        BY <4>1 DEF ReplyId
    <3>2. CASE air.msg.id = "CLEAR_BOX"
      <4>1. PICK b, n : reply = [id  |-> "CLEAR_BOX_RESPONSE", box |-> b,
                                 count |-> n]
        BY <2>1, <3>2 DEF Server!Replies
      <4> QED
        BY <4>1 DEF ReplyId
    <3>3. CASE air.msg.id \notin {"CONVEYOR_STATE", "CLEAR_BOX"}
      <4>1. reply = [id |-> "MESSAGE_RECEIVED", of |-> air.msg.id,
                     conveyor |-> air.msg.conveyor]
        BY <2>1, <3>3 DEF Server!Replies
      <4> QED
        BY <4>1 DEF ReplyId
    <3> QED
      BY <3>1, <3>2, <3>3
  <2>3. UNCHANGED <<antTx, flow_control, pending_msg, pending_input, checking,
                    waiting, timestamp, timer_running, timed_out>>
    BY <1>6 DEF Server!deliver
  <2>4. RepliesTyped' /\ antTx' \in Seq(Server!Command)
    BY <1>2, <2>1, <2>2, <2>3, MoreTyped
  <2> QED
    BY <1>3, <2>3, <2>4
<1>7. ASSUME NEW c \in ConveyorId, Server!uplink_loses(c)
      PROVE  HandlerInv'
  <2>1. /\ uplink[c] # <<>>
        /\ uplink' = [uplink EXCEPT ![c] = Tail(@)]
        /\ UNCHANGED <<antTx, flow_control, pending_msg, pending_input,
                       checking, waiting, timestamp, timer_running, timed_out>>
    BY <1>7 DEF Server!uplink_loses
  <2>2. RepliesTyped' /\ antTx' \in Seq(Server!Command)
    BY <1>2, <2>1, FewerTyped
  <2> QED
    BY <1>3, <2>1, <2>2
<1>8. ASSUME NEW c \in ConveyorId, Server!package_arrives(c)
      PROVE  HandlerInv'
  <2>1. PICK e : /\ e.id = "PACKAGE_ARRIVED"
                 /\ uplink' = [uplink EXCEPT ![c] = Append(@, e)]
    BY <1>8 DEF Server!package_arrives
  <2>2. UNCHANGED <<antTx, flow_control, pending_msg, pending_input, checking,
                    waiting, timestamp, timer_running, timed_out>>
    BY <1>8 DEF Server!package_arrives
  <2>3. e.id \in ReplyId
    BY <2>1 DEF ReplyId
  <2>4. RepliesTyped' /\ antTx' \in Seq(Server!Command)
    BY <1>2, <2>1, <2>2, <2>3, MoreTyped
  <2> QED
    BY <1>3, <2>2, <2>4
<1> QED
  BY <1>4, <1>5, <1>6, <1>7, <1>8 DEF environment

LEMMA ArrivalInv ==
    ASSUME HandlerInv, NEW c \in ConveyorId, take_arrival(c)
    PROVE  HandlerInv'
<1> USE DEF Server!server, Server!timer, Server!plant, Server!world
<1>1. /\ uplink[c] # <<>>
      /\ uplink' = [uplink EXCEPT ![c] = Tail(@)]
      /\ UNCHANGED <<antTx, flow_control, pending_msg, pending_input, checking,
                     waiting, timestamp, timer_running, timed_out, steps>>
  BY DEF take_arrival, Server!receive_PACKAGE_ARRIVED, Server!TakeReply
<1>2. RepliesTyped /\ UplinkTyped /\ antTx' \in Seq(Server!Command)
  BY <1>1 DEF HandlerInv, Kinds, StepsInv, StepsTyped
<1>3. RepliesTyped'
  BY <1>1, <1>2, FewerTyped
<1>4. StepsInv'
  BY ArrivalSteps DEF HandlerInv
<1> QED
  BY <1>1, <1>2, <1>3, <1>4, OutsideKinds DEF HandlerInv

LEMMA InitHandlers == ASSUME Init PROVE HandlerInv
<1> USE DEF Init, Server!Init
<1>1. StepsInv
  BY InitSteps
<1>2. /\ pc = [t \in Thread |-> "idle"]
      /\ job = [t \in Thread |-> NoFrame]
      /\ uplink = [c \in ConveyorId |-> <<>>]
      /\ antTx = <<>>
      /\ pending_msg = NoMessage /\ pending_input = NoMessage
      /\ waiting = Server!NotWaiting
      /\ {checking, timer_running, timed_out} \subseteq BOOLEAN
  BY DEF NoMessage
<1>3. QueueSim /\ CallbackSim /\ DriverSim
  BY <1>2, ThreadsDiffer DEF QueueSim, CallbackSim, DriverSim
<1>4. RepliesTyped
  <2>1. DOMAIN <<>> = {}
    OBVIOUS
  <2>2. \A c \in ConveyorId : DOMAIN uplink[c] = {}
    BY <1>2, <2>1
  <2> QED
    BY <2>2 DEF RepliesTyped
<1>5. JobTyped
  BY <1>2 DEF JobTyped, NoFrame, Server!NoFrame
<1>6. antTx \in Seq(Server!Command)
  BY <1>2
<1>7. waiting.id # "CONVEYOR_STATE_RESPONSE"
  BY <1>2 DEF Server!NotWaiting
<1> QED
  BY <1>1, <1>2, <1>3, <1>4, <1>5, <1>6, <1>7 DEF HandlerInv, Kinds

LEMMA StepHandlers == HandlerInv /\ ~early' /\ [Next]_vars => HandlerInv'
<1> SUFFICES ASSUME HandlerInv, ~early', [Next]_vars PROVE HandlerInv'
  OBVIOUS
<1>1. CASE UNCHANGED vars
  <2>1. StepsInv'
    BY <1>1, StepSteps DEF HandlerInv
  <2>2. /\ UNCHANGED <<antTx, uplink, flow_control, pending_msg, pending_input,
                       checking, waiting, timestamp, timer_running, timed_out,
                       steps>>
    BY <1>1 DEF vars, outside, fields
  <2>3. RepliesTyped' /\ antTx' \in Seq(Server!Command)
    BY <2>2 DEF HandlerInv, Kinds, RepliesTyped
  <2> QED
    BY <2>1, <2>2, <2>3, OutsideKinds DEF HandlerInv
<1>2. ASSUME NEW c \in ConveyorId, take_reply(c) \/ take_arrival(c)
      PROVE  HandlerInv'
  BY <1>2, ReplyInv, ArrivalInv
<1> QED
  BY <1>1, <1>2, QueueInv, CallbackInv, DriverInv, TimerInv, EnvironmentInv
  DEF Next

(* Until a timeout comes early, between its first access and its last a    *)
(* handler has done to the fields what the copies from before it began say *)
(* it should have (ANTServer.cpp:31-200, BackendANTDriver.cpp:190-198).    *)
THEOREM HandlerInvHolds == Spec => [](~early => HandlerInv)
<1>1. Init => HandlerInv
  BY InitHandlers
<1>2. (~early => HandlerInv) /\ [Next]_vars => (~early => HandlerInv)'
  BY StepHandlers, EarlyStays
<1> QED
  BY <1>1, <1>2, PTL DEF Spec

LEMMA OnTime == HandlerInv => early = FALSE
BY DEF HandlerInv, StepsInv, StepsTyped
------------------------------------------------------------------------------
(* Where the mapping puts a handler: before it while it runs, after it once *)
(* it had its effect *)

(* The plant, which the mapping leaves as it is. *)
SamePlant ==
    UNCHANGED <<antRx, last_seen, executed, arrivals, busy, early, submitted>>

SameBars ==
    UNCHANGED <<flow_controlBar, pending_msgBar, pending_inputBar, checkingBar,
                waitingBar, timestampBar, timer_runningBar, timed_outBar>>

LEMMA Stuttering ==
    ASSUME SamePlant, SameBars, UNCHANGED <<antTxBar, uplinkBar, air>>
    PROVE  UNCHANGED Handlers!vars
BY DEF SamePlant, SameBars, Handlers!vars, Handlers!server, Handlers!timer,
       Handlers!plant, Handlers!world

(* The fields as they are, and as they were before the handler began. *)
AtRest ==
    /\ flow_controlBar = flow_control
    /\ pending_msgBar = pending_msg
    /\ pending_inputBar = pending_input
    /\ checkingBar = checking
    /\ waitingBar = waiting
    /\ timestampBar = timestamp
    /\ timer_runningBar = timer_running
    /\ timed_outBar = timed_out

Underway ==
    /\ flow_controlBar = before.flow_control
    /\ pending_msgBar = before.pending_msg
    /\ pending_inputBar = before.pending_input
    /\ checkingBar = before.checking
    /\ waitingBar = before.waiting
    /\ timestampBar = before.timestamp
    /\ timer_runningBar = before.timer_running
    /\ timed_outBar = before.timed_out

LEMMA Resting ==
    (/\ ~Unfinished
     /\ pc["callback"] # "forget"
     /\ timer_at # "set"
     /\ timer_running \in BOOLEAN)
    => AtRest
BY DEF AtRest, flow_controlBar, pending_msgBar, pending_inputBar, checkingBar,
       waitingBar, timestampBar, timer_runningBar, timed_outBar

LEMMA Running == Unfinished => Underway
BY DEF Underway, flow_controlBar, pending_msgBar, pending_inputBar,
       checkingBar, waitingBar, timestampBar, timer_runningBar, timed_outBar

LEMMA RestingNext ==
    ASSUME ~Unfinished', pc'["callback"] # "forget", timer_at' # "set",
           timer_running' \in BOOLEAN
    PROVE  AtRest'
BY DEF AtRest, flow_controlBar, pending_msgBar, pending_inputBar, checkingBar,
       waitingBar, timestampBar, timer_runningBar, timed_outBar

LEMMA RunningNext == ASSUME Unfinished' PROVE Underway'
BY DEF Underway, flow_controlBar, pending_msgBar, pending_inputBar,
       checkingBar, waitingBar, timestampBar, timer_runningBar, timed_outBar

(* The first access of a handler, and those up to the last, change nothing. *)
LEMMA BeginStutters ==
    ASSUME ~Unfinished, pc["callback"] # "forget", timer_at # "set",
           {timer_running, timed_out} \subseteq BOOLEAN,
           Remember, Unfinished', SamePlant,
           UNCHANGED <<antTxBar, uplinkBar, air>>
    PROVE  UNCHANGED Handlers!vars
<1>1. AtRest
  BY Resting
<1>2. Underway'
  BY RunningNext
<1>3. /\ before'.flow_control = flow_control
      /\ before'.pending_msg = pending_msg
      /\ before'.pending_input = pending_input
      /\ before'.checking = checking
      /\ before'.waiting = waiting
      /\ before'.timestamp = timestamp
      /\ before'.timer_running = timer_running
      /\ before'.timed_out = timed_out
  BY DEF Remember
<1>4. SameBars
  BY <1>1, <1>2, <1>3 DEF AtRest, Underway, SameBars
<1> QED
  BY <1>4, Stuttering

LEMMA InsideStutters ==
    ASSUME StepsTyped, NEW t \in Thread, InHandler(t), InHandler(t)',
           NEW l, Goto(t, l), SamePlant,
           UNCHANGED <<antTx, uplink, air, command, got, before>>
    PROVE  UNCHANGED Handlers!vars
<1>1. \A u \in Thread : InHandler(u) <=> InHandler(u)'
  <2>1. \A u \in Thread : u # t => pc'[u] = pc[u]
    BY Going
  <2> QED
    BY <2>1 DEF InHandler
<1>2. Unfinished /\ Unfinished'
  BY DEF Unfinished
<1>3. Underway /\ Underway'
  BY <1>2, Running, RunningNext
<1>4. SameBars
  BY <1>3 DEF Underway, SameBars
<1>5. UNCHANGED <<antTxBar, uplinkBar>>
  BY <1>1, ThreadsDiffer DEF antTxBar, uplinkBar
<1> QED
  BY <1>4, <1>5, Stuttering

------------------------------------------------------------------------------
(* What a handler takes when it has its effect *)

LEMMA InFront ==
    ASSUME NEW s, IsASeq(s), NEW e
    PROVE  /\ <<e>> \o s # <<>>
           /\ Head(<<e>> \o s) = e
           /\ Tail(<<e>> \o s) = s
<1>1. PICK S : s \in Seq(S) /\ e \in S
  <2> DEFINE R == {s[i] : i \in DOMAIN s}
  <2>1. s \in Seq(R)
    BY DEF IsASeq
  <2> HIDE DEF R
  <2>2. s \in Seq(R \union {e}) /\ e \in R \union {e}
    BY <2>1
  <2> QED
    BY <2>2
<1>2. /\ <<e>> \o s \in Seq(S)
      /\ Len(<<e>> \o s) = Len(s) + 1
      /\ \A i \in 1 .. Len(s) + 1 :
            (<<e>> \o s)[i] = IF i = 1 THEN e ELSE s[i - 1]
  BY <1>1
<1>3. Len(s) \in Nat /\ \A i \in 1 .. Len(s) : s[i] \in S
  BY <1>1
<1>4. <<e>> \o s # <<>>
  BY <1>2, <1>3
<1>5. Head(<<e>> \o s) = e
  BY <1>2, <1>3, <1>4
<1>6. /\ Tail(<<e>> \o s) \in Seq(S)
      /\ Len(Tail(<<e>> \o s)) = Len(s)
      /\ \A i \in 1 .. Len(s) : Tail(<<e>> \o s)[i] = s[i]
  BY <1>2, <1>3, <1>4
<1>7. Tail(<<e>> \o s) = s
  BY <1>1, <1>6
<1> QED
  BY <1>4, <1>5, <1>7

LEMMA Reassembled ==
    ASSUME NEW s, IsASeq(s), s # <<>>
    PROVE  <<Head(s)>> \o Tail(s) = s
<1>1. PICK S : s \in Seq(S)
  BY DEF IsASeq
<1> QED
  BY <1>1

LEMMA BehindFront ==
    ASSUME NEW s, IsASeq(s), NEW e, NEW f
    PROVE  /\ <<e>> \o Append(s, f) = Append(<<e>> \o s, f)
           /\ Len(<<e>> \o s) = Len(s) + 1
           /\ Len(s) \in Nat
<1>1. PICK S : s \in Seq(S) /\ e \in S /\ f \in S
  <2> DEFINE R == {s[i] : i \in DOMAIN s}
  <2>1. s \in Seq(R)
    BY DEF IsASeq
  <2> HIDE DEF R
  <2>2. s \in Seq(R \union {e, f})
    BY <2>1
  <2> QED
    BY <2>2
<1> QED
  BY <1>1
------------------------------------------------------------------------------
(* A frame is sent: the handler of the queue and the driver's have their    *)
(* effect *)

(* What is known of the thread that transmits. *)
LEMMA Transmitting ==
    ASSUME HandlerInv, NEW t \in Thread, NEW msg, Sent(t, msg), transmit(t)
    PROVE  /\ Underway
           /\ ~Unfinished'
           /\ \A u \in Thread : u # t => pc[u] = "idle" /\ pc'[u] = "idle"
           /\ pending_msg' = msg
           /\ timer_running' = TRUE
           /\ timer_at' # "set"
           /\ timed_out' = FALSE
           /\ air' = IF air = NoFrame
                     THEN [msg |-> msg, time |-> timestamp'] ELSE air
           /\ SamePlant
           /\ UNCHANGED <<antTx, uplink, flow_control, pending_input, checking,
                          waiting, timestamp, command, got, before>>
           /\ job[t].msg = msg
           /\ pc[t] = "transmit"
           /\ pc'[t] = IF t = "callback" /\ msg.id = "ADD_PACKAGE"
                       THEN "forget" ELSE "idle"
<1> USE DEF outside, fields, plant, clock, local, At
<1>1. /\ pc[t] = "transmit"
      /\ air' = IF air = NoFrame THEN buffer ELSE air
      /\ Goto(t, IF t = "callback" /\ job[t].msg.id = "ADD_PACKAGE"
                 THEN "forget" ELSE "idle")
      /\ SamePlant
      /\ UNCHANGED <<antTx, uplink, flow_control, pending_input, checking,
                     waiting, timestamp, command, got, before, pending_msg,
                     timer_running, timer_at, timed_out>>
  BY DEF transmit, SamePlant
<1>2. /\ job[t].msg = msg
      /\ pending_msg = msg
      /\ timer_running = TRUE
      /\ buffer = [msg |-> msg, time |-> timestamp]
  BY <1>1 DEF Sent
<1>3. StepsTyped /\ timed_out \in BOOLEAN
  BY DEF HandlerInv, StepsInv, Kinds
<1>4. /\ \A u \in Thread : u # t => pc[u] = "idle"
      /\ ~timed_out
      /\ timer_at # "set"
  BY <1>1, Alone DEF HandlerInv
<1>5. /\ pc'[t] = IF t = "callback" /\ msg.id = "ADD_PACKAGE"
                  THEN "forget" ELSE "idle"
      /\ \A u \in Thread : u # t => pc'[u] = "idle"
  BY <1>1, <1>2, <1>3, <1>4, Going
<1>6. ~Unfinished'
  BY <1>5 DEF Unfinished, InHandler
<1>7. Underway
  <2>1. Unfinished
    BY <1>1 DEF Unfinished, InHandler
  <2> QED
    BY <2>1, Running
<1> QED
  BY <1>1, <1>2, <1>3, <1>4, <1>5, <1>6, <1>7

(* A new message is sent, and its reply awaited. *)
LEMMA NewMessage ==
    ASSUME HandlerInv, NEW t \in Thread, NEW msg, Asking(t, msg), transmit(t)
    PROVE  /\ waitingBar' = [id       |-> Server!ReplyTo(msg.id),
                             conveyor |-> msg.conveyor]
           /\ timestampBar' = Handlers!NextTimestamp
           /\ pending_msgBar' = msg
           /\ timer_runningBar' = TRUE
           /\ air' = IF air = NoFrame
                     THEN [msg |-> msg, time |-> timestampBar'] ELSE air
           /\ Handlers!SendAndWait(msg, Server!ReplyTo(msg.id))
<1>1. Sent(t, msg)
  BY DEF Asking
<1>2. /\ Underway
      /\ ~Unfinished'
      /\ pending_msg' = msg
      /\ timer_running' = TRUE
      /\ air' = IF air = NoFrame
                THEN [msg |-> msg, time |-> timestamp'] ELSE air
      /\ UNCHANGED <<waiting, timestamp>>
      /\ pc[t] = "transmit"
  BY <1>1, Transmitting
<1>3. /\ waitingBar' = waiting' /\ timestampBar' = timestamp'
      /\ pending_msgBar' = pending_msg'
  BY <1>2 DEF waitingBar, timestampBar, pending_msgBar
<1>4. timer_runningBar' = (timer_running' \/ timer_at' = "set")
  BY <1>2 DEF timer_runningBar
<1>5. /\ waiting = [id       |-> Server!ReplyTo(msg.id),
                    conveyor |-> msg.conveyor]
      /\ timestamp = (before.timestamp + 1) % TIMESTAMP_MOD
  BY <1>2 DEF Asking
<1>6. timestampBar' = Handlers!NextTimestamp
  BY <1>2, <1>3, <1>5 DEF Handlers!NextTimestamp, Underway
<1>7. NoFrame = Handlers!NoFrame
  BY DEF NoFrame, Server!NoFrame, Handlers!NoFrame, Server!NoMessage,
         Handlers!NoMessage
<1>8. Handlers!SendAndWait(msg, Server!ReplyTo(msg.id))
  BY <1>2, <1>3, <1>4, <1>5, <1>6, <1>7
  DEF Handlers!SendAndWait, Handlers!send_message_to_driver
<1> QED
  BY <1>2, <1>3, <1>4, <1>5, <1>6, <1>8

(* Up to the frame a thread that sends changes nothing. *)
LEMMA SendQuiet ==
    ASSUME NEW t, send_message_to_driver(t), ~transmit(t)
    PROVE  SamePlant /\ UNCHANGED air
BY DEF send_message_to_driver, wait_for_message, increment_timestamp,
       check_pending, delete_pending, null_pending, new_pending, SetPending,
       start_timer, fill_header, fill_data, outside, plant, clock, SamePlant

LEMMA SendStutters ==
    ASSUME HandlerInv, NEW t \in Thread, NEW msg, Sent(t, msg),
           send_message_to_driver(t), ~transmit(t)
    PROVE  UNCHANGED Handlers!vars
<1>1. /\ pc[t] \in {"wait", "stamp"} \union Sending
      /\ \E l : Goto(t, l)
      /\ StepsTyped /\ JobTyped
  BY SendAt DEF HandlerInv, StepsInv, Kinds
<1>2. pc[t] # "transmit"
  BY DEF send_message_to_driver, wait_for_message, increment_timestamp,
         check_pending, delete_pending, null_pending, new_pending,
         start_timer, fill_header, fill_data, At
<1>3. Spared /\ pc'[t] \in Sending \union {"stamp"}
  BY <1>1, <1>2, SendSim
<1>4. InHandler(t) /\ InHandler(t)'
  BY <1>1, <1>3 DEF InHandler, Sending
<1> QED
  BY <1>1, <1>3, <1>4, InsideStutters, SendQuiet DEF Spared

(* The command is sent, or the state of its conveyor asked. *)
LEMMA TransmitQueue ==
    ASSUME HandlerInv, transmit("queue")
    PROVE  Handlers!handle_queue
<1>1. PICK cmd : cmd = command
  OBVIOUS
<1>2. PICK msg : msg = IF cmd.id = "ADD_PACKAGE" THEN StateRequest(cmd)
                       ELSE cmd
  OBVIOUS
<1>3. pc["queue"] = "transmit"
  BY DEF transmit, At
<1>4. /\ cmd \in Server!Command
      /\ before.flow_control = "CONTINUE"
      /\ flow_control = "STOP"
      /\ before.timed_out = FALSE
      /\ IF cmd.id = "ADD_PACKAGE"
         THEN pending_input = cmd /\ checking = TRUE
         ELSE /\ pending_input = before.pending_input
              /\ checking = before.checking
      /\ Asking("queue", msg)
  BY <1>1, <1>2, <1>3 DEF HandlerInv, QueueSim
<1>5. Sent("queue", msg)
  BY <1>4 DEF Asking
<1>6. /\ Underway
      /\ ~Unfinished'
      /\ pc["callback"] = "idle" /\ pc'["callback"] = "idle"
      /\ timer_running' = TRUE
      /\ timer_at' # "set"
      /\ timed_out' = FALSE
      /\ SamePlant
      /\ UNCHANGED <<antTx, uplink, flow_control, pending_input, checking>>
  BY <1>5, Transmitting, ThreadsDiffer
<1>7. AtRest'
  BY <1>6, RestingNext
<1>8. Handlers!SendAndWait(msg, Server!ReplyTo(msg.id))
  BY <1>4, NewMessage, ThreadsDiffer
<1>9. /\ flow_controlBar = "CONTINUE" /\ flow_controlBar' = "STOP"
      /\ UNCHANGED timed_outBar
      /\ IF cmd.id = "ADD_PACKAGE"
         THEN pending_inputBar' = cmd /\ checkingBar' = TRUE
         ELSE UNCHANGED <<pending_inputBar, checkingBar>>
  BY <1>4, <1>6, <1>7 DEF Underway, AtRest
<1>10. /\ antTxBar # <<>>
       /\ Head(antTxBar) = cmd
       /\ antTxBar' = Tail(antTxBar)
       /\ UNCHANGED uplinkBar
  <2>1. IsASeq(antTx)
    BY Proper DEF HandlerInv, Kinds
  <2>2. antTxBar = <<cmd>> \o antTx
    BY <1>1, <1>3 DEF antTxBar, InHandler
  <2>3. antTxBar' = antTx
    BY <1>6, ThreadsDiffer DEF antTxBar, Unfinished
  <2>4. uplinkBar' = uplinkBar
    BY <1>6 DEF uplinkBar, InHandler
  <2> QED
    BY <2>1, <2>2, <2>3, <2>4, InFront
<1>11. Handlers!send_ANT_message(cmd)
  <2>1. CASE cmd.id = "ADD_PACKAGE"
    <3>1. cmd \in Server!AddPackage
      BY <1>4, <2>1, CommandShape
    <3>2. msg = [id |-> "CONVEYOR_STATE", conveyor |-> cmd.conveyor,
                 uid |-> cmd.uid]
      BY <1>2, <2>1, <3>1, PackageShape
    <3>3. Server!ReplyTo(msg.id) = "CONVEYOR_STATE_RESPONSE"
      BY <3>2 DEF Server!ReplyTo
    <3> QED
      BY <1>8, <1>9, <2>1, <3>2, <3>3
      DEF Handlers!send_ANT_message, Handlers!send_conveyor_state_request
  <2>2. CASE cmd.id = "CLEAR_BOX"
    <3>1. Server!ReplyTo(msg.id) = "CLEAR_BOX_RESPONSE" /\ msg = cmd
      BY <1>2, <2>2 DEF Server!ReplyTo
    <3> QED
      BY <1>8, <1>9, <2>2, <3>1 DEF Handlers!send_ANT_message
  <2>3. CASE cmd.id \in PlainId
    <3>1. cmd.id \notin {"ADD_PACKAGE", "CLEAR_BOX", "CONVEYOR_STATE"}
      BY <2>3, StepsAssumption DEF Server!PlainMessage
    <3>2. Server!ReplyTo(msg.id) = cmd.id /\ msg = cmd
      BY <1>2, <3>1 DEF Server!ReplyTo
    <3> QED
      BY <1>8, <1>9, <2>3, <3>1, <3>2 DEF Handlers!send_ANT_message
  <2> QED
    BY <1>4, <2>1, <2>2, <2>3 DEF Server!Command, Server!AddPackage
<1> QED
  BY <1>6, <1>9, <1>10, <1>11
  DEF Handlers!handle_queue, Handlers!plant, Handlers!world, SamePlant

LEMMA QueueMaps ==
    ASSUME HandlerInv, queue_handler
    PROVE  Handlers!Next \/ UNCHANGED Handlers!vars
<1> USE DEF outside, fields, plant, clock, local, At
<1>1. StepsTyped /\ Kinds /\ QueueSim
  BY DEF HandlerInv, StepsInv
<1>2. CASE take_command
  <2>1. /\ antTx # <<>>
        /\ flow_control = "CONTINUE"
        /\ antTx' = Tail(antTx)
        /\ command' = Head(antTx)
        /\ Goto("queue", IF Head(antTx).id = "ADD_PACKAGE" THEN "hold"
                         ELSE "wait")
        /\ Remember
        /\ SamePlant
        /\ UNCHANGED <<uplink, air, got>>
    BY <1>2 DEF take_command, SamePlant
  <2>2. /\ \A u \in Thread : pc[u] = "idle"
        /\ ~Expired
    BY <2>1 DEF HandlerInv, StepsInv, OneReason, Idle
  <2>3. pc'["queue"] \in {"hold", "wait"} /\ pc'["callback"] = "idle"
    BY <1>1, <2>1, <2>2, Going, ThreadsDiffer
  <2>4. InHandler("queue")' /\ Unfinished' /\ ~Unfinished
    BY <2>2, <2>3, ThreadsDiffer DEF Unfinished, InHandler
  <2>5. UNCHANGED <<antTxBar, uplinkBar>>
    <3>1. IsASeq(antTx)
      BY <1>1, Proper DEF Kinds
    <3>2. antTxBar' = <<command'>> \o antTx' /\ antTxBar = antTx
      BY <2>4, ThreadsDiffer DEF antTxBar, Unfinished
    <3>3. uplinkBar' = uplink' /\ uplinkBar = uplink
      BY <2>2, <2>3, ThreadsDiffer DEF uplinkBar, InHandler
    <3> QED
      BY <2>1, <3>1, <3>2, <3>3, Reassembled
  <2>6. /\ pc["callback"] # "forget"
        /\ timer_at # "set"
        /\ {timer_running, timed_out} \subseteq BOOLEAN
    BY <1>1, <2>2, ThreadsDiffer DEF Kinds, Expired
  <2> QED
    BY <2>1, <2>4, <2>5, <2>6, BeginStutters
<1>3. CASE hold_package
  <2>1. /\ pc["queue"] = "hold"
        /\ Goto("queue", "wait")
        /\ SamePlant
        /\ UNCHANGED <<antTx, uplink, air, command, got, before>>
    BY <1>3 DEF hold_package, SamePlant
  <2>2. InHandler("queue") /\ InHandler("queue")'
    BY <1>1, <2>1, Going, ThreadsDiffer DEF InHandler
  <2> QED
    BY <1>1, <2>1, <2>2, InsideStutters, ThreadsDiffer
<1>4. CASE send_message_to_driver("queue") /\ ~transmit("queue")
  <2>1. pc["queue"] # "idle" /\ pc["queue"] # "hold"
    BY <1>4, SendAt DEF Sending
  <2>2. PICK msg : Asking("queue", msg)
    BY <1>1, <2>1 DEF QueueSim
  <2> QED
    BY <1>4, <2>2, SendStutters, ThreadsDiffer DEF Asking
<1>5. CASE transmit("queue")
  BY <1>5, TransmitQueue, OnTime DEF Handlers!Next
<1> QED
  BY <1>2, <1>3, <1>4, <1>5 DEF queue_handler
LEMMA FramesAgree ==
    /\ NoFrame = Handlers!NoFrame
    /\ NoMessage = Handlers!NoMessage
    /\ Server!NotWaiting = Handlers!NotWaiting
BY DEF NoFrame, Server!NoFrame, Handlers!NoFrame, NoMessage, Server!NoMessage,
       Handlers!NoMessage, Server!NotWaiting, Handlers!NotWaiting

(* The queues are as they are when neither handler that takes from one runs. *)
LEMMA QueuesAtRest ==
    ASSUME ~InHandler("queue"), ~InHandler("queue")',
           ~InHandler("callback"), ~InHandler("callback")'
    PROVE  /\ antTxBar = antTx /\ antTxBar' = antTx'
           /\ uplinkBar = uplink /\ uplinkBar' = uplink'
BY DEF antTxBar, uplinkBar

(* The message pending is sent again as it is. *)
LEMMA TransmitDriver ==
    ASSUME HandlerInv, transmit("driver")
    PROVE  Handlers!pending_message_timed_out
<1>1. PICK msg : msg = before.pending_msg
  OBVIOUS
<1>2. pc["driver"] = "transmit"
  BY DEF transmit, At
<1>3. /\ Sent("driver", msg)
      /\ before.timed_out = TRUE
      /\ flow_control = before.flow_control
      /\ pending_input = before.pending_input
      /\ checking = before.checking
      /\ waiting = before.waiting
      /\ timestamp = before.timestamp
  BY <1>1, <1>2 DEF HandlerInv, DriverSim
<1>4. /\ Underway
      /\ ~Unfinished'
      /\ pc["queue"] = "idle" /\ pc'["queue"] = "idle"
      /\ pc["callback"] = "idle" /\ pc'["callback"] = "idle"
      /\ pending_msg' = msg
      /\ timer_running' = TRUE
      /\ timer_at' # "set"
      /\ timed_out' = FALSE
      /\ air' = IF air = NoFrame
                THEN [msg |-> msg, time |-> timestamp'] ELSE air
      /\ SamePlant
      /\ UNCHANGED <<antTx, uplink, flow_control, pending_input, checking,
                     waiting, timestamp>>
  BY <1>3, Transmitting, ThreadsDiffer
<1>5. AtRest'
  BY <1>4, RestingNext
<1>6. UNCHANGED <<antTxBar, uplinkBar>>
  BY <1>4, QueuesAtRest DEF InHandler
<1>7. msg # NoMessage
  BY <1>3, MessageShape DEF Sent
<1>8. /\ timed_outBar /\ timed_outBar' = FALSE
      /\ pending_msgBar = msg /\ pending_msgBar' = msg
      /\ timer_runningBar' = TRUE
      /\ air' = IF air = NoFrame
                THEN [msg |-> msg, time |-> timestampBar] ELSE air
      /\ UNCHANGED <<flow_controlBar, pending_inputBar, checkingBar, waitingBar,
                     timestampBar>>
  BY <1>1, <1>3, <1>4, <1>5 DEF Underway, AtRest
<1> QED
  BY <1>4, <1>6, <1>7, <1>8, FramesAgree
  DEF Handlers!pending_message_timed_out, Handlers!send_message_to_driver,
      Handlers!plant, Handlers!world, SamePlant

(* There was none. *)
LEMMA NothingPending ==
    ASSUME HandlerInv, peek_pending, pending_msg = NoMessage
    PROVE  Handlers!pending_message_timed_out
<1> USE DEF outside, fields, plant, local, clock, At
<1>1. /\ pc["driver"] = "peek"
      /\ Goto("driver", "idle")
      /\ SamePlant
      /\ UNCHANGED <<antTx, uplink, flow_control, pending_msg, pending_input,
                     checking, waiting, timestamp, timer_running, timed_out,
                     air, timer_at>>
  BY DEF peek_pending, SamePlant
<1>2. StepsTyped /\ Kinds /\ DriverSim
  BY DEF HandlerInv, StepsInv
<1>3. /\ before.timed_out = TRUE
      /\ flow_control = before.flow_control
      /\ pending_input = before.pending_input
      /\ checking = before.checking
      /\ waiting = before.waiting
      /\ timestamp = before.timestamp
      /\ pending_msg = before.pending_msg
      /\ timer_running = before.timer_running
  BY <1>1, <1>2 DEF DriverSim
<1>4. /\ \A u \in Thread : u # "driver" => pc[u] = "idle"
      /\ ~timed_out
      /\ timer_at # "set"
  BY <1>1, Alone, ThreadsDiffer DEF HandlerInv
<1>5. \A u \in Thread : pc'[u] = "idle"
  BY <1>1, <1>2, <1>4, Going, ThreadsDiffer
<1>6. Unfinished /\ ~Unfinished'
  BY <1>1, <1>5, ThreadsDiffer DEF Unfinished, InHandler
<1>7. Underway
  BY <1>6, Running
<1>8. AtRest'
  BY <1>1, <1>2, <1>4, <1>5, <1>6, RestingNext, ThreadsDiffer DEF Kinds
<1>9. UNCHANGED <<antTxBar, uplinkBar>>
  BY <1>1, <1>4, <1>5, QueuesAtRest, ThreadsDiffer DEF InHandler
<1>10. timed_out = FALSE
  BY <1>2, <1>4 DEF Kinds
<1>11. /\ timed_outBar /\ timed_outBar' = FALSE
       /\ pending_msgBar = NoMessage
       /\ UNCHANGED <<flow_controlBar, pending_msgBar, pending_inputBar,
                      checkingBar, waitingBar, timestampBar, timer_runningBar>>
  BY <1>1, <1>3, <1>7, <1>8, <1>10 DEF Underway, AtRest
<1> QED
  BY <1>1, <1>9, <1>11, FramesAgree
  DEF Handlers!pending_message_timed_out, Handlers!plant, Handlers!world,
      SamePlant

LEMMA DriverMaps ==
    ASSUME HandlerInv, driver_loop
    PROVE  Handlers!Next \/ UNCHANGED Handlers!vars
<1> USE DEF outside, fields, plant, clock, local, At
<1>1. StepsTyped /\ Kinds /\ DriverSim
  BY DEF HandlerInv, StepsInv
<1>2. ASSUME pc["driver"] \notin {"idle", "forget"},
             NEW l \in {"copy", "read", "check"}, Goto("driver", l), SamePlant,
             UNCHANGED <<antTx, uplink, air, command, got, before>>
      PROVE  UNCHANGED Handlers!vars
  <2>1. InHandler("driver") /\ InHandler("driver")'
    BY <1>1, <1>2, Going, ThreadsDiffer DEF InHandler
  <2> QED
    BY <1>1, <1>2, <2>1, InsideStutters, ThreadsDiffer
<1>3. CASE notice_timeout
  <2>1. /\ timed_out
        /\ Goto("driver", "peek")
        /\ Remember
        /\ SamePlant
        /\ UNCHANGED <<antTx, uplink, air>>
    BY <1>3 DEF notice_timeout, SamePlant
  <2>2. /\ \A u \in Thread : pc[u] = "idle"
        /\ timer_at # "set"
    BY <2>1 DEF HandlerInv, StepsInv, OneReason, Idle, Expired, TimerInStep
  <2>3. /\ pc'["driver"] = "peek"
        /\ pc'["callback"] = "idle" /\ pc'["queue"] = "idle"
    BY <1>1, <2>1, <2>2, Going, ThreadsDiffer
  <2>4. Unfinished' /\ ~Unfinished
    BY <2>2, <2>3, ThreadsDiffer DEF Unfinished, InHandler
  <2>5. UNCHANGED <<antTxBar, uplinkBar>>
    BY <2>1, <2>2, <2>3, QueuesAtRest, ThreadsDiffer DEF InHandler
  <2>6. /\ pc["callback"] # "forget"
        /\ {timer_running, timed_out} \subseteq BOOLEAN
    BY <1>1, <2>2, ThreadsDiffer DEF Kinds
  <2> QED
    BY <2>1, <2>2, <2>4, <2>5, <2>6, BeginStutters
<1>4. CASE peek_pending
  <2>1. CASE pending_msg = NoMessage
    BY <1>4, <2>1, NothingPending, OnTime DEF Handlers!Next
  <2>2. CASE pending_msg # NoMessage
    BY <1>2, <1>4, <2>2 DEF peek_pending, SamePlant
  <2> QED
    BY <2>1, <2>2
<1>5. CASE copy_pending
  BY <1>2, <1>5 DEF copy_pending, SamePlant
<1>6. CASE read_timestamp
  BY <1>2, <1>6 DEF read_timestamp, SamePlant
<1>7. CASE send_message_to_driver("driver") /\ ~transmit("driver")
  <2>1. pc["driver"] \in {"wait", "stamp"} \union Sending
    BY <1>7, SendAt
  <2>2. PICK msg : Sent("driver", msg)
    BY <1>1, <2>1 DEF DriverSim, Sending
  <2> QED
    BY <1>7, <2>2, SendStutters, ThreadsDiffer
<1>8. CASE transmit("driver")
  BY <1>8, TransmitDriver, OnTime DEF Handlers!Next
<1> QED
  BY <1>3, <1>4, <1>5, <1>6, <1>7, <1>8 DEF driver_loop

LEMMA TimerMaps ==
    ASSUME HandlerInv, ~early', timer
    PROVE  Handlers!Next \/ UNCHANGED Handlers!vars
<1> USE DEF outside, fields, plant, local
<1>1. /\ SamePlant
      /\ UNCHANGED <<antTx, uplink, flow_control, pending_msg, pending_input,
                     checking, waiting, timestamp, air, pc, command, got,
                     before>>
  BY OnTime
  DEF timer, enter_loop, leave_loop, time_passes, test_running, clear_running,
      Set_timeout, Tick, SamePlant
<1>2. /\ \A t \in Thread : InHandler(t) <=> InHandler(t)'
      /\ Unfinished <=> Unfinished'
      /\ UNCHANGED <<antTxBar, uplinkBar>>
  BY <1>1 DEF InHandler, Unfinished, antTxBar, uplinkBar
<1>3. timer_running \in BOOLEAN /\ timed_out \in BOOLEAN
  BY DEF HandlerInv, Kinds
<1>4. NoMessage' = NoMessage
  BY DEF NoMessage, Server!NoMessage
<1>5. UNCHANGED <<flow_controlBar, pending_msgBar, pending_inputBar,
                  checkingBar, waitingBar, timestampBar>>
  BY <1>1, <1>2, <1>4
  DEF flow_controlBar, pending_msgBar, pending_inputBar, checkingBar,
      waitingBar, timestampBar
<1>6. ASSUME timed_out' = timed_out,
             (timer_running' \/ timer_at' = "set")
                = (timer_running \/ timer_at = "set")
      PROVE  UNCHANGED Handlers!vars
  <2>1. UNCHANGED <<timer_runningBar, timed_outBar>>
    BY <1>1, <1>2, <1>6 DEF timer_runningBar, timed_outBar
  <2> QED
    BY <1>1, <1>2, <1>5, <2>1, Stuttering DEF SameBars
<1>7. CASE enter_loop
  BY <1>3, <1>6, <1>7 DEF enter_loop, Tick
<1>8. CASE leave_loop
  BY <1>3, <1>6, <1>8 DEF leave_loop, Tick
<1>9. CASE time_passes
  BY <1>3, <1>6, <1>9 DEF time_passes, Tick
<1>10. CASE test_running
  BY <1>3, <1>6, <1>10 DEF test_running, Tick
<1>11. CASE clear_running
  <2>1. timer_at = "clear" /\ timer_at' = "set" /\ timed_out' = timed_out
    BY <1>11 DEF clear_running, Tick
  <2>2. timer_running
    BY <2>1 DEF HandlerInv, StepsInv, TimerInStep
  <2> QED
    BY <1>6, <2>1, <2>2
<1>12. CASE Set_timeout
  <2>1. /\ timer_at = "set" /\ timer_at' = "out"
        /\ timed_out' = TRUE
        /\ timer_running' = timer_running
    BY <1>12 DEF Set_timeout, Tick
  <2>2. Idle /\ Server!NothingInFlight /\ ~timer_running
    BY <2>1 DEF HandlerInv, StepsInv, OneReason, Expired, TimerInStep
  <2>3. ~Unfinished /\ ~InHandler("callback")
    BY <2>2, ThreadsDiffer DEF Idle, Unfinished, InHandler
  <2>4. /\ timer_runningBar = TRUE
        /\ timer_runningBar' = FALSE
        /\ timed_outBar' = TRUE
    BY <1>2, <1>3, <2>1, <2>2, <2>3 DEF timer_runningBar, timed_outBar
  <2>5. Handlers!NothingInFlight
    <3>1. uplinkBar = uplink
      BY <2>3 DEF uplinkBar
    <3> QED
      BY <2>2, <3>1, FramesAgree
      DEF Handlers!NothingInFlight, Server!NothingInFlight, NoFrame
  <2>6. Handlers!timer_expires
    BY <1>1, <1>2, <1>5, <2>4, <2>5, OnTime
    DEF Handlers!timer_expires, Handlers!server, Handlers!plant, SamePlant
  <2> QED
    BY <2>6, OnTime DEF Handlers!Next
<1> QED
  BY <1>7, <1>8, <1>9, <1>10, <1>11, <1>12 DEF timer
------------------------------------------------------------------------------
(* The environment *)

(* A frame on its way is for a conveyor. *)
AirTyped == air # NoFrame => air.msg.conveyor \in ConveyorId

LEMMA Transmitted ==
    ASSUME HandlerInv, NEW t \in Thread, transmit(t)
    PROVE  \E msg : Sent(t, msg)
<1>1. pc[t] = "transmit"
  BY DEF transmit, At
<1>2. CASE t = "queue"
  BY <1>1, <1>2 DEF HandlerInv, QueueSim, Asking
<1>3. CASE t = "callback"
  <2>1. ~Ending
    BY <1>1, <1>3 DEF Ending
  <2>2. Asking("callback", NextMessage)
    BY <1>1, <1>3, <2>1 DEF HandlerInv, CallbackSim
  <2> QED
    BY <1>3, <2>2 DEF Asking
<1>4. CASE t = "driver"
  BY <1>1, <1>4 DEF HandlerInv, DriverSim
<1> QED
  BY <1>2, <1>3, <1>4, ThreadsDiffer

LEMMA AirKept ==
    ASSUME HandlerInv, AirTyped, [Next]_vars
    PROVE  AirTyped'
<1> USE DEF Server!server, Server!timer, Server!plant, Server!world, vars
<1>1. NoFrame' = NoFrame
  BY DEF NoFrame, Server!NoFrame, Server!NoMessage
<1>2. ASSUME air' \in {air, NoFrame} PROVE AirTyped'
  BY <1>1, <1>2 DEF AirTyped
<1>3. ASSUME NEW t \in Thread, transmit(t) PROVE AirTyped'
  <2>1. PICK msg : Sent(t, msg)
    BY <1>3, Transmitted
  <2>2. air' = IF air = NoFrame THEN [msg |-> msg, time |-> timestamp']
               ELSE air
    BY <1>3, <2>1, Transmitting
  <2>3. msg.conveyor \in ConveyorId
    BY <2>1, StepsAssumption
    DEF Sent, Server!Message, Server!Command, Server!AddPackage,
        Server!StateRequest
  <2> QED
    BY <1>1, <2>2, <2>3 DEF AirTyped
<1>4. ASSUME NEW t \in Thread, send_message_to_driver(t) PROVE AirTyped'
  <2>1. CASE transmit(t)
    BY <1>3, <2>1
  <2>2. CASE ~transmit(t)
    BY <1>2, <1>4, <2>2, SendQuiet
  <2> QED
    BY <2>1, <2>2
<1>5. CASE queue_handler
  BY <1>2, <1>4, <1>5, ThreadsDiffer DEF queue_handler, take_command, hold_package
<1>6. ASSUME NEW c \in ConveyorId, take_reply(c) \/ take_arrival(c)
      PROVE  AirTyped'
  BY <1>2, <1>6
  DEF take_reply, take_arrival, Server!receive_PACKAGE_ARRIVED
<1>7. CASE callback
  BY <1>2, <1>4, <1>7, ThreadsDiffer
  DEF callback, stop_timer, reset_waiting, continue_flow_control,
      received_input_conveyor_state, forget_package
<1>8. CASE driver_loop
  BY <1>2, <1>4, <1>8, ThreadsDiffer
  DEF driver_loop, notice_timeout, peek_pending, copy_pending, read_timestamp
<1>9. CASE timer
  BY <1>2, <1>9
  DEF timer, enter_loop, leave_loop, time_passes, test_running, clear_running,
      Set_timeout, Tick
<1>10. CASE environment
  BY <1>2, <1>10
  DEF environment, Server!enqueue_message, Server!air_loses, Server!deliver,
      Server!uplink_loses, Server!package_arrives, NoFrame
<1>11. CASE UNCHANGED vars
  BY <1>2, <1>11
<1> QED
  BY <1>5, <1>6, <1>7, <1>8, <1>9, <1>10, <1>11 DEF Next

(* What is outside leaves the threads where they are. *)
LEMMA OutsideBars ==
    ASSUME UNCHANGED <<flow_control, pending_msg, pending_input, checking,
                       waiting, timestamp, timer_running, timed_out, steps>>
    PROVE  /\ SameBars
           /\ Unfinished <=> Unfinished'
           /\ \A t \in Thread : InHandler(t) <=> InHandler(t)'
           /\ UNCHANGED <<command, got>>
<1> USE DEF steps, local, clock
<1>1. /\ \A t : InHandler(t) <=> InHandler(t)'
      /\ Unfinished <=> Unfinished'
  BY DEF InHandler, Unfinished
<1>2. NoMessage' = NoMessage
  BY DEF NoMessage, Server!NoMessage
<1>3. SameBars
  BY <1>1, <1>2
  DEF SameBars, flow_controlBar, pending_msgBar, pending_inputBar,
      checkingBar, waitingBar, timestampBar, timer_runningBar, timed_outBar
<1> QED
  BY <1>1, <1>3

(* A reply that is taken or lost, and not the one that is handled. *)
LEMMA BarTailed ==
    ASSUME UplinkTyped, NEW c \in ConveyorId, uplink[c] # <<>>,
           uplink' = [uplink EXCEPT ![c] = Tail(@)],
           InHandler("callback") <=> InHandler("callback")', UNCHANGED got,
           InHandler("callback") => c # got.conveyor
    PROVE  /\ uplinkBar[c] = uplink[c]
           /\ uplinkBar' = [uplinkBar EXCEPT ![c] = Tail(@)]
BY DEF uplinkBar, UplinkTyped

(* A reply that comes behind the others. *)
LEMMA BarAppended ==
    ASSUME UplinkTyped, NEW c \in ConveyorId, NEW e,
           Len(uplink[c]) < MaxUplink,
           uplink' = [uplink EXCEPT ![c] = Append(@, e)],
           InHandler("callback") <=> InHandler("callback")', UNCHANGED got
    PROVE  /\ Len(uplinkBar[c]) < MaxUplink + 1
           /\ uplinkBar' = [uplinkBar EXCEPT ![c] = Append(@, e)]
<1>1. IsASeq(uplink[c]) /\ MaxUplink \in Nat
  BY StepsAssumption DEF UplinkTyped
<1>2. Len(uplink[c]) \in Nat
  BY <1>1, BehindFront
<1>3. CASE ~InHandler("callback")
  BY <1>1, <1>2, <1>3 DEF uplinkBar
<1>4. CASE InHandler("callback")
  <2>1. /\ uplinkBar = [uplink EXCEPT ![got.conveyor] = <<got.reply>> \o @]
        /\ uplinkBar' = [uplink' EXCEPT ![got.conveyor] = <<got.reply>> \o @]
    BY <1>4 DEF uplinkBar
  <2>2. /\ <<got.reply>> \o Append(uplink[c], e)
              = Append(<<got.reply>> \o uplink[c], e)
        /\ Len(<<got.reply>> \o uplink[c]) = Len(uplink[c]) + 1
    BY <1>1, BehindFront
  <2>3. \A d \in ConveyorId :
           uplinkBar[d] = IF d = got.conveyor THEN <<got.reply>> \o uplink[d]
                          ELSE uplink[d]
    BY <2>1 DEF UplinkTyped
  <2>4. \A d \in ConveyorId :
           uplink'[d] = IF d = c THEN Append(uplink[c], e) ELSE uplink[d]
    BY DEF UplinkTyped
  <2>5. uplinkBar' = [uplinkBar EXCEPT ![c] = Append(@, e)]
    <3>1. uplinkBar' = [d \in ConveyorId |->
                          IF d = got.conveyor THEN <<got.reply>> \o uplink'[d]
                          ELSE uplink'[d]]
      BY <2>1 DEF UplinkTyped
    <3>2. [uplinkBar EXCEPT ![c] = Append(@, e)]
            = [d \in ConveyorId |->
                 IF d = c THEN Append(uplinkBar[c], e) ELSE uplinkBar[d]]
      BY <2>1 DEF UplinkTyped
    <3>3. ASSUME NEW d \in ConveyorId
          PROVE  (IF d = got.conveyor THEN <<got.reply>> \o uplink'[d]
                  ELSE uplink'[d])
                 = IF d = c THEN Append(uplinkBar[c], e) ELSE uplinkBar[d]
      <4>1. CASE d = c
        BY <2>2, <2>3, <2>4, <4>1
      <4>2. CASE d # c
        BY <2>3, <2>4, <4>2
      <4> QED
        BY <4>1, <4>2
    <3> QED
      BY <3>1, <3>2, <3>3
  <2>6. Len(uplinkBar[c]) < MaxUplink + 1
    <3>1. uplinkBar[c] = uplink[c] \/ uplinkBar[c] = <<got.reply>> \o uplink[c]
      BY <2>3
    <3> QED
      BY <1>1, <1>2, <2>2, <3>1
  <2> QED
    BY <2>5, <2>6
<1> QED
  BY <1>3, <1>4

LEMMA EnvironmentMaps ==
    ASSUME HandlerInv, AirTyped, environment
    PROVE  Handlers!Next \/ UNCHANGED Handlers!vars
<1> USE DEF Server!server, Server!timer, Server!plant, Server!world,
            Handlers!server, Handlers!timer, Handlers!plant, Handlers!world
<1>1. UNCHANGED steps /\ UplinkTyped
  BY DEF environment, HandlerInv, StepsInv, StepsTyped
<1>2. ASSUME UNCHANGED <<flow_control, pending_msg, pending_input, checking,
                         waiting, timestamp, timer_running, timed_out>>
      PROVE  /\ SameBars
             /\ Unfinished <=> Unfinished'
             /\ InHandler("queue") <=> InHandler("queue")'
             /\ InHandler("callback") <=> InHandler("callback")'
             /\ UNCHANGED <<command, got>>
             /\ UNCHANGED antTx => UNCHANGED antTxBar
             /\ UNCHANGED uplink => UNCHANGED uplinkBar
  <2>1. /\ SameBars
        /\ Unfinished <=> Unfinished'
        /\ InHandler("queue") <=> InHandler("queue")'
        /\ InHandler("callback") <=> InHandler("callback")'
        /\ UNCHANGED <<command, got>>
    BY <1>1, <1>2, OutsideBars, ThreadsDiffer
  <2> QED
    BY <2>1 DEF antTxBar, uplinkBar
<1>3. ASSUME NEW msg \in Server!Command, Server!enqueue_message(msg)
      PROVE  Handlers!Next
  <2>1. /\ msg.uid = submitted + 1
        /\ submitted' = submitted + 1
        /\ antTx' = Append(antTx, msg)
        /\ UNCHANGED <<flow_control, pending_msg, pending_input, checking,
                       waiting, timestamp, timer_running, timed_out, uplink,
                       antRx, air, last_seen, executed, arrivals, busy,
                       early>>
    BY <1>3 DEF Server!enqueue_message
  <2>2. antTxBar' = Append(antTxBar, msg)
    <3>1. IsASeq(antTx)
      BY Proper DEF HandlerInv, Kinds
    <3> QED
      BY <1>2, <2>1, <3>1, BehindFront DEF antTxBar
  <2>3. SameBars /\ UNCHANGED uplinkBar
    BY <1>2, <2>1
  <2>4. Handlers!enqueue_message(msg)
    BY <2>1, <2>2, <2>3 DEF Handlers!enqueue_message, SameBars
  <2>5. msg \in Handlers!Command
    BY DEF Server!Command, Handlers!Command, Server!AddPackage,
           Handlers!AddPackage, Server!Uid, Handlers!Uid,
           Server!INPUT_CONVEYOR_ID, Handlers!INPUT_CONVEYOR_ID
  <2> QED
    BY <2>4, <2>5, OnTime DEF Handlers!Next
<1>4. CASE Server!air_loses
  <2>1. /\ air # NoFrame /\ air' = NoFrame
        /\ SamePlant
        /\ UNCHANGED <<flow_control, pending_msg, pending_input, checking,
                       waiting, timestamp, timer_running, timed_out, antTx,
                       uplink>>
    BY <1>4 DEF Server!air_loses, NoFrame, SamePlant
  <2>2. SameBars /\ UNCHANGED <<antTxBar, uplinkBar>>
    BY <1>2, <2>1
  <2>3. Handlers!air_loses
    BY <2>1, <2>2, FramesAgree DEF Handlers!air_loses, SameBars, SamePlant
  <2> QED
    BY <2>3, OnTime DEF Handlers!Next
<1>5. CASE Server!deliver
  <2>1. PICK reply \in Server!Replies(air.msg) :
           /\ uplink' = [uplink EXCEPT ![air.msg.conveyor] = Append(@, reply)]
           /\ busy' = IF Server!Unavailable(reply) THEN busy + 1 ELSE busy
    BY <1>5 DEF Server!deliver
  <2>2. /\ air # NoFrame /\ air' = NoFrame
        /\ Len(uplink[air.msg.conveyor]) < MaxUplink
        /\ last_seen' = [last_seen EXCEPT ![air.msg.conveyor] = air]
        /\ executed' = IF air.msg.id = "CONVEYOR_STATE" THEN executed
                       ELSE executed \union {air.msg.uid}
        /\ UNCHANGED <<flow_control, pending_msg, pending_input, checking,
                       waiting, timestamp, timer_running, timed_out, antTx,
                       antRx, arrivals, early, submitted>>
    BY <1>5 DEF Server!deliver, NoFrame
  <2>3. air.msg.conveyor \in ConveyorId
    BY <2>2 DEF AirTyped
  <2>4. SameBars /\ UNCHANGED antTxBar
    BY <1>2, <2>2
  <2>5. /\ Len(uplinkBar[air.msg.conveyor]) < MaxUplink + 1
        /\ uplinkBar' = [uplinkBar EXCEPT ![air.msg.conveyor] =
                            Append(@, reply)]
    BY <1>1, <1>2, <2>1, <2>2, <2>3, BarAppended
  <2>6. reply \in Handlers!Replies(air.msg)
    BY <2>1 DEF Server!Replies, Handlers!Replies
  <2>7. busy' = IF Handlers!Unavailable(reply) THEN busy + 1 ELSE busy
    BY <2>1 DEF Server!Unavailable, Handlers!Unavailable
  <2>8. Handlers!deliver
    BY <2>2, <2>4, <2>5, <2>6, <2>7, FramesAgree
    DEF Handlers!deliver, SameBars
  <2> QED
    BY <2>8, OnTime DEF Handlers!Next
<1>6. ASSUME NEW c \in ConveyorId, Server!uplink_loses(c),
             InHandler("callback") => c # got.conveyor
      PROVE  Handlers!Next
  <2>1. /\ uplink[c] # <<>>
        /\ uplink' = [uplink EXCEPT ![c] = Tail(@)]
        /\ SamePlant
        /\ UNCHANGED <<flow_control, pending_msg, pending_input, checking,
                       waiting, timestamp, timer_running, timed_out, antTx,
                       air>>
    BY <1>6 DEF Server!uplink_loses, SamePlant
  <2>2. SameBars /\ UNCHANGED antTxBar
    BY <1>2, <2>1
  <2>3. /\ uplinkBar[c] = uplink[c]
        /\ uplinkBar' = [uplinkBar EXCEPT ![c] = Tail(@)]
    BY <1>1, <1>2, <1>6, <2>1, BarTailed
  <2>4. Handlers!uplink_loses(c)
    BY <2>1, <2>2, <2>3 DEF Handlers!uplink_loses, SameBars, SamePlant
  <2> QED
    BY <2>4, OnTime DEF Handlers!Next
<1>7. ASSUME NEW c \in ConveyorId, Server!package_arrives(c)
      PROVE  Handlers!Next
  <2>1. PICK e : e = [id |-> "PACKAGE_ARRIVED"]
    OBVIOUS
  <2>2. /\ arrivals < MaxArrivals
        /\ Len(uplink[c]) < MaxUplink
        /\ arrivals' = arrivals + 1
        /\ uplink' = [uplink EXCEPT ![c] = Append(@, e)]
        /\ UNCHANGED <<flow_control, pending_msg, pending_input, checking,
                       waiting, timestamp, timer_running, timed_out, antTx,
                       antRx, air, last_seen, executed, busy, early,
                       submitted>>
    BY <1>7, <2>1 DEF Server!package_arrives
  <2>3. SameBars /\ UNCHANGED antTxBar
    BY <1>2, <2>2
  <2>4. /\ Len(uplinkBar[c]) < MaxUplink + 1
        /\ uplinkBar' = [uplinkBar EXCEPT ![c] = Append(@, e)]
    BY <1>1, <1>2, <2>2, BarAppended
  <2>5. Handlers!package_arrives(c)
    BY <2>1, <2>2, <2>3, <2>4 DEF Handlers!package_arrives, SameBars
  <2> QED
    BY <2>5, OnTime DEF Handlers!Next
<1> QED
  BY <1>3, <1>4, <1>5, <1>6, <1>7 DEF environment

LEMMA ArrivalMaps ==
    ASSUME HandlerInv, NEW c \in ConveyorId, take_arrival(c)
    PROVE  Handlers!Next
<1> USE DEF Server!server, Server!timer, Server!plant, Server!world,
            Handlers!server, Handlers!timer, Handlers!plant, Handlers!world
<1>1. UplinkTyped
  BY DEF HandlerInv, StepsInv, StepsTyped
<1>2. /\ pc["callback"] = "idle"
      /\ uplink[c] # <<>>
      /\ Head(uplink[c]).id = "PACKAGE_ARRIVED"
      /\ uplink' = [uplink EXCEPT ![c] = Tail(@)]
      /\ antRx' = Append(antRx, [reply  |-> Head(uplink[c]),
                                 length |-> Server!PACKAGE_ARRIVED_LENGTH])
      /\ UNCHANGED <<flow_control, pending_msg, pending_input, checking,
                     waiting, timestamp, timer_running, timed_out, antTx, air,
                     last_seen, executed, arrivals, busy, early, submitted,
                     steps>>
  BY DEF take_arrival, Server!receive_PACKAGE_ARRIVED, Server!TakeReply, At
<1>3. /\ SameBars
      /\ \A t \in Thread : InHandler(t) <=> InHandler(t)'
      /\ UNCHANGED <<command, got>>
  BY <1>2, OutsideBars
<1>4. ~InHandler("callback")
  BY <1>2 DEF InHandler
<1>5. UNCHANGED antTxBar
  BY <1>2, <1>3, ThreadsDiffer DEF antTxBar
<1>6. /\ uplinkBar[c] = uplink[c]
      /\ uplinkBar' = [uplinkBar EXCEPT ![c] = Tail(@)]
  BY <1>1, <1>2, <1>3, <1>4, BarTailed, ThreadsDiffer
<1>7. Handlers!receive_PACKAGE_ARRIVED(c)
  BY <1>2, <1>3, <1>5, <1>6
  DEF Handlers!receive_PACKAGE_ARRIVED, Handlers!TakeReply, SameBars,
      Handlers!PACKAGE_ARRIVED_LENGTH, Server!PACKAGE_ARRIVED_LENGTH
<1> QED
  BY <1>7, OnTime DEF Handlers!Next, Handlers!receive_ANT_message
------------------------------------------------------------------------------
(* The replies: those that nothing waits for, and those that end something *)

LEMMA IgnoredMaps ==
    ASSUME HandlerInv, NEW c \in ConveyorId, take_reply(c),
           UNCHANGED <<got, pc, before>>, ~Awaited(c, Head(uplink[c]))
    PROVE  Handlers!receive_ANT_message(c)
<1> USE DEF Handlers!server, Handlers!plant, Handlers!world, outside, plant,
            fields, clock
<1>1. /\ pc["callback"] = "idle"
      /\ uplink[c] # <<>>
      /\ Head(uplink[c]).id # "PACKAGE_ARRIVED"
      /\ uplink' = [uplink EXCEPT ![c] = Tail(@)]
      /\ SamePlant
      /\ UNCHANGED <<antTx, air, flow_control, pending_msg, pending_input,
                     checking, waiting, timestamp, timer_running, timed_out,
                     command, steps>>
  BY DEF take_reply, SamePlant, steps, local, At
<1>2. StepsTyped /\ Kinds /\ UplinkTyped /\ OneOnItsWay
  BY DEF HandlerInv, StepsInv, StepsTyped
<1>3. /\ SameBars
      /\ \A t \in Thread : InHandler(t) <=> InHandler(t)'
      /\ UNCHANGED <<command, got>>
  BY <1>1, OutsideBars
<1>4. /\ ~InHandler("callback")
      /\ uplinkBar[c] = uplink[c]
      /\ uplinkBar' = [uplinkBar EXCEPT ![c] = Tail(@)]
      /\ UNCHANGED antTxBar
  <2>1. ~InHandler("callback")
    BY <1>1 DEF InHandler
  <2> QED
    BY <1>1, <1>2, <1>3, <2>1, BarTailed, ThreadsDiffer DEF antTxBar
<1>5. waitingBar = waiting
  <2>1. ~Server!NothingInFlight
    BY <1>1, <1>2, LastTaken
  <2>2. ~Unfinished
    BY <2>1 DEF HandlerInv, StepsInv, OneReason
  <2> QED
    BY <2>2 DEF waitingBar
<1>6. PICK reply : reply = Head(uplink[c])
  OBVIOUS
<1>7. reply.id \in ReplyId \ {"PACKAGE_ARRIVED"}
  <2>1. IsASeq(uplink[c])
    BY <1>2 DEF UplinkTyped
  <2>2. 1 \in DOMAIN uplink[c] /\ reply = uplink[c][1]
    BY <1>1, <1>6, <2>1, Tailing
  <2> QED
    BY <1>1, <1>2, <1>6, <2>2 DEF Kinds, RepliesTyped
<1>8. Handlers!TakeReply(c, reply.id) /\ Handlers!Ignored
  BY <1>1, <1>3, <1>4, <1>6
  DEF Handlers!TakeReply, Handlers!Ignored, SameBars, SamePlant
<1>9. CASE reply.id = "MESSAGE_RECEIVED"
  <2>1. ~Server!AwaitsReceipt(reply)
    BY <1>6, <1>9 DEF Awaited
  <2>2. ~Handlers!AwaitsReceipt(Head(uplinkBar[c]))
    BY <1>4, <1>5, <1>6, <2>1
    DEF Handlers!AwaitsReceipt, Server!AwaitsReceipt
  <2>3. Handlers!receive_MESSAGE_RECEIVED(c)
    BY <1>8, <1>9, <2>2 DEF Handlers!receive_MESSAGE_RECEIVED
  <2> QED
    BY <2>3 DEF Handlers!receive_ANT_message
<1>10. CASE reply.id = "CONVEYOR_STATE_RESPONSE"
  <2>1. ~Server!AwaitsState(c)
    BY <1>6, <1>10 DEF Awaited
  <2>2. ~Handlers!AwaitsState(c)
    BY <1>5, <2>1 DEF Handlers!AwaitsState, Server!AwaitsState
  <2>3. Handlers!receive_CONVEYOR_STATE_ignored(c)
    BY <1>8, <1>10, <2>2 DEF Handlers!receive_CONVEYOR_STATE_ignored
  <2> QED
    BY <2>3 DEF Handlers!receive_ANT_message
<1>11. CASE reply.id = "CLEAR_BOX_RESPONSE"
  <2>1. waitingBar.id # "CLEAR_BOX_RESPONSE"
    BY <1>5, <1>6, <1>11 DEF Awaited
  <2>2. Handlers!receive_CLEAR_BOX_RESPONSE(c)
    BY <1>8, <1>11, <2>1 DEF Handlers!receive_CLEAR_BOX_RESPONSE
  <2> QED
    BY <2>2 DEF Handlers!receive_ANT_message
<1> QED
  BY <1>7, <1>9, <1>10, <1>11 DEF ReplyId

LEMMA ReplyMaps ==
    ASSUME HandlerInv, NEW c \in ConveyorId, take_reply(c)
    PROVE  Handlers!Next \/ UNCHANGED Handlers!vars
<1> USE DEF outside, fields, plant, clock, local, At
<1>1. StepsTyped /\ Kinds /\ UplinkTyped /\ OneOnItsWay
  BY DEF HandlerInv, StepsInv, StepsTyped
<1>2. CASE /\ ~Awaited(c, Head(uplink[c]))
           /\ UNCHANGED <<got, pc, before>>
  BY <1>2, IgnoredMaps, OnTime DEF Handlers!Next
<1>3. CASE /\ got' = [conveyor |-> c, reply |-> Head(uplink[c])]
           /\ Goto("callback", "stop")
           /\ Remember
  <2>1. /\ pc["callback"] = "idle"
        /\ uplink[c] # <<>>
        /\ Head(uplink[c]).id # "PACKAGE_ARRIVED"
        /\ uplink' = [uplink EXCEPT ![c] = Tail(@)]
        /\ SamePlant
        /\ UNCHANGED <<antTx, air, command>>
    BY DEF take_reply, SamePlant
  <2>2. ~Server!NothingInFlight
    BY <1>1, <2>1, LastTaken
  <2>3. ~Unfinished /\ ~Expired
    BY <2>2 DEF HandlerInv, StepsInv, OneReason
  <2>4. pc'["callback"] = "stop" /\ pc'["queue"] = pc["queue"]
    BY <1>1, <1>3, Going, ThreadsDiffer
  <2>5. InHandler("callback")' /\ Unfinished' /\ ~InHandler("callback")
    BY <2>1, <2>4, ThreadsDiffer DEF Unfinished, InHandler
  <2>6. UNCHANGED antTxBar
    BY <2>1, <2>4 DEF antTxBar, InHandler
  <2>7. UNCHANGED uplinkBar
    <3>1. IsASeq(uplink[c])
      BY <1>1 DEF UplinkTyped
    <3>2. <<Head(uplink[c])>> \o Tail(uplink[c]) = uplink[c]
      BY <2>1, <3>1, Reassembled
    <3>3. uplinkBar' = [uplink' EXCEPT ![c] = <<Head(uplink[c])>> \o @]
      BY <1>3, <2>5 DEF uplinkBar
    <3>4. uplinkBar = uplink
      BY <2>5 DEF uplinkBar
    <3>5. uplink'[c] = Tail(uplink[c])
      BY <1>1, <2>1 DEF UplinkTyped
    <3>6. \A d \in ConveyorId : d # c => uplink'[d] = uplink[d]
      BY <1>1, <2>1 DEF UplinkTyped
    <3>7. uplink' = [d \in ConveyorId |-> uplink'[d]]
      BY <1>1, <2>1 DEF UplinkTyped
    <3>8. uplinkBar' = [d \in ConveyorId |-> uplink[d]]
      BY <3>2, <3>3, <3>5, <3>6, <3>7
    <3> QED
      BY <1>1, <3>4, <3>8 DEF UplinkTyped
  <2>8. /\ pc["callback"] # "forget"
        /\ timer_at # "set"
        /\ {timer_running, timed_out} \subseteq BOOLEAN
    BY <1>1, <2>1, <2>3 DEF Kinds, Expired
  <2> QED
    BY <1>3, <2>1, <2>3, <2>5, <2>6, <2>7, <2>8, BeginStutters
<1> QED
  BY <1>2, <1>3 DEF take_reply

(* The reply that is handled is the next one, and is taken when it has its *)
(* effect. *)
LEMMA Handled ==
    ASSUME HandlerInv, InHandler("callback"), ~InHandler("callback")',
           pc["queue"] = "idle", pc'["queue"] = "idle", pc'["driver"] = "idle",
           got.conveyor \in ConveyorId,
           before.timed_out = FALSE,
           timed_out' = FALSE,
           last_seen' = last_seen, executed' = executed, arrivals' = arrivals,
           busy' = busy, early' = early, submitted' = submitted,
           UNCHANGED <<antTx, uplink>>
    PROVE  /\ Handlers!TakeReply(got.conveyor, got.reply.id)
           /\ Head(uplinkBar[got.conveyor]) = got.reply
<1>1. UplinkTyped
  BY DEF HandlerInv, StepsInv, StepsTyped
<1>2. PICK c \in ConveyorId : c = got.conveyor
  OBVIOUS
<1>3. IsASeq(uplink[c])
  BY <1>1 DEF UplinkTyped
<1>4. /\ uplinkBar = [uplink EXCEPT ![c] = <<got.reply>> \o @]
      /\ uplinkBar' = uplink
  BY <1>2 DEF uplinkBar
<1>5. uplinkBar[c] = <<got.reply>> \o uplink[c]
  BY <1>1, <1>4 DEF UplinkTyped
<1>6. /\ uplinkBar[c] # <<>>
      /\ Head(uplinkBar[c]) = got.reply
      /\ Tail(uplinkBar[c]) = uplink[c]
  BY <1>3, <1>5, InFront
<1>7. uplinkBar' = [uplinkBar EXCEPT ![c] = Tail(@)]
  BY <1>1, <1>4, <1>6 DEF UplinkTyped
<1>8. UNCHANGED antTxBar
  BY DEF antTxBar, InHandler
<1>9. UNCHANGED timed_outBar
  <2>1. Unfinished /\ ~Unfinished'
    BY ThreadsDiffer DEF Unfinished, InHandler
  <2> QED
    BY <2>1 DEF timed_outBar
<1> QED
  BY <1>2, <1>6, <1>7, <1>8, <1>9
  DEF Handlers!TakeReply, Handlers!plant, Handlers!world
(* The exchange ends with the last access of the callback. *)
LEMMA ContinueMaps ==
    ASSUME HandlerInv, continue_flow_control
    PROVE  Handlers!receive_ANT_message(got.conveyor)
<1> USE DEF outside, fields, plant, local, clock, At
<1>1. /\ pc["callback"] = "continue"
      /\ flow_control' = IF checking THEN flow_control ELSE "CONTINUE"
      /\ antRx' = IF got.reply.id # "CLEAR_BOX_RESPONSE" THEN antRx
                  ELSE Append(antRx,
                              [reply  |-> got.reply,
                               length |-> Server!ForwardedLength(got.reply)])
      /\ Goto("callback", "idle")
      /\ UNCHANGED <<antTx, uplink, last_seen, executed, arrivals, busy,
                     early, submitted, pending_msg, pending_input, checking,
                     waiting, timestamp, timer_running, timed_out, timer_at,
                     air>>
  BY DEF continue_flow_control
<1>2. StepsTyped /\ Kinds /\ CallbackSim
  BY DEF HandlerInv, StepsInv
<1>3. ~Asking("callback", NextMessage)
  BY <1>1 DEF Asking, Sending
<1>4. /\ got.conveyor \in ConveyorId
      /\ got.reply.id \in {"MESSAGE_RECEIVED", "CLEAR_BOX_RESPONSE"}
      /\ WasAwaited
      /\ flow_control = before.flow_control
      /\ pending_input = before.pending_input
      /\ before.timed_out = FALSE
      /\ Ending
  BY <1>1, <1>2, <1>3 DEF CallbackSim, ReplyId
<1>5. /\ waiting = Server!NotWaiting
      /\ timestamp = before.timestamp
      /\ checking = before.checking
      /\ pending_msg = NoMessage
  BY <1>1, <1>4 DEF Ending
<1>6. /\ \A u \in Thread : u # "callback" => pc[u] = "idle"
      /\ ~timed_out
      /\ timer_at # "set"
  BY <1>1, Alone, ThreadsDiffer DEF HandlerInv
<1>7. ~timer_running
  BY <1>1 DEF HandlerInv, StepsInv, TimerInStep
<1>8. \A u \in Thread : pc'[u] = "idle"
  BY <1>1, <1>2, <1>6, Going, ThreadsDiffer
<1>9. /\ Unfinished /\ ~Unfinished'
      /\ InHandler("callback") /\ ~InHandler("callback")'
  BY <1>1, <1>8, ThreadsDiffer DEF Unfinished, InHandler
<1>10. timer_running = FALSE /\ timed_out = FALSE
  BY <1>2, <1>6, <1>7 DEF Kinds
<1>11. Underway
  BY <1>9, Running
<1>12. AtRest'
  BY <1>1, <1>6, <1>8, <1>9, <1>10, RestingNext, ThreadsDiffer
<1>13. /\ Handlers!TakeReply(got.conveyor, got.reply.id)
       /\ Head(uplinkBar[got.conveyor]) = got.reply
  BY <1>1, <1>4, <1>6, <1>8, <1>9, <1>10, Handled, ThreadsDiffer
<1>14. /\ waitingBar = before.waiting
       /\ waitingBar' = Handlers!NotWaiting
       /\ pending_msgBar' = Handlers!NoMessage
       /\ timer_runningBar' = FALSE
       /\ flow_controlBar' = IF checkingBar THEN flow_controlBar ELSE "CONTINUE"
       /\ UNCHANGED <<pending_inputBar, checkingBar, timestampBar, air>>
  BY <1>1, <1>4, <1>5, <1>10, <1>11, <1>12, FramesAgree DEF Underway, AtRest
<1>15. Handlers!StopWaiting /\ Handlers!continue_flow_control
  BY <1>14 DEF Handlers!StopWaiting, Handlers!continue_flow_control
<1>16. CASE got.reply.id = "MESSAGE_RECEIVED"
  <2>1. Handlers!AwaitsReceipt(Head(uplinkBar[got.conveyor]))
    BY <1>4, <1>13, <1>14, <1>16 DEF WasAwaited, Handlers!AwaitsReceipt
  <2>2. antRx' = antRx
    BY <1>1, <1>16
  <2>3. Handlers!receive_MESSAGE_RECEIVED(got.conveyor)
    BY <1>13, <1>14, <1>15, <1>16, <2>1, <2>2
    DEF Handlers!receive_MESSAGE_RECEIVED
  <2> QED
    BY <2>3 DEF Handlers!receive_ANT_message
<1>17. CASE got.reply.id = "CLEAR_BOX_RESPONSE"
  <2>1. waitingBar.id = "CLEAR_BOX_RESPONSE"
    BY <1>4, <1>14, <1>17 DEF WasAwaited
  <2>2. antRx' = Append(antRx,
                        [reply  |-> got.reply,
                         length |-> Handlers!ForwardedLength(got.reply)])
    BY <1>1, <1>17
    DEF Server!ForwardedLength, Handlers!ForwardedLength,
        Server!CLEAR_BOX_RESPONSE_STATIC_LENGTH,
        Handlers!CLEAR_BOX_RESPONSE_STATIC_LENGTH
  <2>3. Handlers!receive_CLEAR_BOX_RESPONSE(got.conveyor)
    BY <1>13, <1>14, <1>15, <1>17, <2>1, <2>2
    DEF Handlers!receive_CLEAR_BOX_RESPONSE
  <2> QED
    BY <2>3 DEF Handlers!receive_ANT_message
<1> QED
  BY <1>4, <1>16, <1>17

(* The state of the input conveyor comes with no package held back. *)
LEMMA NothingHeldMaps ==
    ASSUME HandlerInv, received_input_conveyor_state,
           pending_input = NoMessage
    PROVE  Handlers!receive_ANT_message(got.conveyor)
<1> USE DEF outside, fields, plant, local, clock, At
<1>1. /\ pc["callback"] = "held"
      /\ Goto("callback", "idle")
      /\ UNCHANGED <<antTx, antRx, uplink, last_seen, executed, arrivals, busy,
                     early, submitted, flow_control, pending_msg,
                     pending_input, checking, waiting, timestamp,
                     timer_running, timed_out, timer_at, air>>
  BY DEF received_input_conveyor_state
<1>2. StepsTyped /\ Kinds /\ CallbackSim
  BY DEF HandlerInv, StepsInv
<1>3. /\ got.conveyor \in ConveyorId
      /\ got.reply.id = "CONVEYOR_STATE_RESPONSE"
      /\ WasAwaited
      /\ flow_control = before.flow_control
      /\ pending_input = before.pending_input
      /\ before.timed_out = FALSE
      /\ waiting = before.waiting
      /\ timestamp = before.timestamp
      /\ pending_msg = before.pending_msg
      /\ checking = before.checking
  BY <1>1, <1>2 DEF CallbackSim
<1>4. /\ \A u \in Thread : u # "callback" => pc[u] = "idle"
      /\ ~timed_out
      /\ timer_at # "set"
  BY <1>1, Alone, ThreadsDiffer DEF HandlerInv
<1>5. ~timer_running
  BY <1>1 DEF HandlerInv, StepsInv, TimerInStep
<1>6. \A u \in Thread : pc'[u] = "idle"
  BY <1>1, <1>2, <1>4, Going, ThreadsDiffer
<1>7. /\ Unfinished /\ ~Unfinished'
      /\ InHandler("callback") /\ ~InHandler("callback")'
  BY <1>1, <1>6, ThreadsDiffer DEF Unfinished, InHandler
<1>8. timer_running = FALSE /\ timed_out = FALSE
  BY <1>2, <1>4, <1>5 DEF Kinds
<1>9. Underway
  BY <1>7, Running
<1>10. AtRest'
  BY <1>1, <1>4, <1>6, <1>7, <1>8, RestingNext, ThreadsDiffer
<1>11. /\ Handlers!TakeReply(got.conveyor, got.reply.id)
       /\ Head(uplinkBar[got.conveyor]) = got.reply
  BY <1>1, <1>3, <1>4, <1>6, <1>7, <1>8, Handled, ThreadsDiffer
<1>12. /\ pending_inputBar = Handlers!NoMessage
       /\ waitingBar = before.waiting
       /\ timer_runningBar' = FALSE
       /\ UNCHANGED <<antRx, air, flow_controlBar, pending_msgBar,
                      pending_inputBar, checkingBar, waitingBar, timestampBar>>
  BY <1>1, <1>3, <1>8, <1>9, <1>10, FramesAgree DEF Underway, AtRest
<1>13. Handlers!AwaitsState(got.conveyor)
  BY <1>3, <1>12 DEF WasAwaited, Handlers!AwaitsState
<1>14. Handlers!NothingHeldBack
  BY <1>12 DEF Handlers!NothingHeldBack, Handlers!server
<1>15. CASE got.reply.available
  <2>1. Handlers!receive_CONVEYOR_STATE_available(got.conveyor)
    BY <1>3, <1>11, <1>12, <1>13, <1>14, <1>15
    DEF Handlers!receive_CONVEYOR_STATE_available
  <2> QED
    BY <2>1 DEF Handlers!receive_ANT_message
<1>16. CASE ~got.reply.available
  <2>1. Handlers!receive_CONVEYOR_STATE_unavailable(got.conveyor)
    BY <1>3, <1>11, <1>12, <1>13, <1>14, <1>16
    DEF Handlers!receive_CONVEYOR_STATE_unavailable
  <2> QED
    BY <2>1 DEF Handlers!receive_ANT_message
<1> QED
  BY <1>15, <1>16

(* The package held back is sent, or the state asked again. *)
LEMMA TransmitCallback ==
    ASSUME HandlerInv, transmit("callback")
    PROVE  Handlers!receive_ANT_message(got.conveyor)
<1>1. pc["callback"] = "transmit"
  BY DEF transmit, At
<1>2. StepsTyped /\ Kinds /\ CallbackSim
  BY DEF HandlerInv, StepsInv
<1>3. ~Ending
  BY <1>1 DEF Ending
<1>4. PICK msg : msg = NextMessage
  OBVIOUS
<1>5. /\ got.conveyor \in ConveyorId
      /\ got.reply.id = "CONVEYOR_STATE_RESPONSE"
      /\ WasAwaited
      /\ flow_control = before.flow_control
      /\ pending_input = before.pending_input
      /\ before.timed_out = FALSE
      /\ before.pending_input \in Server!AddPackage
      /\ checking = (before.checking /\ ~got.reply.available)
      /\ before.checking \in BOOLEAN
      /\ Asking("callback", msg)
  BY <1>1, <1>2, <1>3, <1>4 DEF CallbackSim
<1>6. Sent("callback", msg)
  BY <1>5 DEF Asking
<1>7. /\ Underway
      /\ ~Unfinished'
      /\ pc["queue"] = "idle" /\ pc'["queue"] = "idle"
      /\ pc'["driver"] = "idle"
      /\ pc'["callback"] = IF msg.id = "ADD_PACKAGE" THEN "forget" ELSE "idle"
      /\ timed_out' = FALSE
      /\ SamePlant
      /\ UNCHANGED <<antTx, uplink, flow_control, pending_input, checking>>
  <2>1. /\ Underway /\ ~Unfinished' /\ SamePlant /\ timed_out' = FALSE
        /\ \A u \in Thread : u # "callback" => pc[u] = "idle" /\ pc'[u] = "idle"
        /\ UNCHANGED <<antTx, uplink, flow_control, pending_input, checking>>
        /\ pc'["callback"] = IF "callback" = "callback" /\ msg.id = "ADD_PACKAGE"
                             THEN "forget" ELSE "idle"
    <3>1. "callback" \in Thread
      BY ThreadsDiffer
    <3> QED
      BY <1>6, <3>1, Transmitting
  <2> QED
    BY <2>1, ThreadsDiffer
<1>8. Handlers!SendAndWait(msg, Server!ReplyTo(msg.id))
  BY <1>5, NewMessage, ThreadsDiffer
<1>9. InHandler("callback") /\ ~InHandler("callback")'
  BY <1>1, <1>7 DEF InHandler
<1>10. /\ Handlers!TakeReply(got.conveyor, got.reply.id)
       /\ Head(uplinkBar[got.conveyor]) = got.reply
  BY <1>5, <1>7, <1>9, Handled DEF SamePlant
<1>11. /\ flow_controlBar' = flow_control
       /\ checkingBar' = checking
       /\ pending_inputBar' = IF msg.id = "ADD_PACKAGE" THEN NoMessage
                              ELSE pending_input
  <2>1. NoMessage' = NoMessage
    BY DEF NoMessage, Server!NoMessage
  <2> QED
    BY <1>7, <2>1 DEF flow_controlBar, checkingBar, pending_inputBar
<1>12. Handlers!AwaitsState(got.conveyor)
  BY <1>5, <1>7 DEF WasAwaited, Handlers!AwaitsState, Underway
<1>13. /\ pending_inputBar \in Server!AddPackage
       /\ pending_inputBar # Handlers!NoMessage
       /\ UNCHANGED <<antRx, flow_controlBar>>
  <2>1. pending_inputBar \in Server!AddPackage
    BY <1>5, <1>7 DEF Underway
  <2>2. pending_inputBar # Handlers!NoMessage
    BY <2>1, PackageShape DEF Handlers!NoMessage
  <2> QED
    BY <1>5, <1>7, <1>11, <2>1, <2>2 DEF Underway, SamePlant
<1>14. CASE got.reply.available
  <2>1. msg = pending_inputBar /\ msg.id = "ADD_PACKAGE"
    BY <1>4, <1>5, <1>7, <1>14, PackageShape DEF NextMessage, Underway
  <2>2. Server!ReplyTo(msg.id) = "ADD_PACKAGE"
    BY <2>1 DEF Server!ReplyTo
  <2>3. checkingBar' = FALSE /\ pending_inputBar' = Handlers!NoMessage
    BY <1>5, <1>11, <1>14, <2>1, FramesAgree
  <2>4. Handlers!receive_CONVEYOR_STATE_available(got.conveyor)
    BY <1>5, <1>8, <1>10, <1>12, <1>13, <1>14, <2>1, <2>2, <2>3
    DEF Handlers!receive_CONVEYOR_STATE_available
  <2> QED
    BY <2>4 DEF Handlers!receive_ANT_message
<1>15. CASE ~got.reply.available
  <2>1. got.conveyor = Server!INPUT_CONVEYOR_ID
    BY <1>5 DEF WasAwaited
  <2>2. msg = [id |-> "CONVEYOR_STATE", conveyor |-> got.conveyor,
               uid |-> pending_inputBar.uid]
    BY <1>4, <1>5, <1>7, <1>15, <2>1, PackageShape DEF NextMessage, Underway
  <2>3. Server!ReplyTo(msg.id) = "CONVEYOR_STATE_RESPONSE"
    BY <2>2 DEF Server!ReplyTo
  <2>4. UNCHANGED <<pending_inputBar, checkingBar>>
    BY <1>5, <1>7, <1>11, <1>15, <2>2 DEF Underway
  <2>5. Handlers!send_conveyor_state_request(got.conveyor,
                                             pending_inputBar.uid)
    BY <1>8, <2>2, <2>3 DEF Handlers!send_conveyor_state_request
  <2>6. Handlers!receive_CONVEYOR_STATE_unavailable(got.conveyor)
    BY <1>5, <1>10, <1>12, <1>13, <1>15, <2>4, <2>5
    DEF Handlers!receive_CONVEYOR_STATE_unavailable
  <2> QED
    BY <2>6 DEF Handlers!receive_ANT_message
<1> QED
  BY <1>14, <1>15

LEMMA ForgetStutters ==
    ASSUME HandlerInv, forget_package
    PROVE  UNCHANGED Handlers!vars
<1> USE DEF outside, fields, plant, local, clock, At
<1>1. /\ pc["callback"] = "forget"
      /\ Goto("callback", "idle")
      /\ pending_input' = NoMessage
      /\ SamePlant
      /\ UNCHANGED <<antTx, uplink, flow_control, pending_msg, checking,
                     waiting, timestamp, timer_running, timed_out, timer_at,
                     air>>
  BY DEF forget_package, SamePlant
<1>2. \A u \in Thread : u # "callback" => pc[u] = "idle"
  BY <1>1, Alone, ThreadsDiffer DEF HandlerInv
<1>3. \A u \in Thread : pc'[u] = "idle"
  BY <1>1, <1>2, Going, ThreadsDiffer DEF HandlerInv, StepsInv
<1>4. ~Unfinished /\ ~Unfinished' /\ NoMessage' = NoMessage
  BY <1>1, <1>2, <1>3, ThreadsDiffer
  DEF Unfinished, InHandler, NoMessage, Server!NoMessage
<1>5. UNCHANGED <<antTxBar, uplinkBar>>
  BY <1>1, <1>2, <1>3, QueuesAtRest, ThreadsDiffer DEF InHandler
<1>6. SameBars
  BY <1>1, <1>3, <1>4, ThreadsDiffer
  DEF SameBars, flow_controlBar, pending_msgBar, pending_inputBar,
      checkingBar, waitingBar, timestampBar, timer_runningBar, timed_outBar
<1> QED
  BY <1>1, <1>5, <1>6, Stuttering

LEMMA CallbackMaps ==
    ASSUME HandlerInv, callback
    PROVE  Handlers!Next \/ UNCHANGED Handlers!vars
<1> USE DEF outside, fields, plant, clock, local, At
<1>1. StepsTyped /\ Kinds /\ CallbackSim
  BY DEF HandlerInv, StepsInv
<1>2. ASSUME pc["callback"] \notin {"idle", "forget"},
             NEW l, l \notin {"idle", "forget"}, Goto("callback", l),
             SamePlant, UNCHANGED <<antTx, uplink, air, command, got, before>>
      PROVE  UNCHANGED Handlers!vars
  <2>1. InHandler("callback") /\ InHandler("callback")'
    BY <1>1, <1>2, Going, ThreadsDiffer DEF InHandler
  <2> QED
    BY <1>1, <1>2, <2>1, InsideStutters, ThreadsDiffer
<1>3. pc["callback"] \notin {"idle", "forget"} => got.conveyor \in ConveyorId
  BY <1>1 DEF CallbackSim
<1>4. CASE stop_timer
  BY <1>2, <1>4 DEF stop_timer, SamePlant
<1>5. CASE reset_waiting
  BY <1>2, <1>5 DEF reset_waiting, SamePlant
<1>6. CASE continue_flow_control
  <2>1. pc["callback"] = "continue"
    BY <1>6 DEF continue_flow_control
  <2> QED
    BY <1>3, <1>6, <2>1, ContinueMaps, OnTime DEF Handlers!Next
<1>7. CASE received_input_conveyor_state
  <2>1. pc["callback"] = "held"
    BY <1>7 DEF received_input_conveyor_state
  <2>2. CASE pending_input = NoMessage
    BY <1>3, <1>7, <2>1, <2>2, NothingHeldMaps, OnTime DEF Handlers!Next
  <2>3. CASE pending_input # NoMessage
    <3>1. Goto("callback", "wait") /\ SamePlant
          /\ UNCHANGED <<antTx, uplink, air, command, got, before>>
      BY <1>7, <2>3 DEF received_input_conveyor_state, SamePlant
    <3> QED
      BY <1>2, <2>1, <3>1
  <2> QED
    BY <2>2, <2>3
<1>8. CASE forget_package
  BY <1>8, ForgetStutters
<1>9. CASE send_message_to_driver("callback") /\ ~transmit("callback")
  <2>1. /\ pc["callback"] \in {"wait", "stamp"} \union Sending
        /\ \E l : Goto("callback", l)
        /\ SamePlant /\ UNCHANGED air
    BY <1>9, SendAt, SendQuiet
  <2>2. Ending \/ Asking("callback", NextMessage)
    BY <1>1, <2>1 DEF CallbackSim, Sending
  <2>3. CASE Ending
    <3>1. Ending' /\ Spared
      BY <1>1, <1>9, <2>3, EndingSim
    <3>2. InHandler("callback") /\ InHandler("callback")'
      BY <2>1, <3>1 DEF Ending, InHandler, Sending
    <3> QED
      BY <1>1, <2>1, <3>1, <3>2, InsideStutters, ThreadsDiffer DEF Spared
  <2>4. CASE Asking("callback", NextMessage)
    <3>1. PICK msg : Sent("callback", msg)
      BY <2>4 DEF Asking
    <3> QED
      BY <1>9, <3>1, SendStutters, ThreadsDiffer
  <2> QED
    BY <2>2, <2>3, <2>4
<1>10. CASE transmit("callback")
  <2>1. pc["callback"] = "transmit"
    BY <1>10 DEF transmit
  <2> QED
    BY <1>3, <1>10, <2>1, TransmitCallback, OnTime DEF Handlers!Next
<1> QED
  BY <1>4, <1>5, <1>6, <1>7, <1>8, <1>9, <1>10 DEF callback

------------------------------------------------------------------------------
(* The refinement *)

LEMMA InitMaps ==
    ASSUME Init
    PROVE  AirTyped /\ Handlers!Init
<1> USE DEF Init, Server!Init
<1>1. /\ pc = [t \in Thread |-> "idle"]
      /\ timer_at = "out"
      /\ timer_running = FALSE
      /\ air = NoFrame
  BY DEF NoFrame
<1>2. ~Unfinished /\ ~InHandler("queue") /\ ~InHandler("callback")
  BY <1>1, ThreadsDiffer DEF Unfinished, InHandler
<1>3. AtRest
  BY <1>1, <1>2, Resting, ThreadsDiffer
<1>4. antTxBar = antTx /\ uplinkBar = uplink
  BY <1>2 DEF antTxBar, uplinkBar
<1>5. Server!Init
  OBVIOUS
<1>6. Handlers!Init
  BY <1>3, <1>4, <1>5, FramesAgree
  DEF Handlers!Init, AtRest, NoMessage, NoFrame
<1> QED
  BY <1>1, <1>6 DEF AirTyped

LEMMA NextMaps ==
    ASSUME HandlerInv, AirTyped, ~early', [Next]_vars
    PROVE  [Handlers!Next]_Handlers!vars
<1>1. ASSUME NEW c \in ConveyorId, take_reply(c) \/ take_arrival(c)
      PROVE  Handlers!Next \/ UNCHANGED Handlers!vars
  BY <1>1, ReplyMaps, ArrivalMaps
<1>2. CASE UNCHANGED vars
  <2>1. /\ SamePlant
        /\ UNCHANGED <<flow_control, pending_msg, pending_input, checking,
                       waiting, timestamp, timer_running, timed_out, steps,
                       antTx, uplink, air>>
    BY <1>2 DEF vars, outside, fields, plant, steps, clock, SamePlant
  <2>2. /\ SameBars
        /\ InHandler("queue") <=> InHandler("queue")'
        /\ InHandler("callback") <=> InHandler("callback")'
        /\ UNCHANGED <<command, got>>
    BY <2>1, OutsideBars, ThreadsDiffer
  <2>3. UNCHANGED <<antTxBar, uplinkBar>>
    BY <2>1, <2>2 DEF antTxBar, uplinkBar
  <2> QED
    BY <2>1, <2>2, <2>3, Stuttering
<1> QED
  BY <1>1, <1>2, QueueMaps, CallbackMaps, DriverMaps, TimerMaps,
     EnvironmentMaps
  DEF Next

(* For every set of conveyors, every queue of commands, every loss and the *)
(* timer of the code: until a timeout comes early the handlers, access by  *)
(* access and without a lock, do what ANTServer says they do in one step   *)
(* each (ANTQueueHandler.cpp:11-16, ANTServer.cpp:55-200).                 *)
THEOREM ImplementsHandlersHolds == Spec => ImplementsHandlers
<1> DEFINE Inv == ~early => HandlerInv /\ AirTyped
<1>1. Init => Inv /\ Handlers!Init
  BY InitHandlers, InitMaps
<1>2. Inv /\ [Next]_vars => Inv'
  BY StepHandlers, AirKept, EarlyStays
<1>3. Inv /\ [Next]_vars => [Handlers!Next \/ early']_(Handlers!vars)
  BY NextMaps, EarlyStays
<1> QED
  BY <1>1, <1>2, <1>3, PTL DEF Spec, ImplementsHandlers
===============================================================================
