------------------------- MODULE CentralComputerProofs -------------------------
(***************************************************************************)
(* Theorems about the queues between the threads, for every set of         *)
(* requests and every configuration.                                       *)
(*                                                                         *)
(* A request has its number from the moment it is taken from the client,   *)
(* and its answer carries that number.  The inductive invariant says that  *)
(* the answers given, those that wait and the requests that wait stand in  *)
(* one line in the order of their numbers: it is needed because an answer  *)
(* is only in order if everything that still waits is behind it.           *)
(*                                                                         *)
(* The books change when a request is handled, the plant when the commands *)
(* arrive.  The second invariant looks at every prefix of the commands     *)
(* that wait: after each, the boxes in the plant hold no more than their   *)
(* size, because a box that is connected anew starts empty.                *)
(*                                                                         *)
(* The same prefixes lead what the conveyors know to what they were told.  *)
(* When no command waits the two are equal, and told is what the books say *)
(* (ConveyorLinksProofs).  A package that waits has a route in what the    *)
(* conveyors know when its turn comes: it had one in told when it was      *)
(* enqueued, and later commands stand behind it.                           *)
(***************************************************************************)
EXTENDS CentralComputer, ConveyorLinksProofs

------------------------------------------------------------------------------
(* Sequences *)

IsASeq(s) == \E S : s \in Seq(S)

LEMMA EmptyIsASeq == IsASeq(<<>>)
<1>1. <<>> \in Seq({})
  OBVIOUS
<1> QED
  BY <1>1 DEF IsASeq

LEMMA OneIsASeq ==
    ASSUME NEW e
    PROVE  /\ IsASeq(<<e>>)
           /\ Len(<<e>>) = 1
           /\ DOMAIN <<e>> = {1}
           /\ <<e>>[1] = e
<1>1. <<e>> \in Seq({e})
  OBVIOUS
<1>2. IsASeq(<<e>>)
  BY <1>1 DEF IsASeq
<1>3. Len(<<e>>) = 1 /\ <<e>>[1] = e
  OBVIOUS
<1>4. DOMAIN <<e>> = {1}
  <2>1. DOMAIN <<e>> = 1 .. 1
    OBVIOUS
  <2> QED
    BY <2>1
<1> QED
  BY <1>2, <1>3, <1>4

(* What the end of an appended sequence is (std::queue::push).             *)
LEMMA Appending ==
    ASSUME NEW s, IsASeq(s), NEW e
    PROVE  /\ IsASeq(Append(s, e))
           /\ Len(s) \in Nat
           /\ DOMAIN s = 1 .. Len(s)
           /\ DOMAIN Append(s, e) = 1 .. Len(s) + 1
           /\ \A i \in DOMAIN s : Append(s, e)[i] = s[i]
           /\ Append(s, e)[Len(s) + 1] = e
<1>1. PICK S : s \in Seq(S)
  BY DEF IsASeq
<1> DEFINE T == S \union {e}
<1>2. s \in Seq(T)
  BY <1>1
<1>3. e \in T
  OBVIOUS
<1> HIDE DEF T
<1>4. Append(s, e) \in Seq(T)
  BY <1>2, <1>3
<1> QED
  BY <1>2, <1>3, <1>4 DEF IsASeq

(* What is left of a sequence whose first element is taken                 *)
(* (std::queue::pop).                                                      *)
LEMMA Tailing ==
    ASSUME NEW s, IsASeq(s), s # <<>>
    PROVE  /\ IsASeq(Tail(s))
           /\ Len(s) \in Nat
           /\ Len(s) > 0
           /\ Head(s) = s[1]
           /\ DOMAIN s = 1 .. Len(s)
           /\ DOMAIN Tail(s) = 1 .. Len(s) - 1
           /\ \A i \in DOMAIN Tail(s) : Tail(s)[i] = s[i + 1]
<1>1. PICK S : s \in Seq(S)
  BY DEF IsASeq
<1>2. Tail(s) \in Seq(S)
  BY <1>1
<1> QED
  BY <1>1, <1>2 DEF IsASeq

(* Two sequences, one behind the other. *)
LEMMA Joining ==
    ASSUME NEW s, IsASeq(s), NEW t, IsASeq(t)
    PROVE  /\ IsASeq(s \o t)
           /\ Len(s) \in Nat
           /\ Len(t) \in Nat
           /\ DOMAIN s = 1 .. Len(s)
           /\ DOMAIN t = 1 .. Len(t)
           /\ DOMAIN (s \o t) = 1 .. Len(s) + Len(t)
           /\ \A i \in DOMAIN s : (s \o t)[i] = s[i]
           /\ \A i \in DOMAIN t : (s \o t)[Len(s) + i] = t[i]
<1>1. PICK S : s \in Seq(S)
  BY DEF IsASeq
<1>2. PICK T : t \in Seq(T)
  BY DEF IsASeq
<1> DEFINE U == S \union T
<1>3. s \in Seq(U) /\ t \in Seq(U)
  BY <1>1, <1>2
<1> HIDE DEF U
<1>4. s \o t \in Seq(U)
  BY <1>3
<1>5. Len(s \o t) = Len(s) + Len(t)
  BY <1>3
<1> QED
  BY <1>3, <1>4, <1>5 DEF IsASeq

LEMMA BehindTheFirst ==
    ASSUME NEW s, IsASeq(s), NEW t, IsASeq(t)
    PROVE  \A i \in DOMAIN t : (s \o t)[Len(s) + i] = t[i]
<1>1. PICK S : s \in Seq(S)
  BY DEF IsASeq
<1>2. PICK T : t \in Seq(T)
  BY DEF IsASeq
<1>3. s \in Seq(S \union T) /\ t \in Seq(S \union T)
  BY <1>1, <1>2
<1> QED
  BY <1>3

------------------------------------------------------------------------------
(* The line of the requests *)

Increasing(s) == \A i, j \in DOMAIN s : i < j => s[i].of < s[j].of

Ahead(s, t) == \A i \in DOMAIN s, j \in DOMAIN t : s[i].of < t[j].of

UpTo(s, n) == \A i \in DOMAIN s : s[i].of \in 1 .. n

QueuesOK == IsASeq(answered) /\ IsASeq(webTx) /\ IsASeq(webRx)

InLine ==
    /\ Increasing(answered)
    /\ Increasing(webTx)
    /\ Increasing(webRx)
    /\ Ahead(answered, webTx)
    /\ Ahead(answered, webRx)
    /\ Ahead(webTx, webRx)

Asked ==
    /\ asked \in Nat
    /\ UpTo(answered, asked)
    /\ UpTo(webTx, asked)
    /\ UpTo(webRx, asked)

LineInv == QueuesOK /\ InLine /\ Asked

LEMMA InitLine == CentralInit => LineInv
<1> SUFFICES ASSUME CentralInit PROVE LineInv
  OBVIOUS
<1>1. answered = <<>> /\ webTx = <<>> /\ webRx = <<>> /\ asked = 0
  BY DEF CentralInit
<1>2. DOMAIN answered = {} /\ DOMAIN webTx = {} /\ DOMAIN webRx = {}
  BY <1>1
<1> QED
  BY <1>1, <1>2, EmptyIsASeq
  DEF LineInv, QueuesOK, InLine, Asked, Increasing, Ahead, UpTo

(* A client asks: its request goes to the end of the line with a number    *)
(* above all others.                                                       *)
LEMMA AskLine ==
    ASSUME LineInv, NEW r \in Requests, on_message(r)
    PROVE  LineInv'
<1> DEFINE e == [request |-> r, of |-> asked']
<1>1. /\ asked' = asked + 1
      /\ webRx' = Append(webRx, e)
      /\ webTx' = webTx
      /\ answered' = answered
  BY DEF on_message
<1>2. e.of = asked + 1
  BY <1>1
<1> HIDE DEF e
<1>3. /\ IsASeq(webRx')
      /\ Len(webRx) \in Nat
      /\ DOMAIN webRx = 1 .. Len(webRx)
      /\ DOMAIN webRx' = 1 .. Len(webRx) + 1
      /\ \A i \in DOMAIN webRx : webRx'[i] = webRx[i]
      /\ webRx'[Len(webRx) + 1] = e
  BY <1>1, Appending DEF LineInv, QueuesOK
<1>4. \A i \in DOMAIN webRx' :
         webRx'[i].of = IF i \in DOMAIN webRx THEN webRx[i].of ELSE asked + 1
  BY <1>2, <1>3
<1>5. QueuesOK'
  BY <1>1, <1>3 DEF LineInv, QueuesOK
<1>6. Asked'
  BY <1>1, <1>3, <1>4 DEF LineInv, Asked, UpTo
<1>7. Increasing(webRx')
  BY <1>3, <1>4 DEF LineInv, InLine, Asked, Increasing, UpTo
<1>8. Ahead(answered', webRx') /\ Ahead(webTx', webRx')
  BY <1>1, <1>3, <1>4 DEF LineInv, InLine, Asked, Ahead, UpTo
<1> QED
  BY <1>1, <1>5, <1>6, <1>7, <1>8 DEF LineInv, InLine

(* An answer is sent: it goes from the front of its queue to the end of    *)
(* the answers.                                                            *)
LEMMA SendLine ==
    ASSUME LineInv, send
    PROVE  LineInv'
<1>1. /\ webTx # <<>>
      /\ answered' = Append(answered, Head(webTx))
      /\ webTx' = Tail(webTx)
      /\ webRx' = webRx
      /\ asked' = asked
  BY DEF send, Answers
<1>2. /\ IsASeq(webTx')
      /\ Len(webTx) \in Nat
      /\ Len(webTx) > 0
      /\ Head(webTx) = webTx[1]
      /\ DOMAIN webTx = 1 .. Len(webTx)
      /\ DOMAIN webTx' = 1 .. Len(webTx) - 1
      /\ \A i \in DOMAIN webTx' : webTx'[i] = webTx[i + 1]
  BY <1>1, Tailing DEF LineInv, QueuesOK
<1>3. /\ IsASeq(answered')
      /\ Len(answered) \in Nat
      /\ DOMAIN answered = 1 .. Len(answered)
      /\ DOMAIN answered' = 1 .. Len(answered) + 1
      /\ \A i \in DOMAIN answered : answered'[i] = answered[i]
      /\ answered'[Len(answered) + 1] = webTx[1]
  BY <1>1, <1>2, Appending DEF LineInv, QueuesOK
<1>4. \A i \in DOMAIN answered' :
         \/ i \in DOMAIN answered /\ answered'[i] = answered[i]
         \/ i = Len(answered) + 1 /\ answered'[i] = webTx[1]
  BY <1>3
<1>5. 1 \in DOMAIN webTx /\ \A i \in DOMAIN webTx' : i + 1 \in DOMAIN webTx
  BY <1>2
<1>6. QueuesOK'
  BY <1>1, <1>2, <1>3 DEF LineInv, QueuesOK
<1>7. Asked'
  BY <1>1, <1>2, <1>4, <1>5 DEF LineInv, Asked, UpTo
<1>8. Increasing(answered')
  <2> SUFFICES ASSUME NEW i \in DOMAIN answered', NEW j \in DOMAIN answered',
                      i < j
               PROVE  answered'[i].of < answered'[j].of
    BY DEF Increasing
  <2>1. i \in DOMAIN answered
    BY <1>3
  <2> QED
    BY <2>1, <1>3, <1>4, <1>5 DEF LineInv, InLine, Increasing, Ahead
<1>9. Increasing(webTx')
  BY <1>2, <1>5 DEF LineInv, InLine, Increasing
<1>10. Ahead(answered', webTx')
  <2> SUFFICES ASSUME NEW i \in DOMAIN answered', NEW j \in DOMAIN webTx'
               PROVE  answered'[i].of < webTx'[j].of
    BY DEF Ahead
  <2>1. webTx[1].of < webTx[j + 1].of /\ webTx'[j] = webTx[j + 1]
    BY <1>2, <1>5 DEF LineInv, InLine, Increasing
  <2> QED
    BY <2>1, <1>4, <1>5 DEF LineInv, InLine, Ahead
<1>11. Ahead(answered', webRx')
  BY <1>1, <1>4, <1>5 DEF LineInv, InLine, Ahead
<1>12. Ahead(webTx', webRx')
  BY <1>1, <1>2, <1>5 DEF LineInv, InLine, Ahead
<1>13. Increasing(webRx')
  BY <1>1 DEF LineInv, InLine
<1> QED
  BY <1>6, <1>7, <1>8, <1>9, <1>10, <1>11, <1>12, <1>13 DEF LineInv, InLine

(* Every operation enqueues one answer or none. *)
LEMMA AtMostOneAnswer ==
    ASSUME handle_message
    PROVE  web_out' = <<>> \/ \E m : web_out' = <<m>>
<1>1. ASSUME handle_CONVEYOR_STATE_MSG PROVE web_out' = <<>>
  BY <1>1 DEF handle_CONVEYOR_STATE_MSG, set_state, Send
<1>2. ASSUME handle_ADD_DESTINATION_BOX
      PROVE  web_out' = <<>> \/ \E m : web_out' = <<m>>
  <2> DEFINE c == request.conveyor
             b == request.box
             location == request.location
  <2>1. \/ add_destination_box(c, b, location)
        \/ add_destination_box_refused(c, b, location)
        \/ add_destination_box_crashes(c, b, location)
        \/ add_destination_box_out_of_range(c, b, location)
    BY <1>2 DEF handle_ADD_DESTINATION_BOX
  <2> HIDE DEF c, b, location
  <2>2. ASSUME add_destination_box(c, b, location)
        PROVE  \E m : web_out' = <<m>>
    BY <2>2 DEF add_destination_box, Send
  <2>3. ASSUME add_destination_box_refused(c, b, location)
        PROVE  \E m : web_out' = <<m>>
    BY <2>3 DEF add_destination_box_refused, Send
  <2>4. ASSUME add_destination_box_crashes(c, b, location)
        PROVE  web_out' = <<>>
    BY <2>4 DEF add_destination_box_crashes, Send
  <2>5. ASSUME add_destination_box_out_of_range(c, b, location)
        PROVE  web_out' = <<>>
    BY <2>5 DEF add_destination_box_out_of_range, Send
  <2> QED
    BY <2>1, <2>2, <2>3, <2>4, <2>5
<1>3. ASSUME handle_ADD_PACKAGE PROVE \E m : web_out' = <<m>>
  BY <1>3 DEF handle_ADD_PACKAGE, send_package,
              send_package_refused, Send
<1>4. ASSUME handle_DESTINATION_BOX_STATUS
      PROVE  web_out' = <<>> \/ \E m : web_out' = <<m>>
  BY <1>4 DEF handle_DESTINATION_BOX_STATUS, Send,
              get_destination_box_state
<1>5. ASSUME handle_REMOVE_PACKAGE PROVE \E m : web_out' = <<m>>
  BY <1>5 DEF handle_REMOVE_PACKAGE, package_removed,
              package_removal_refused, Send
<1>6. ASSUME handle_CLEAR_BOX
      PROVE  web_out' = <<>> \/ \E m : web_out' = <<m>>
  BY <1>6 DEF handle_CLEAR_BOX, clear_box_requested,
              clear_box_refused, Send
<1> QED
  BY <1>1, <1>2, <1>3, <1>4, <1>5, <1>6 DEF handle_message

LEMMA HandleEnqueues ==
    ASSUME handle_message
    PROVE  /\ webRx # <<>>
           /\ webRx' = Tail(webRx)
           /\ webTx' = webTx \o Numbered(web_out')
           /\ UNCHANGED <<asked, answered>>
  BY DEF handle_message, handle_CONVEYOR_STATE_MSG, handle_ADD_DESTINATION_BOX,
         handle_ADD_PACKAGE, handle_DESTINATION_BOX_STATUS,
         handle_REMOVE_PACKAGE, handle_CLEAR_BOX, TakeRequest, Enqueued,
         clients

LEMMA OneMore ==
    ASSUME NEW n \in Nat, NEW m \in Nat, m = 0 \/ m = 1, NEW i \in 1 .. n + m
    PROVE  i \in 1 .. n \/ (m = 1 /\ i = n + 1)
OBVIOUS

(* The processing thread: the first request is taken, its answer goes      *)
(* behind the answers that wait.                                           *)
LEMMA HandleLine ==
    ASSUME LineInv, handle_message
    PROVE  LineInv'
<1>1. /\ webRx # <<>>
      /\ webRx' = Tail(webRx)
      /\ webTx' = webTx \o Numbered(web_out')
      /\ asked' = asked
      /\ answered' = answered
  BY HandleEnqueues
<1>2. PICK new : /\ webTx' = webTx \o new
                 /\ IsASeq(new)
                 /\ DOMAIN new = {} \/ DOMAIN new = {1}
                 /\ \A i \in DOMAIN new : new[i].of = Head(webRx).of
  <2> DEFINE n == Numbered(web_out')
  <2>1. ASSUME web_out' = <<>> PROVE DOMAIN n = {} /\ n = <<>>
    BY <2>1 DEF Numbered
  <2>2. ASSUME NEW m, web_out' = <<m>>
        PROVE  /\ n = <<[msg |-> m, of |-> Head(webRx).of]>>
               /\ n \in Seq({[msg |-> m, of |-> Head(webRx).of]})
               /\ DOMAIN n = {1}
               /\ n[1].of = Head(webRx).of
    <3>1. DOMAIN web_out' = 1 .. 1 /\ web_out'[1] = m
      BY <2>2
    <3>2. n = [i \in 1 .. 1 |-> [msg |-> web_out'[i], of |-> Head(webRx).of]]
      BY <3>1 DEF Numbered
    <3> QED
      BY <3>1, <3>2
  <2>3. /\ IsASeq(n)
        /\ DOMAIN n = {} \/ DOMAIN n = {1}
        /\ \A i \in DOMAIN n : n[i].of = Head(webRx).of
    BY <2>1, <2>2, AtMostOneAnswer, EmptyIsASeq DEF IsASeq
  <2> QED
    BY <1>1, <2>3
<1>3. /\ IsASeq(webRx')
      /\ Len(webRx) \in Nat
      /\ Len(webRx) > 0
      /\ Head(webRx) = webRx[1]
      /\ DOMAIN webRx = 1 .. Len(webRx)
      /\ DOMAIN webRx' = 1 .. Len(webRx) - 1
      /\ \A i \in DOMAIN webRx' : webRx'[i] = webRx[i + 1]
  BY <1>1, Tailing DEF LineInv, QueuesOK
<1>4. /\ IsASeq(webTx')
      /\ Len(webTx) \in Nat
      /\ Len(new) \in Nat
      /\ DOMAIN webTx = 1 .. Len(webTx)
      /\ DOMAIN new = 1 .. Len(new)
      /\ DOMAIN webTx' = 1 .. Len(webTx) + Len(new)
      /\ \A i \in DOMAIN webTx : webTx'[i] = webTx[i]
      /\ \A i \in DOMAIN new : webTx'[Len(webTx) + i] = new[i]
  <2>1. IsASeq(webTx)
    BY DEF LineInv, QueuesOK
  <2>2. /\ IsASeq(webTx \o new)
        /\ Len(webTx) \in Nat
        /\ Len(new) \in Nat
        /\ DOMAIN webTx = 1 .. Len(webTx)
        /\ DOMAIN new = 1 .. Len(new)
        /\ DOMAIN (webTx \o new) = 1 .. Len(webTx) + Len(new)
        /\ \A i \in DOMAIN webTx : (webTx \o new)[i] = webTx[i]
        /\ \A i \in DOMAIN new : (webTx \o new)[Len(webTx) + i] = new[i]
    BY <2>1, <1>2, Joining
  <2> QED
    BY <2>2, <1>2
<1>5. Len(new) = 0 \/ Len(new) = 1
  BY <1>2, <1>4
<1>6. \A i \in DOMAIN webTx' :
         \/ i \in DOMAIN webTx /\ webTx'[i] = webTx[i]
         \/ i = Len(webTx) + 1 /\ webTx'[i].of = webRx[1].of
  <2> SUFFICES ASSUME NEW i \in DOMAIN webTx', i \notin DOMAIN webTx
               PROVE  i = Len(webTx) + 1 /\ webTx'[i].of = webRx[1].of
    BY <1>4
  <2>1. Len(new) = 1 /\ i = Len(webTx) + 1
    BY <1>4, <1>5, OneMore
  <2>2. 1 \in DOMAIN new
    BY <2>1, <1>4
  <2> QED
    BY <2>1, <2>2, <1>2, <1>3, <1>4
<1>7. 1 \in DOMAIN webRx /\ \A i \in DOMAIN webRx' : i + 1 \in DOMAIN webRx
  BY <1>3
<1>8. QueuesOK'
  BY <1>1, <1>3, <1>4 DEF LineInv, QueuesOK
<1>9. Asked'
  BY <1>1, <1>3, <1>6, <1>7 DEF LineInv, Asked, UpTo
<1>10. Increasing(webTx')
  <2> SUFFICES ASSUME NEW i \in DOMAIN webTx', NEW j \in DOMAIN webTx', i < j
               PROVE  webTx'[i].of < webTx'[j].of
    BY DEF Increasing
  <2>1. i \in DOMAIN webTx
    <3>1. j \in DOMAIN webTx \/ j = Len(webTx) + 1
      BY <1>4, <1>5, OneMore
    <3>2. i \in DOMAIN webTx \/ i = Len(webTx) + 1
      BY <1>4, <1>5, OneMore
    <3>3. Len(webTx) \in Nat
      BY <1>4
    <3> QED
      BY <3>1, <3>2, <3>3, <1>4
  <2> QED
    BY <2>1, <1>4, <1>6, <1>7 DEF LineInv, InLine, Increasing, Ahead
<1>11. Increasing(webRx')
  BY <1>3, <1>7 DEF LineInv, InLine, Increasing
<1>12. Ahead(webTx', webRx')
  <2> SUFFICES ASSUME NEW i \in DOMAIN webTx', NEW j \in DOMAIN webRx'
               PROVE  webTx'[i].of < webRx'[j].of
    BY DEF Ahead
  <2>1. webRx[1].of < webRx[j + 1].of /\ webRx'[j] = webRx[j + 1]
    BY <1>3, <1>7 DEF LineInv, InLine, Increasing
  <2> QED
    BY <2>1, <1>6, <1>7 DEF LineInv, InLine, Ahead
<1>13. Ahead(answered', webTx')
  BY <1>1, <1>6, <1>7 DEF LineInv, InLine, Ahead
<1>14. Ahead(answered', webRx')
  BY <1>1, <1>3, <1>7 DEF LineInv, InLine, Ahead
<1>15. Increasing(answered')
  BY <1>1 DEF LineInv, InLine
<1> QED
  BY <1>8, <1>9, <1>10, <1>11, <1>12, <1>13, <1>14, <1>15 DEF LineInv, InLine

LEMMA StepLine == LineInv /\ [CentralNext]_centralVars => LineInv'
<1> SUFFICES ASSUME LineInv, [CentralNext]_centralVars PROVE LineInv'
  OBVIOUS
<1>1. ASSUME UNCHANGED <<answered, webTx, webRx, asked>> PROVE LineInv'
  BY <1>1 DEF LineInv, QueuesOK, InLine, Asked, Increasing, Ahead, UpTo
<1>2. CASE UNCHANGED centralVars
  BY <1>1, <1>2 DEF centralVars, clients
<1>3. ASSUME NEW r \in Requests, on_message(r) PROVE LineInv'
  BY <1>3, AskLine
<1>4. CASE handle_message
  BY <1>4, HandleLine
<1>5. CASE send
  BY <1>5, SendLine
<1>6. CASE link_step
  BY <1>1, <1>6 DEF link_step, begin_command, command_arrives, finish_command,
                    clients
<1>7. ASSUME NEW pair \in PackageId \X BoxId, package_arrives(pair)
      PROVE  LineInv'
  BY <1>1, <1>7 DEF package_arrives, clients
<1> QED
  BY <1>2, <1>3, <1>4, <1>5, <1>6, <1>7 DEF CentralNext

(* The web queues keep the answers and the requests in the order in which  *)
(* the clients asked (MessageQueue.h:18-25, ProcessingThread.cpp:16-23).   *)
THEOREM LineHolds == CentralSpec => []LineInv
  BY InitLine, StepLine, PTL DEF CentralSpec

(* For every set of requests and every number of clients, the answers      *)
(* reach the clients in the order of the requests: each of the two queues  *)
(* is read from its front and written at its end, by one thread each       *)
(* (ProcessingThread.cpp:16-17, WebSocketQueueHandler.cpp:13-16).          *)
THEOREM AnswersInOrderHolds == CentralSpec => []AnswersInOrder
<1>1. LineInv => AnswersInOrder
  BY DEF LineInv, InLine, Increasing, AnswersInOrder
<1> QED
  BY <1>1, LineHolds, PTL
------------------------------------------------------------------------------
(* The packages on their way to a box *)

Resets(command, b) == command.msg.id = "BOX_CONNECT" /\ command.msg.box = b

Adds(command, b) == command.msg.id = "ADD_PACKAGE" /\ command.msg.box = b

(* The packages in box b once n of the commands w have reached the plant,  *)
(* if those in there are in it now.                                        *)
InBoxAfter(w, there, b, n) ==
    {p \in there : \A k \in 1 .. n : ~Resets(w[k], b)}
        \union
    {w[i].msg.package :
        i \in {j \in 1 .. n : /\ Adds(w[j], b)
                             /\ \A k \in j + 1 .. n : ~Resets(w[k], b)}}

(* A package is in the box either way. *)
LEMMA InBoxEither ==
    ASSUME NEW w, NEW there, NEW b, NEW n, NEW p
    PROVE  p \in InBoxAfter(w, there, b, n) <=>
              \/ p \in there /\ \A k \in 1 .. n : ~Resets(w[k], b)
              \/ \E i \in 1 .. n : /\ Adds(w[i], b)
                                   /\ p = w[i].msg.package
                                   /\ \A k \in i + 1 .. n : ~Resets(w[k], b)
BY DEF InBoxAfter

LEMMA JoinedParts ==
    ASSUME NEW w, IsASeq(w), NEW t, IsASeq(t)
    PROVE  /\ Len(w) \in Nat
           /\ Len(t) \in Nat
           /\ \A k \in 1 .. Len(w) : (w \o t)[k] = w[k]
           /\ \A k \in Len(w) + 1 .. Len(w) + Len(t) :
                 /\ k - Len(w) \in DOMAIN t
                 /\ (w \o t)[k] = t[k - Len(w)]
<1>1. /\ Len(w) \in Nat
      /\ Len(t) \in Nat
      /\ DOMAIN w = 1 .. Len(w)
      /\ DOMAIN t = 1 .. Len(t)
      /\ \A i \in DOMAIN w : (w \o t)[i] = w[i]
      /\ \A i \in DOMAIN t : (w \o t)[Len(w) + i] = t[i]
  <2> DEFINE v == w \o t
  <2>1. /\ Len(w) \in Nat
        /\ Len(t) \in Nat
        /\ DOMAIN w = 1 .. Len(w)
        /\ DOMAIN t = 1 .. Len(t)
    BY Joining, Zenon
  <2>2. \A i \in DOMAIN w : v[i] = w[i]
    BY Joining, Zenon
  <2>3. \A i \in DOMAIN t : v[Len(w) + i] = t[i]
    BY BehindTheFirst
  <2> QED
    BY <2>1, <2>2, <2>3
<1>3. \A k \in 1 .. Len(w) : (w \o t)[k] = w[k]
  BY <1>1
<1>2. ASSUME NEW k \in Len(w) + 1 .. Len(w) + Len(t)
      PROVE  /\ k - Len(w) \in DOMAIN t
             /\ (w \o t)[k] = t[k - Len(w)]
  <2>1. k - Len(w) \in 1 .. Len(t) /\ Len(w) + (k - Len(w)) = k
    BY <1>1
  <2> QED
    BY <1>1, <2>1
<1> QED
  BY <1>1, <1>2, <1>3

(* Commands that are enqueued and add no package to a box leave it with    *)
(* what the commands before them brought, or less.                         *)
LEMMA NothingAdded ==
    ASSUME NEW w, IsASeq(w), NEW t, IsASeq(t), NEW there, NEW b,
           \A i \in DOMAIN t : ~Adds(t[i], b),
           NEW n \in 0 .. Len(w) + Len(t)
    PROVE  InBoxAfter(w \o t, there, b, n) \subseteq
              InBoxAfter(w, there, b, IF n <= Len(w) THEN n ELSE Len(w))
<1> DEFINE m == IF n <= Len(w) THEN n ELSE Len(w)
<1>1. /\ Len(w) \in Nat
      /\ Len(t) \in Nat
      /\ \A k \in 1 .. Len(w) : (w \o t)[k] = w[k]
      /\ \A k \in Len(w) + 1 .. Len(w) + Len(t) :
            k - Len(w) \in DOMAIN t /\ (w \o t)[k] = t[k - Len(w)]
  BY JoinedParts
<1>2. m \in Nat /\ m <= n /\ m <= Len(w) /\ n \in Nat
  BY <1>1
<1>3. \A k \in 1 .. m : k \in 1 .. n /\ (w \o t)[k] = w[k]
  BY <1>1, <1>2
<1> SUFFICES ASSUME NEW p \in InBoxAfter(w \o t, there, b, n)
             PROVE  p \in InBoxAfter(w, there, b, m)
  OBVIOUS
<1>4. CASE p \in there /\ \A k \in 1 .. n : ~Resets((w \o t)[k], b)
  <2>1. \A k \in 1 .. m : ~Resets(w[k], b)
    BY <1>3, <1>4
  <2> HIDE DEF m
  <2> QED
    BY <1>4, <2>1, InBoxEither
<1>5. ASSUME NEW i \in 1 .. n, Adds((w \o t)[i], b),
             \A k \in i + 1 .. n : ~Resets((w \o t)[k], b),
             p = (w \o t)[i].msg.package
      PROVE  p \in InBoxAfter(w, there, b, m)
  <2>1. i \in 1 .. m
    <3>1. ASSUME i > Len(w) PROVE FALSE
      <4>1. i \in Len(w) + 1 .. Len(w) + Len(t)
        BY <1>1, <3>1
      <4> QED
        BY <4>1, <1>1, <1>5
    <3> QED
      BY <1>1, <3>1
  <2>2. (w \o t)[i] = w[i]
    BY <1>3, <2>1
  <2>3. ASSUME NEW k \in i + 1 .. m PROVE ~Resets(w[k], b)
    <3>1. k \in 1 .. m /\ k \in i + 1 .. n
      BY <1>2, <2>1
    <3> QED
      BY <1>3, <1>5, <3>1
  <2> HIDE DEF m
  <2> QED
    BY <1>5, <2>1, <2>2, <2>3, InBoxEither
<1> HIDE DEF m
<1>6. \/ p \in there /\ \A k \in 1 .. n : ~Resets((w \o t)[k], b)
      \/ \E i \in 1 .. n : /\ Adds((w \o t)[i], b)
                          /\ p = (w \o t)[i].msg.package
                          /\ \A k \in i + 1 .. n : ~Resets((w \o t)[k], b)
  <2> DEFINE v == w \o t
  <2>1. p \in InBoxAfter(v, there, b, n)
    OBVIOUS
  <2> HIDE DEF v
  <2>2. \/ p \in there /\ \A k \in 1 .. n : ~Resets(v[k], b)
        \/ \E i \in 1 .. n : /\ Adds(v[i], b)
                            /\ p = v[i].msg.package
                            /\ \A k \in i + 1 .. n : ~Resets(v[k], b)
    BY <2>1, InBoxEither
  <2> QED
    BY <2>2 DEF v
<1> QED
  BY <1>4, <1>5, <1>6

(* A box that is connected and gets no package afterwards is empty. *)
LEMMA BoxReset ==
    ASSUME NEW w, IsASeq(w), NEW t, IsASeq(t), NEW there, NEW b,
           \A i \in DOMAIN t : ~Adds(t[i], b),
           Len(t) > 0, Resets(t[1], b)
    PROVE  InBoxAfter(w \o t, there, b, Len(w) + Len(t)) = {}
<1> DEFINE n == Len(w) + Len(t)
<1>1. /\ Len(w) \in Nat
      /\ Len(t) \in Nat
      /\ \A k \in 1 .. Len(w) : (w \o t)[k] = w[k]
      /\ \A k \in Len(w) + 1 .. n :
            k - Len(w) \in DOMAIN t /\ (w \o t)[k] = t[k - Len(w)]
  BY JoinedParts
<1>2. Len(w) + 1 \in 1 .. n /\ Resets((w \o t)[Len(w) + 1], b)
  <2>1. Len(w) + 1 \in Len(w) + 1 .. n /\ (Len(w) + 1) - Len(w) = 1
    BY <1>1
  <2> QED
    BY <1>1, <2>1
<1> SUFFICES ASSUME NEW p \in InBoxAfter(w \o t, there, b, n) PROVE FALSE
  OBVIOUS
<1>3. CASE p \in there /\ \A k \in 1 .. n : ~Resets((w \o t)[k], b)
  BY <1>2, <1>3
<1>4. ASSUME NEW i \in 1 .. n, Adds((w \o t)[i], b),
             \A k \in i + 1 .. n : ~Resets((w \o t)[k], b)
      PROVE  FALSE
  <2>1. CASE i <= Len(w)
    <3>1. Len(w) + 1 \in i + 1 .. n
      BY <1>1, <2>1
    <3> QED
      BY <1>2, <1>4, <3>1
  <2>2. CASE i > Len(w)
    <3>1. i \in Len(w) + 1 .. n
      BY <1>1, <2>2
    <3> QED
      BY <1>1, <1>4, <3>1
  <2> QED
    BY <1>1, <2>1, <2>2
<1> HIDE DEF n
<1> QED
  BY <1>3, <1>4, InBoxEither

(* A package that is enqueued comes on top. *)
LEMMA OneAdded ==
    ASSUME NEW w, IsASeq(w), NEW e, NEW there, NEW b,
           NEW n \in 0 .. Len(w) + 1
    PROVE  /\ n <= Len(w) =>
                 InBoxAfter(w \o <<e>>, there, b, n) \subseteq
                    InBoxAfter(w, there, b, n)
           /\ InBoxAfter(w \o <<e>>, there, b, Len(w) + 1) \subseteq
                 InBoxAfter(w, there, b, Len(w)) \union
                    (IF Adds(e, b) THEN {e.msg.package} ELSE {})
<1> DEFINE v == w \o <<e>>
<1>1. IsASeq(<<e>>) /\ Len(<<e>>) = 1 /\ <<e>>[1] = e
  <2>1. <<e>> \in Seq({e})
    OBVIOUS
  <2> QED
    BY <2>1 DEF IsASeq
<1>2. /\ Len(w) \in Nat
      /\ \A k \in 1 .. Len(w) : v[k] = w[k]
  BY <1>1, JoinedParts
<1>3. v[Len(w) + 1] = e
  <2>1. Len(w) + 1 \in Len(w) + 1 .. Len(w) + 1
    BY <1>2
  <2>2. v[Len(w) + 1] = <<e>>[(Len(w) + 1) - Len(w)]
    BY <1>1, <2>1, JoinedParts
  <2>3. (Len(w) + 1) - Len(w) = 1
    BY <1>2
  <2> QED
    BY <1>1, <2>2, <2>3
<1> HIDE DEF v
<1>4. ASSUME n <= Len(w), NEW p \in InBoxAfter(v, there, b, n)
      PROVE  p \in InBoxAfter(w, there, b, n)
  <2>1. \A k \in 1 .. n : v[k] = w[k]
    BY <1>2, <1>4
  <2>2. \A i \in 1 .. n : \A k \in i + 1 .. n : v[k] = w[k]
    BY <1>2, <1>4
  <2> QED
    BY <2>1, <2>2, <1>4, InBoxEither
<1>5. ASSUME NEW p \in InBoxAfter(v, there, b, Len(w) + 1)
      PROVE  \/ p \in InBoxAfter(w, there, b, Len(w))
             \/ Adds(e, b) /\ p = e.msg.package
  <2>1. CASE p \in there /\ \A k \in 1 .. Len(w) + 1 : ~Resets(v[k], b)
    <3>1. \A k \in 1 .. Len(w) : ~Resets(w[k], b)
      BY <1>2, <2>1
    <3> QED
      BY <2>1, <3>1, InBoxEither
  <2>2. ASSUME NEW i \in 1 .. Len(w) + 1, Adds(v[i], b),
               \A k \in i + 1 .. Len(w) + 1 : ~Resets(v[k], b),
               p = v[i].msg.package
        PROVE  \/ p \in InBoxAfter(w, there, b, Len(w))
               \/ Adds(e, b) /\ p = e.msg.package
    <3>1. CASE i = Len(w) + 1
      BY <1>3, <2>2, <3>1
    <3>2. CASE i # Len(w) + 1
      <4>1. i \in 1 .. Len(w)
        BY <1>2, <3>2
      <4>2. \A k \in i + 1 .. Len(w) : ~Resets(w[k], b)
        BY <1>2, <2>2, <4>1
      <4> QED
        BY <1>2, <2>2, <4>1, <4>2, InBoxEither
    <3> QED
      BY <3>1, <3>2
  <2> QED
    BY <2>1, <2>2, <1>5, InBoxEither
<1>6. InBoxAfter(v, there, b, Len(w) + 1) \subseteq
         InBoxAfter(w, there, b, Len(w)) \union
            (IF Adds(e, b) THEN {e.msg.package} ELSE {})
  BY <1>5
<1> QED
  BY <1>4, <1>6 DEF v

(* A command that reaches the plant does there what it was going to do.    *)
LEMMA OneArrived ==
    ASSUME NEW w, IsASeq(w), NEW e, NEW there, NEW now, NEW b,
           \A p \in now : \/ p \in there /\ ~Resets(e, b)
                          \/ Adds(e, b) /\ p = e.msg.package,
           NEW n \in 0 .. Len(w), NEW m, m = n + 1
    PROVE  InBoxAfter(w, now, b, n) \subseteq
              InBoxAfter(<<e>> \o w, there, b, m)
<1> DEFINE v == <<e>> \o w
<1>1. IsASeq(<<e>>) /\ Len(<<e>>) = 1 /\ <<e>>[1] = e
  <2>1. <<e>> \in Seq({e})
    OBVIOUS
  <2> QED
    BY <2>1 DEF IsASeq
<1>2. Len(w) \in Nat /\ v[1] = e
  <2>1. 1 \in 1 .. Len(<<e>>)
    BY <1>1
  <2> QED
    BY <1>1, <2>1, JoinedParts
<1>3. ASSUME NEW k \in 2 .. n + 1 PROVE k - 1 \in 1 .. n /\ v[k] = w[k - 1]
  <2>1. k \in Len(<<e>>) + 1 .. Len(<<e>>) + Len(w)
    BY <1>1, <1>2
  <2>2. v[k] = w[k - Len(<<e>>)]
    BY <1>1, <2>1, JoinedParts
  <2> QED
    BY <1>1, <1>2, <2>2
<1> HIDE DEF v
<1>4. ASSUME NEW p \in now, \A k \in 1 .. n : ~Resets(w[k], b)
      PROVE  p \in InBoxAfter(v, there, b, n + 1)
  <2>1. \A k \in 2 .. n + 1 : ~Resets(v[k], b)
    BY <1>3, <1>4
  <2>2. CASE p \in there /\ ~Resets(e, b)
    <3>1. ASSUME NEW k \in 1 .. n + 1 PROVE ~Resets(v[k], b)
      <4>1. k = 1 \/ k \in 2 .. n + 1
        BY <1>2
      <4> QED
        BY <4>1, <1>2, <2>1, <2>2
    <3> QED
      BY <2>2, <3>1, InBoxEither
  <2>3. CASE Adds(e, b) /\ p = e.msg.package
    <3>1. 1 \in 1 .. n + 1 /\ 1 + 1 = 2
      BY <1>2
    <3> QED
      BY <1>2, <2>1, <2>3, <3>1, InBoxEither
  <2> QED
    BY <2>2, <2>3
<1>5. ASSUME NEW p, NEW i \in 1 .. n, Adds(w[i], b),
             \A k \in i + 1 .. n : ~Resets(w[k], b), p = w[i].msg.package
      PROVE  p \in InBoxAfter(v, there, b, n + 1)
  <2>1. /\ i + 1 \in 2 .. n + 1
        /\ i + 1 \in 1 .. n + 1
        /\ (i + 1) - 1 = i
    BY <1>2
  <2>2. v[i + 1] = w[i]
    BY <1>3, <2>1
  <2>3. ASSUME NEW k \in (i + 1) + 1 .. n + 1 PROVE ~Resets(v[k], b)
    <3>1. k \in 2 .. n + 1 /\ k - 1 \in i + 1 .. n
      BY <1>2
    <3> QED
      BY <1>3, <1>5, <3>1
  <2> QED
    BY <1>5, <2>1, <2>2, <2>3, InBoxEither
<1>6. \A p \in InBoxAfter(w, now, b, n) : p \in InBoxAfter(v, there, b, n + 1)
  BY <1>4, <1>5, InBoxEither
<1> QED
  BY <1>6 DEF v

------------------------------------------------------------------------------
(* The inductive invariant of the plant *)

RequestsOK == \A i \in DOMAIN webRx : webRx[i].request \in Requests

CommandsOK ==
    /\ IsASeq(antTx)
    /\ \A i \in DOMAIN antTx : antTx[i].of # 0
    /\ arrived \in BOOLEAN
    /\ sending = NoCommand => ~arrived

(* No two conveyors have a box of the same id; each box was asked for and  *)
(* is linked to its conveyor.                                              *)
IdsOK ==
    /\ \A c, d \in DOMAIN conveyors :
          HasBox(c) /\ HasBox(d)
             /\ conveyors[c].box.id = conveyors[d].box.id => c = d
    /\ \A c \in DOMAIN conveyors : HasBox(c) =>
          /\ \E r \in Requests : /\ r.id = "ADD_DESTINATION_BOX"
                                 /\ r.conveyor = c
                                 /\ r.box = conveyors[c].box.id
          /\ \E l \in Location :
                conveyors[c].connections[l].to = BOX_CONVEYOR_ID

(* The commands that have not reached the plant. *)
Waiting ==
    IF sending # NoCommand /\ ~arrived THEN <<sending>> \o antTx ELSE antTx

Load(b, n) == InBoxAfter(Waiting, PackagesIn(inside, b), b, n)

Fits(S) == IsFiniteSet(S) /\ Cardinality(S) <= DESTINATION_BOX_SIZE

(* Whatever part of the commands that wait has reached the plant, no box   *)
(* holds too much, and once all have, only what the books say is on its    *)
(* way.                                                                    *)
LoadOK ==
    /\ \A b \in BoxId : \A n \in 0 .. Len(Waiting) : Fits(Load(b, n))
    /\ \A c \in DOMAIN conveyors : HasBox(c) =>
          Load(conveyors[c].box.id, Len(Waiting))
             \subseteq conveyors[c].box.packages_transit

(* A box belongs to one conveyor, if the client does not use the ids of    *)
(* boxes again or asks for a box at one conveyor only.                     *)
OneConveyorPerBox ==
    \/ ~ClientReusesIds
    \/ \A q, r \in Requests :
          /\ q.id = "ADD_DESTINATION_BOX"
          /\ r.id = "ADD_DESTINATION_BOX"
          /\ q.box = r.box
          => q.conveyor = r.conveyor

(* The commands of a queue that come first, without their numbers. *)
Prefix(w, n) == [i \in 1 .. n |-> w[i].msg]

(* What the conveyors know once n of the commands have arrived. *)
KnownAfter(n) == Learned(known, Prefix(Waiting, n))

(* When all commands have arrived the conveyors know what they were told. *)
KnownOK ==
    /\ known = Learned(known, <<>>)
    /\ told = KnownAfter(Len(Waiting))

ToldInv == LineInv /\ RequestsOK /\ CommandsOK /\ LinksInv /\ KnownOK

Linked(knows, c) == {knows[c].connections[l].to : l \in Location}

(* The conveyors on some path over links to a box know it. *)
Reaches(knows, b) ==
    \E path, n :
        /\ Leads(knows, b, path, n)
        /\ n <= Cardinality(ConveyorId)
        /\ \A k \in 1 .. n : path[k + 1] \in Linked(knows, path[k])
        /\ BOX_CONVEYOR_ID \in Linked(knows, path[n + 1])

(* A package that waits is reached by a route when its turn has come. *)
PathsOK ==
    \A i \in 1 .. Len(Waiting) :
        Waiting[i].msg.id = "ADD_PACKAGE" =>
            Reaches(KnownAfter(i - 1), Waiting[i].msg.box)

PlantInv == ToldInv /\ RoutesInv /\ IdsOK /\ LoadOK /\ PathsOK

------------------------------------------------------------------------------
(* More about sequences *)

LEMMA HeadAndTail ==
    ASSUME NEW s, IsASeq(s), s # <<>>
    PROVE  <<Head(s)>> \o Tail(s) = s
<1>1. PICK S : s \in Seq(S)
  BY DEF IsASeq
<1> QED
  BY <1>1

LEMMA Associative ==
    ASSUME NEW e, NEW s, IsASeq(s), NEW t, IsASeq(t)
    PROVE  (<<e>> \o s) \o t = <<e>> \o (s \o t)
<1>1. PICK S : s \in Seq(S)
  BY DEF IsASeq
<1>2. PICK T : t \in Seq(T)
  BY DEF IsASeq
<1> DEFINE U == S \union T \union {e}
<1>3. s \in Seq(U) /\ t \in Seq(U) /\ <<e>> \in Seq(U)
  BY <1>1, <1>2
<1> HIDE DEF U
<1> QED
  BY <1>3

LEMMA AFunctionIsASeq ==
    ASSUME NEW n \in Nat, NEW f, f = [i \in 1 .. n |-> f[i]]
    PROVE  IsASeq(f) /\ Len(f) = n
<1> DEFINE S == {f[i] : i \in 1 .. n}
<1>1. f \in [1 .. n -> S]
  OBVIOUS
<1> HIDE DEF S
<1>2. f \in Seq(S) /\ Len(f) = n
  BY <1>1
<1> QED
  BY <1>2 DEF IsASeq

(* The commands of an operation, numbered. *)
LEMMA NumberedCommands ==
    ASSUME NEW m, IsASeq(m)
    PROVE  /\ IsASeq(Numbered(m))
           /\ Len(Numbered(m)) = Len(m)
           /\ DOMAIN Numbered(m) = DOMAIN m
           /\ \A i \in DOMAIN m : /\ Numbered(m)[i].msg = m[i]
                                  /\ Numbered(m)[i].of = Head(webRx).of
<1> DEFINE t == Numbered(m)
<1>1. Len(m) \in Nat /\ DOMAIN m = 1 .. Len(m)
  BY DEF IsASeq
<1>2. /\ t = [i \in 1 .. Len(m) |-> [msg |-> m[i], of |-> Head(webRx).of]]
      /\ DOMAIN t = DOMAIN m
      /\ \A i \in DOMAIN m : t[i].msg = m[i] /\ t[i].of = Head(webRx).of
  BY <1>1 DEF Numbered
<1>3. t = [i \in 1 .. Len(m) |-> t[i]]
  BY <1>1, <1>2
<1> HIDE DEF t
<1>4. IsASeq(t) /\ Len(t) = Len(m)
  BY <1>1, <1>3, AFunctionIsASeq
<1> QED
  BY <1>2, <1>4 DEF t

------------------------------------------------------------------------------
(* The messages of the operations *)

(* A new configuration sends disconnections and links only. *)
LEMMA DisconnectMessages ==
    ASSUME SystemOK
    PROVE  /\ IsASeq(clear_configuration)
           /\ \A i \in DOMAIN clear_configuration :
                 clear_configuration[i].id = "DISCONNECT"
<1> DEFINE ids == InOrder(DOMAIN conveyors, ById(DOMAIN conveyors))
           m == clear_configuration
           n == Cardinality(DOMAIN conveyors)
<1>1. n \in Nat
  <2>1. DOMAIN conveyors \in SUBSET ConveyorId
    BY DEF SystemOK
  <2> QED
    BY <2>1, ConveyorAssumption, FS_Subset, FS_CardinalityType
<1>2. DOMAIN ids = 1 .. n
  BY DEF InOrder
<1> HIDE DEF ids
<1>3. m = [i \in DOMAIN ids |-> Disconnect(ids[i])]
  BY DEF clear_configuration, ids
<1> HIDE DEF m, n
<1>4. DOMAIN m = 1 .. n /\ m = [i \in 1 .. n |-> m[i]]
  BY <1>2, <1>3
<1>5. \A i \in DOMAIN m : m[i].id = "DISCONNECT"
  BY <1>2, <1>3, <1>4 DEF Disconnect
<1>6. IsASeq(m)
  BY <1>1, <1>4, AFunctionIsASeq
<1> QED
  BY <1>5, <1>6 DEF m

LEMMA ConnectMessages ==
    ASSUME NEW config \in Configurations
    PROVE  /\ IsASeq(ConnectAll(config))
           /\ \A i \in DOMAIN ConnectAll(config) :
                 ConnectAll(config)[i].id = "CONVEYOR_CONNECT"
<1> DEFINE entries == InOrder(Entries(config),
                          ByKey(Entries(config)))
           m == ConnectAll(config)
           n == Cardinality(Entries(config))
<1>1. n \in Nat
  BY FS_CardinalityType, EntriesFinite
<1>2. DOMAIN entries = 1 .. n
  BY DEF InOrder
<1>3. m = [i \in DOMAIN entries |->
             ConnectEntry(config, entries[i][1], entries[i][2])]
  BY DEF ConnectAll, entries
<1> HIDE DEF m, n, entries
<1>4. DOMAIN m = 1 .. n /\ m = [i \in 1 .. n |-> m[i]]
  BY <1>2, <1>3
<1>5. \A i \in DOMAIN m : m[i].id = "CONVEYOR_CONNECT"
  BY <1>2, <1>3, <1>4 DEF ConnectEntry, ConveyorConnect
<1>6. IsASeq(m)
  BY <1>1, <1>4, AFunctionIsASeq
<1> QED
  BY <1>5, <1>6 DEF m

(* A new box sends its connection, then routes only. *)
LEMMA BoxMessages ==
    ASSUME IsFiniteSet(DOMAIN conveyors'), NEW c, NEW b, NEW location,
           NEW path \in calculate_routing_plan(conveyors', c)
    PROVE  LET m == <<BoxConnect(c, b, location)>>
                        \o RoutingMessages(b, path)
           IN /\ IsASeq(m)
              /\ Len(m) > 0
              /\ m[1].id = "BOX_CONNECT"
              /\ m[1].box = b
              /\ \A i \in DOMAIN m : m[i].id # "ADD_PACKAGE"
<1> DEFINE graph == Graph(conveyors')
           routes == RoutingMessages(b, path)
           first == BoxConnect(c, b, location)
<1>1. DOMAIN graph = DOMAIN conveyors'
  BY DEF Graph
<1>2. Cardinality(DOMAIN graph) \in Nat
  BY <1>1, FS_CardinalityType
<1>3. PICK n \in Nat : path \in [1 .. n + 1 -> DOMAIN graph]
  <2>1. path \in ShortestPaths(graph, c)
    BY DEF calculate_routing_plan
  <2> HIDE DEF graph
  <2>2. PICK n \in 0 .. Cardinality(DOMAIN graph) :
           path \in PathsTo(graph, c, n)
    BY <2>1 DEF ShortestPaths
  <2> QED
    BY <1>2, <2>2 DEF PathsTo, PathsOfLength
<1> HIDE DEF graph
<1>4. DOMAIN path = 1 .. n + 1
  BY <1>3
<1>5. /\ routes = [i \in 1 .. n + 1 |-> routes[i]]
      /\ DOMAIN routes = 1 .. n + 1
      /\ \A i \in DOMAIN routes : routes[i].id = "ROUTING_PLAN"
  BY <1>4 DEF RoutingMessages, RoutingPlan
<1>6. first.id = "BOX_CONNECT" /\ first.box = b
  BY DEF BoxConnect
<1> HIDE DEF routes, first
<1>7. IsASeq(routes) /\ Len(routes) = n + 1
  BY <1>5, AFunctionIsASeq
<1>8. IsASeq(<<first>>) /\ Len(<<first>>) = 1 /\ <<first>>[1] = first
  <2>1. <<first>> \in Seq({first})
    OBVIOUS
  <2> QED
    BY <2>1 DEF IsASeq
<1> DEFINE m == <<first>> \o routes
<1>9. /\ IsASeq(m)
      /\ DOMAIN m = 1 .. 1 + (n + 1)
  BY <1>7, <1>8, Joining
<1>10. m[1] = first
  BY <1>7, <1>8, JoinedParts
<1>11. ASSUME NEW i \in DOMAIN m PROVE m[i].id # "ADD_PACKAGE"
  <2>1. CASE i = 1
    BY <1>6, <1>10, <2>1
  <2>2. CASE i # 1
    <3>1. i \in Len(<<first>>) + 1 .. Len(<<first>>) + Len(routes)
      BY <1>7, <1>8, <1>9, <2>2
    <3>2. /\ i - Len(<<first>>) \in DOMAIN routes
          /\ m[i] = routes[i - Len(<<first>>)]
      BY <1>7, <1>8, <3>1, JoinedParts
    <3> QED
      BY <1>5, <3>2
  <2> QED
    BY <2>1, <2>2
<1>12. Len(m) > 0
  <2>1. Len(m) \in Nat /\ DOMAIN m = 1 .. Len(m)
    BY <1>9 DEF IsASeq
  <2>2. 1 \in DOMAIN m
    BY <1>9
  <2> QED
    BY <2>1, <2>2
<1> QED
  BY <1>6, <1>9, <1>10, <1>11, <1>12 DEF first, routes

------------------------------------------------------------------------------
(* The books *)

(* What an operation does that sends no package: a box there is afterwards *)
(* was there before with no more on its way, or is connected first.        *)
NoPackageSent ==
    /\ IsASeq(ant_out')
    /\ \A i \in DOMAIN ant_out' : ant_out'[i].id # "ADD_PACKAGE"
    /\ \A d \in DOMAIN conveyors' : is_initialized(conveyors'[d].box) =>
          \/ /\ HasBox(d)
             /\ conveyors'[d].box.id = conveyors[d].box.id
             /\ conveyors[d].box.packages_transit
                   \subseteq conveyors'[d].box.packages_transit
          \/ /\ Len(ant_out') > 0
             /\ ant_out'[1].id = "BOX_CONNECT"
             /\ ant_out'[1].box = conveyors'[d].box.id

(* What one does that sends package p to the box of conveyor c. *)
PackageSent(c, p) ==
    /\ HasBox(c)
    /\ \E m : /\ ant_out' = <<m>>
              /\ m.id = "ADD_PACKAGE"
              /\ m.box = conveyors[c].box.id
              /\ m.package = p
    /\ DOMAIN conveyors' = DOMAIN conveyors
    /\ conveyors'[c].box.id = conveyors[c].box.id
    /\ conveyors'[c].box.packages_transit =
          conveyors[c].box.packages_transit \union {p}
    /\ Fits(conveyors'[c].box.packages_transit)
    /\ \A d \in DOMAIN conveyors :
          d # c => conveyors'[d].box = conveyors[d].box

LEMMA QuietIds ==
    ASSUME IdsOK, Quiet
    PROVE  IdsOK'
BY DEF IdsOK, Quiet, HasBox

(* A new configuration has no boxes. *)
LEMMA SetStateSends ==
    ASSUME SystemOK, NEW config \in Configurations, set_state(config)
    PROVE  IdsOK' /\ NoPackageSent
<1> DEFINE off == clear_configuration
           on == ConnectAll(config)
<1>1. /\ conveyors' = Configured(config)
      /\ ant_out' = off \o on
  BY DEF set_state, Send
<1>2. /\ DOMAIN conveyors' = DOMAIN config
      /\ \A c \in DOMAIN config :
            conveyors'[c] = [connections |-> ConnectionsOf(config, c),
                             box |-> NewBox]
  BY <1>1 DEF Configured, NoConveyor
<1>4. ~is_initialized(NewBox)
  BY DEF NewBox, is_initialized
<1>5. IdsOK'
  BY <1>2, <1>4 DEF IdsOK, HasBox
<1>6. \A c \in DOMAIN conveyors' : ~is_initialized(conveyors'[c].box)
  BY <1>2, <1>4
<1>7. /\ IsASeq(off) /\ IsASeq(on)
      /\ \A i \in DOMAIN off : off[i].id # "ADD_PACKAGE"
      /\ \A i \in DOMAIN on : on[i].id # "ADD_PACKAGE"
  BY DisconnectMessages, ConnectMessages
<1> HIDE DEF off, on
<1>8. IsASeq(off \o on) /\ DOMAIN (off \o on) = 1 .. Len(off) + Len(on)
  BY <1>7, Joining
<1>9. ASSUME NEW i \in DOMAIN (off \o on)
      PROVE  (off \o on)[i].id # "ADD_PACKAGE"
  <2>1. Len(off) \in Nat /\ Len(on) \in Nat
    BY <1>7, JoinedParts
  <2>2. CASE i \in 1 .. Len(off)
    <3>1. (off \o on)[i] = off[i] /\ DOMAIN off = 1 .. Len(off)
      BY <1>7, <2>2, JoinedParts, Joining
    <3> QED
      BY <1>7, <2>2, <3>1
  <2>3. CASE i \in Len(off) + 1 .. Len(off) + Len(on)
    <3>1. /\ i - Len(off) \in DOMAIN on
          /\ (off \o on)[i] = on[i - Len(off)]
      BY <1>7, <2>3, JoinedParts
    <3> QED
      BY <1>7, <3>1
  <2> QED
    BY <1>8, <2>1, <2>2, <2>3
<1> QED
  BY <1>1, <1>5, <1>6, <1>8, <1>9 DEF NoPackageSent

LEMMA FoundBox ==
    ASSUME SystemOK, NEW b, box_available(b)
    PROVE  /\ find_box(b) \in DOMAIN conveyors
           /\ HasBox(find_box(b))
           /\ conveyors[find_box(b)].box.id = b
<1>1. Holders(b) \in SUBSET Nat /\ Holders(b) # {}
  BY ConveyorAssumption DEF SystemOK, Holders, box_available
<1>2. Min(Holders(b)) \in Holders(b)
  BY <1>1, MinIsMember
<1> QED
  BY <1>2 DEF find_box, box_available, Holders

(* A box that is added gets an id that no other box has. *)
LEMMA NewBoxIds ==
    ASSUME OneConveyorPerBox, SystemInv, IdsOK,
           NEW c, NEW b \in BoxId, NEW location \in BoxLocations,
           FreshBox(b), RoomForBox(c, location), ConnectBox(c, b, location),
           \E r \in Requests : /\ r.id = "ADD_DESTINATION_BOX"
                               /\ r.conveyor = c
                               /\ r.box = b
    PROVE  Holders(b) = {} /\ IdsOK'
<1>1. /\ DOMAIN conveyors' = DOMAIN conveyors
      /\ c \in DOMAIN conveyors
      /\ location \in Location
      /\ \A d \in DOMAIN conveyors : d # c => conveyors'[d] = conveyors[d]
      /\ conveyors'[c].connections[location] = BoxConnection
      /\ conveyors'[c].box.id = b
  <2>1. /\ DOMAIN conveyors' = DOMAIN conveyors
        /\ \A d \in DOMAIN conveyors : d # c => conveyors'[d] = conveyors[d]
        /\ conveyors'[c].box.id = b
    BY BoxLinks
  <2>2. c \in DOMAIN conveyors /\ location \in Location
    BY DEF RoomForBox, CanHoldBox
  <2>3. conveyors'[c].connections[location] = BoxConnection
    <3>1. PICK S \in SUBSET ConveyorId : conveyors \in [S -> Conveyor]
      BY DEF SystemInv, SystemOK
    <3>2. conveyors[c].connections \in [Location -> Connection]
      BY <2>2, <3>1 DEF Conveyor
    <3>3. conveyors'[c].connections =
             [conveyors[c].connections EXCEPT ![location] = BoxConnection]
      BY <2>2, <3>1 DEF ConnectBox
    <3> QED
      BY <2>2, <3>2, <3>3
  <2> QED
    BY <2>1, <2>2, <2>3
<1>2. ASSUME NEW d \in DOMAIN conveyors, HasBox(d), conveyors[d].box.id = b
      PROVE  FALSE
  <2>1. CASE ~ClientReusesIds
    BY <1>2, <2>1 DEF FreshBox, box_available, Holders
  <2>2. PICK r \in Requests : /\ r.id = "ADD_DESTINATION_BOX"
                              /\ r.conveyor = d
                              /\ r.box = b
    BY <1>2 DEF IdsOK
  <2>3. d # c
    BY <1>2 DEF RoomForBox, CanHoldBox
  <2> QED
    BY <2>1, <2>2, <2>3 DEF OneConveyorPerBox
<1>3. Holders(b) = {}
  BY <1>2 DEF Holders
<1>4. \A d \in DOMAIN conveyors : d # c =>
         /\ conveyors'[d].box = conveyors[d].box
         /\ HasBox(d)' => HasBox(d)
  BY <1>1 DEF HasBox
<1>5. \A d, e \in DOMAIN conveyors' :
         HasBox(d)' /\ HasBox(e)'
            /\ conveyors'[d].box.id = conveyors'[e].box.id => d = e
  BY <1>1, <1>2, <1>4 DEF IdsOK
<1>6. ASSUME NEW d \in DOMAIN conveyors', HasBox(d)'
      PROVE  /\ \E r \in Requests : /\ r.id = "ADD_DESTINATION_BOX"
                                    /\ r.conveyor = d
                                    /\ r.box = conveyors'[d].box.id
             /\ \E l \in Location :
                   conveyors'[d].connections[l].to = BOX_CONVEYOR_ID
  <2>1. CASE d = c
    BY <1>1, <2>1 DEF BoxConnection
  <2>2. CASE d # c
    BY <1>1, <1>4, <1>6, <2>2 DEF IdsOK
  <2> QED
    BY <2>1, <2>2
<1> QED
  BY <1>3, <1>5, <1>6 DEF IdsOK

LEMMA AddBoxSends ==
    ASSUME SystemInv, SystemInv', NEW c, NEW b \in BoxId,
           NEW location \in BoxLocations,
           \/ add_destination_box(c, b, location)
           \/ add_destination_box_crashes(c, b, location)
    PROVE  NoPackageSent
<1>1. RoomForBox(c, location) /\ ConnectBox(c, b, location)
  BY DEF add_destination_box, add_destination_box_crashes
<1>2. /\ DOMAIN conveyors' = DOMAIN conveyors
      /\ \A d \in DOMAIN conveyors : d # c => conveyors'[d] = conveyors[d]
      /\ conveyors'[c].box.id = b
  BY <1>1, BoxLinks
<1>3. /\ IsASeq(ant_out')
      /\ Len(ant_out') > 0
      /\ ant_out'[1].id = "BOX_CONNECT"
      /\ ant_out'[1].box = b
      /\ \A i \in DOMAIN ant_out' : ant_out'[i].id # "ADD_PACKAGE"
  <2>1. CASE add_destination_box(c, b, location)
    <3>1. PICK path \in calculate_routing_plan(conveyors', c) :
             ant_out' = <<BoxConnect(c, b, location)>>
                           \o RoutingMessages(b, path)
      BY <2>1 DEF add_destination_box, Send
    <3>2. DOMAIN conveyors' \in SUBSET ConveyorId
      BY DEF SystemInv, SystemOK
    <3>3. IsFiniteSet(DOMAIN conveyors')
      BY <3>2, ConveyorAssumption, FS_Subset
    <3> QED
      BY <3>1, <3>3, BoxMessages
  <2>2. CASE add_destination_box_crashes(c, b, location)
    <3> DEFINE m == BoxConnect(c, b, location)
    <3>1. ant_out' = <<m>>
      BY <2>2 DEF add_destination_box_crashes, Send
    <3>2. m.id = "BOX_CONNECT" /\ m.box = b
      BY DEF BoxConnect
    <3> HIDE DEF m
    <3>3. /\ IsASeq(<<m>>)
          /\ Len(<<m>>) = 1
          /\ DOMAIN <<m>> = {1}
          /\ <<m>>[1] = m
      BY OneIsASeq
    <3> QED
      BY <3>1, <3>2, <3>3
  <2> QED
    BY <2>1, <2>2
<1>4. \A d \in DOMAIN conveyors' : is_initialized(conveyors'[d].box) =>
         \/ HasBox(d) /\ conveyors'[d].box = conveyors[d].box
         \/ conveyors'[d].box.id = b
  BY <1>2 DEF HasBox
<1> QED
  BY <1>3, <1>4 DEF NoPackageSent

(* The box of one conveyor changes. *)
LEMMA BoxUpdated ==
    ASSUME SystemOK, NEW c \in DOMAIN conveyors, NEW box,
           conveyors' = WithBox(c, box)
    PROVE  /\ DOMAIN conveyors' = DOMAIN conveyors
           /\ conveyors'[c].box = box
           /\ \A d \in DOMAIN conveyors :
                 d # c => conveyors'[d].box = conveyors[d].box
BY DEF SystemOK, Conveyor, WithBox

(* A package is sent to the box of one conveyor, which has room for it. *)
LEMMA PackageSends ==
    ASSUME SystemInv, NEW p \in PackageId, send_package(p)
    PROVE  \E c \in DOMAIN conveyors : PackageSent(c, p)
<1> DEFINE able == Candidates(ColourOf[p])
           c == Min(able)
           old == conveyors[c].box
           new == add_package(old, p, ColourOf[p])
<1>1. able \in SUBSET Nat /\ able # {}
  BY ConveyorAssumption DEF SystemInv, SystemOK, Candidates, send_package
<1>2. c \in able
  BY <1>1, MinIsMember
<1>3. /\ c \in DOMAIN conveyors
      /\ HasBox(c)
      /\ adds_package(old, ColourOf[p])
  BY <1>2 DEF Candidates
<1>4. /\ conveyors' = WithBox(c, new)
      /\ ant_out' = <<AddPackage(old.id, p)>>
  BY DEF send_package, Send
<1>5. BoxInv(old)
  BY <1>3 DEF SystemInv
<1>6. SystemOK
  BY DEF SystemInv
<1> HIDE DEF c, able
<1>7. /\ new.id = old.id
      /\ new.packages_transit = old.packages_transit \union {p}
  <2>1. new = [old EXCEPT !.package_type = ColourOf[p],
                          !.packages_transit = @ \union {p}]
    BY <1>3 DEF add_package
  <2> HIDE DEF old, new
  <2> QED
    BY <1>5, <2>1 DEF BoxInv, Box
<1>8. Fits(new.packages_transit)
  <2>1. BoxInv(new)
    BY <1>5, AddPackageInv
  <2> HIDE DEF new
  <2>2. /\ IsFiniteSet(new.packages_transit)
        /\ Cardinality(new.packages_stored) \in Nat
        /\ Cardinality(new.packages_transit) \in Nat
    BY <2>1, FS_CardinalityType DEF BoxInv
  <2>3. Cardinality(new.packages_stored) + Cardinality(new.packages_transit)
           <= DESTINATION_BOX_SIZE
    BY <2>1 DEF BoxInv, Occupancy
  <2> QED
    BY <2>2, <2>3, BoxSizeAssumption DEF Fits
<1> HIDE DEF new
<1>9. /\ DOMAIN conveyors' = DOMAIN conveyors
      /\ conveyors'[c].box = new
      /\ \A d \in DOMAIN conveyors :
            d # c => conveyors'[d].box = conveyors[d].box
  BY <1>3, <1>4, <1>6, BoxUpdated
<1> HIDE DEF old
<1>10. \E m : /\ ant_out' = <<m>>
              /\ m.id = "ADD_PACKAGE"
              /\ m.box = old.id
              /\ m.package = p
  BY <1>4 DEF AddPackage
<1>11. PackageSent(c, p)
  BY <1>3, <1>7, <1>8, <1>9, <1>10 DEF PackageSent, old
<1> QED
  BY <1>3, <1>11

(* A stored package that is removed was not on its way. *)
LEMMA RemovalSends ==
    ASSUME SystemInv, NEW p \in PackageId, NEW b, package_removed(p, b)
    PROVE  NoPackageSent
<1> DEFINE c == find_box(b)
           old == conveyors[c].box
           new == remove_package(old, p)
           m == RemovePackage(c, b, p)
<1>1. /\ box_available(b)
      /\ conveyors' = WithBox(c, new)
      /\ ant_out' = <<m>>
  BY DEF package_removed, Send
<1>2. SystemOK
  BY DEF SystemInv
<1>3. c \in DOMAIN conveyors /\ HasBox(c)
  BY <1>1, <1>2, FoundBox
<1>4. old \in Box
  BY <1>3 DEF SystemInv, BoxInv
<1>5. m.id = "REMOVE_PACKAGE"
  BY DEF RemovePackage
<1> HIDE DEF c, m, old
<1>6. /\ new.id = old.id
      /\ new.package_type = old.package_type
      /\ new.packages_transit = old.packages_transit
  BY <1>4 DEF remove_package, Box
<1> HIDE DEF new
<1>7. /\ DOMAIN conveyors' = DOMAIN conveyors
      /\ conveyors'[c].box = new
      /\ \A d \in DOMAIN conveyors :
            d # c => conveyors'[d].box = conveyors[d].box
  BY <1>1, <1>2, <1>3, BoxUpdated
<1>8. IsASeq(ant_out') /\ \A i \in DOMAIN ant_out' : ant_out'[i] = m
  <2>1. /\ IsASeq(<<m>>)
        /\ DOMAIN <<m>> = {1}
        /\ <<m>>[1] = m
    BY OneIsASeq
  <2> QED
    BY <1>1, <2>1
<1> QED
  BY <1>3, <1>5, <1>6, <1>7, <1>8 DEF NoPackageSent, HasBox, is_initialized, old

(* The first request is one that clients send. *)
LEMMA RequestIsTyped ==
    ASSUME LineInv, RequestsOK, webRx # <<>>
    PROVE  request \in Requests /\ request \in Request
<1>1. IsASeq(webRx)
  BY DEF LineInv, QueuesOK
<1>2. /\ Len(webRx) \in Nat
      /\ Len(webRx) > 0
      /\ Head(webRx) = webRx[1]
      /\ DOMAIN webRx = 1 .. Len(webRx)
  BY <1>1, Tailing
<1>3. 1 \in DOMAIN webRx
  BY <1>2
<1> QED
  BY <1>2, <1>3, RequestAssumption DEF RequestsOK, request

(* What an operation does that sends no package and changes no book. *)
NothingChanged ==
    /\ UNCHANGED conveyors
    /\ ant_out' = <<>> \/ \E m : ant_out' = <<m>> /\ m.id = "CLEAR_BOX"

(* What the handlers of the requests do: a new configuration, a new box    *)
(* that was asked for, or something that changes no link and no box id.    *)
HandleKinds ==
    \/ \E config \in Configurations : set_state(config)
    \/ \E r \in Requests \intersect Request :
          /\ r.id = "ADD_DESTINATION_BOX"
          /\ \/ add_destination_box(r.conveyor, r.box, r.location)
             \/ add_destination_box_crashes(r.conveyor, r.box, r.location)
    \/ /\ Quiet
       /\ \/ \E p \in PackageId : send_package(p)
          \/ \E p \in PackageId, b \in BoxId : package_removed(p, b)
          \/ NothingChanged

LEMMA HandleIsOfKind ==
    ASSUME LineInv, RequestsOK, SystemInv, ToldOK, handle_message
    PROVE  HandleKinds
<1>1. request \in Requests /\ request \in Request
  BY HandleEnqueues, RequestIsTyped
<1>2. CASE handle_CONVEYOR_STATE_MSG
  <2>1. /\ request.id = "CONVEYOR_STATE_MSG"
        /\ set_state(request.config)
    BY <1>2 DEF handle_CONVEYOR_STATE_MSG, TakeRequest
  <2>2. request.config \in Configurations
    BY <1>1, <2>1 DEF Request
  <2> QED
    BY <2>1, <2>2 DEF HandleKinds
<1>3. CASE handle_ADD_DESTINATION_BOX
  <2> DEFINE c == request.conveyor
             b == request.box
             location == request.location
  <2>1. /\ request.id = "ADD_DESTINATION_BOX"
        /\ \/ add_destination_box(c, b, location)
           \/ add_destination_box_refused(c, b, location)
           \/ add_destination_box_crashes(c, b, location)
           \/ add_destination_box_out_of_range(c, b, location)
    BY <1>3 DEF handle_ADD_DESTINATION_BOX, TakeRequest
  <2>2. c \in ConveyorId /\ b \in BoxId /\ location \in BoxLocations
    BY <1>1, <2>1 DEF Request
  <2>3. CASE add_destination_box_refused(c, b, location)
    <3> HIDE DEF c, b, location
    <3>1. Quiet
      BY <2>2, <2>3, OtherStepsAreQuiet DEF OtherStep
    <3>2. NothingChanged
      BY <2>3 DEF add_destination_box_refused, Send, NothingChanged
    <3> QED
      BY <3>1, <3>2 DEF HandleKinds
  <2>4. CASE add_destination_box_out_of_range(c, b, location)
    <3> HIDE DEF c, b, location
    <3>1. Quiet
      BY <2>2, <2>4, OtherStepsAreQuiet DEF OtherStep
    <3>2. NothingChanged
      BY <2>4 DEF add_destination_box_out_of_range, Send, NothingChanged
    <3> QED
      BY <3>1, <3>2 DEF HandleKinds
  <2> QED
    BY <1>1, <2>1, <2>3, <2>4 DEF HandleKinds
<1>4. CASE handle_ADD_PACKAGE
  <2> DEFINE p == request.package
  <2>1. /\ request.id = "ADD_PACKAGE"
        /\ send_package(p) \/ send_package_refused(p)
    BY <1>4 DEF handle_ADD_PACKAGE, TakeRequest
  <2>2. p \in PackageId
    BY <1>1, <2>1 DEF Request
  <2> HIDE DEF p
  <2>3. Quiet
    BY <2>1, <2>2, OtherStepsAreQuiet DEF OtherStep
  <2>4. send_package_refused(p) => NothingChanged
    BY DEF send_package_refused, Send, NothingChanged
  <2> QED
    BY <2>1, <2>2, <2>3, <2>4 DEF HandleKinds
<1>5. CASE handle_DESTINATION_BOX_STATUS
  <2> DEFINE b == request.box
  <2>1. /\ request.id = "DESTINATION_BOX_STATUS"
        /\ \/ get_destination_box_state(b)
           \/ /\ Send(<<>>, <<>>)
              /\ UNCHANGED <<conveyors, crashed, clearing>>
    BY <1>5 DEF handle_DESTINATION_BOX_STATUS, TakeRequest
  <2>2. b \in BoxId
    BY <1>1, <2>1 DEF Request
  <2> HIDE DEF b
  <2>3. CASE get_destination_box_state(b)
    <3>1. Quiet
      BY <2>2, <2>3, OtherStepsAreQuiet DEF OtherStep
    <3>2. NothingChanged
      BY <2>3 DEF get_destination_box_state, Send, NothingChanged
    <3> QED
      BY <3>1, <3>2 DEF HandleKinds
  <2>4. CASE Send(<<>>, <<>>) /\ UNCHANGED <<conveyors, crashed, clearing>>
    <3>1. told' = told
      BY <2>4, QuietSend
    <3>2. Quiet
      BY <2>4, <3>1 DEF Quiet
    <3>3. NothingChanged
      BY <2>4 DEF Send, NothingChanged
    <3> QED
      BY <3>2, <3>3 DEF HandleKinds
  <2> QED
    BY <2>1, <2>3, <2>4
<1>6. CASE handle_REMOVE_PACKAGE
  <2> DEFINE p == request.package
             b == request.box
  <2>1. /\ request.id = "REMOVE_PACKAGE"
        /\ package_removed(p, b) \/ package_removal_refused(p, b)
    BY <1>6 DEF handle_REMOVE_PACKAGE, TakeRequest
  <2>2. p \in PackageId /\ b \in BoxId
    BY <1>1, <2>1 DEF Request
  <2> HIDE DEF p, b
  <2>3. Quiet
    BY <2>1, <2>2, OtherStepsAreQuiet DEF OtherStep
  <2>4. package_removal_refused(p, b) => NothingChanged
    BY DEF package_removal_refused, Send, NothingChanged
  <2> QED
    BY <2>1, <2>2, <2>3, <2>4 DEF HandleKinds
<1>7. CASE handle_CLEAR_BOX
  <2> DEFINE b == request.box
  <2>1. /\ request.id = "CLEAR_BOX"
        /\ clear_box_requested(b) \/ clear_box_refused(b)
    BY <1>7 DEF handle_CLEAR_BOX, TakeRequest
  <2>2. b \in BoxId
    BY <1>1, <2>1 DEF Request
  <2> HIDE DEF b
  <2>3. Quiet
    BY <2>1, <2>2, OtherStepsAreQuiet DEF OtherStep
  <2>4. ASSUME clear_box_requested(b)
        PROVE  NothingChanged
    <3>1. /\ UNCHANGED conveyors
          /\ ant_out' = <<ClearBox(find_box(b), b)>>
      BY <2>4 DEF clear_box_requested, Send
    <3>2. \E m : ant_out' = <<m>> /\ m.id = "CLEAR_BOX"
      BY <3>1 DEF ClearBox
    <3> QED
      BY <3>1, <3>2 DEF NothingChanged
  <2>5. clear_box_refused(b) => NothingChanged
    BY DEF clear_box_refused, Send, NothingChanged
  <2> QED
    BY <2>1, <2>3, <2>4, <2>5 DEF HandleKinds
<1> QED
  BY <1>2, <1>3, <1>4, <1>5, <1>6, <1>7 DEF handle_message

LEMMA BoxRequestIsTyped ==
    ASSUME NEW r \in Requests \intersect Request,
           r.id = "ADD_DESTINATION_BOX"
    PROVE  /\ r.conveyor \in ConveyorId
           /\ r.box \in BoxId
           /\ r.location \in BoxLocations
BY DEF Request

(* Every operation keeps the books and the plant in step.                  *)
LEMMA HandleLinks ==
    ASSUME LinksInv, HandleKinds
    PROVE  LinksInv'
<1>1. SystemInv /\ ToldOK /\ ToldMatchesConveyors
  BY DEF LinksInv
<1>2. ASSUME Next
      PROVE  LinksInv'
  BY <1>2, LinksInvInductive
<1>3. ASSUME NEW config \in Configurations, set_state(config)
      PROVE  LinksInv'
  BY <1>2, <1>3 DEF Next
<1>4. ASSUME NEW r \in Requests \intersect Request,
             r.id = "ADD_DESTINATION_BOX",
             \/ add_destination_box(r.conveyor, r.box, r.location)
             \/ add_destination_box_crashes(r.conveyor, r.box, r.location)
      PROVE  LinksInv'
  <2>1. /\ r.conveyor \in ConveyorId
        /\ r.box \in BoxId
        /\ r.location \in BoxLocations
    BY <1>4, BoxRequestIsTyped
  <2> QED
    BY <1>2, <1>4, <2>1 DEF Next
<1>5. ASSUME NEW p \in PackageId, send_package(p)
      PROVE  LinksInv'
  BY <1>2, <1>5 DEF Next
<1>6. ASSUME NEW p \in PackageId, NEW b \in BoxId, package_removed(p, b)
      PROVE  LinksInv'
  BY <1>2, <1>6 DEF Next
<1>7. ASSUME Quiet, NothingChanged
      PROVE  LinksInv'
  BY <1>1, <1>7 DEF LinksInv, SystemInv, SystemOK, ToldOK,
                    ToldMatchesConveyors, Quiet, NothingChanged
<1> QED
  BY <1>3, <1>4, <1>5, <1>6, <1>7 DEF HandleKinds

(* An operation sends one package or none. *)
LEMMA HandleSends ==
    ASSUME LinksInv, HandleKinds
    PROVE  \/ NoPackageSent
           \/ \E c \in DOMAIN conveyors, p \in PackageId : PackageSent(c, p)
<1>1. SystemInv /\ SystemOK
  BY DEF LinksInv, SystemInv
<1>2. SystemInv'
  BY HandleLinks DEF LinksInv
<1>3. ASSUME NEW config \in Configurations, set_state(config)
      PROVE  NoPackageSent
  BY <1>1, <1>3, SetStateSends
<1>4. ASSUME NEW r \in Requests \intersect Request,
             r.id = "ADD_DESTINATION_BOX",
             \/ add_destination_box(r.conveyor, r.box, r.location)
             \/ add_destination_box_crashes(r.conveyor, r.box, r.location)
      PROVE  NoPackageSent
  <2>1. r.box \in BoxId /\ r.location \in BoxLocations
    BY <1>4, BoxRequestIsTyped
  <2> QED
    BY <1>1, <1>2, <1>4, <2>1, AddBoxSends
<1>5. ASSUME NEW p \in PackageId, send_package(p)
      PROVE  \E c \in DOMAIN conveyors : PackageSent(c, p)
  BY <1>1, <1>5, PackageSends
<1>6. ASSUME NEW p \in PackageId, NEW b \in BoxId, package_removed(p, b)
      PROVE  NoPackageSent
  BY <1>1, <1>6, RemovalSends
<1>7. ASSUME NothingChanged
      PROVE  NoPackageSent
  <2>1. IsASeq(ant_out') /\ \A i \in DOMAIN ant_out' :
                               ant_out'[i].id # "ADD_PACKAGE"
    <3>1. CASE ant_out' = <<>>
      BY <3>1, EmptyIsASeq
    <3>2. ASSUME NEW m, ant_out' = <<m>>, m.id = "CLEAR_BOX"
          PROVE  IsASeq(ant_out') /\ \A i \in DOMAIN ant_out' :
                                        ant_out'[i].id # "ADD_PACKAGE"
      <4>1. /\ IsASeq(<<m>>)
            /\ DOMAIN <<m>> = {1}
            /\ <<m>>[1] = m
        BY OneIsASeq
      <4> QED
        BY <3>2, <4>1
    <3> QED
      BY <1>7, <3>1, <3>2 DEF NothingChanged
  <2> QED
    BY <1>7, <2>1 DEF NoPackageSent, NothingChanged, HasBox
<1> QED
  BY <1>3, <1>4, <1>5, <1>6, <1>7 DEF HandleKinds

(* The boxes keep different ids, and the routes to them are told.          *)
LEMMA HandleBoxes ==
    ASSUME OneConveyorPerBox, LinksInv, RoutesInv, IdsOK, HandleKinds
    PROVE  RoutesInv' /\ IdsOK'
<1>1. SystemInv /\ SystemOK
  BY DEF LinksInv, SystemInv
<1>2. ASSUME NEW config \in Configurations, set_state(config)
      PROVE  RoutesInv' /\ IdsOK'
  BY <1>1, <1>2, NoBoxNoRoute, SetStateSends
<1>3. ASSUME NEW r \in Requests \intersect Request,
             r.id = "ADD_DESTINATION_BOX",
             \/ add_destination_box(r.conveyor, r.box, r.location)
             \/ add_destination_box_crashes(r.conveyor, r.box, r.location)
      PROVE  RoutesInv' /\ IdsOK'
  <2> DEFINE c == r.conveyor
             b == r.box
             l == r.location
  <2>1. c \in ConveyorId /\ b \in BoxId /\ l \in BoxLocations
    BY <1>3, BoxRequestIsTyped
  <2>2. \E q \in Requests : /\ q.id = "ADD_DESTINATION_BOX"
                            /\ q.conveyor = c
                            /\ q.box = b
    BY <1>3
  <2>3. \/ add_destination_box(c, b, l)
        \/ add_destination_box_crashes(c, b, l)
    BY <1>3
  <2> HIDE DEF c, b, l
  <2>4. FreshBox(b) /\ RoomForBox(c, l) /\ ConnectBox(c, b, l)
    BY <2>3 DEF add_destination_box, add_destination_box_crashes
  <2>5. Holders(b) = {} /\ IdsOK'
    BY <1>1, <2>1, <2>2, <2>4, NewBoxIds
  <2>6. CASE add_destination_box(c, b, l)
    BY <2>1, <2>5, <2>6, NewBoxRoute
  <2>7. CASE add_destination_box_crashes(c, b, l)
    BY <2>5, <2>7 DEF add_destination_box_crashes, RoutesInv
  <2> QED
    BY <2>3, <2>6, <2>7
<1>4. ASSUME Quiet
      PROVE  RoutesInv' /\ IdsOK'
  BY <1>4, QuietKeepsRoutes, QuietIds
<1> QED
  BY <1>2, <1>3, <1>4 DEF HandleKinds

LEMMA HandleCommands ==
    ASSUME handle_message
    PROVE  /\ antTx' = antTx \o Numbered(ant_out')
           /\ UNCHANGED <<sending, arrived, inside, known, entered>>
  BY DEF handle_message, handle_CONVEYOR_STATE_MSG, handle_ADD_DESTINATION_BOX,
         handle_ADD_PACKAGE, handle_DESTINATION_BOX_STATUS,
         handle_REMOVE_PACKAGE, handle_CLEAR_BOX, Enqueued, link, plant

LEMMA SentIsASeq ==
    ASSUME NoPackageSent \/ \E c, p : PackageSent(c, p)
    PROVE  IsASeq(ant_out')
  BY OneIsASeq DEF NoPackageSent, PackageSent

(* What an operation enqueues goes behind what waits. *)
LEMMA HandleQueues ==
    ASSUME LineInv, RequestsOK, CommandsOK, handle_message, IsASeq(ant_out')
    PROVE  RequestsOK' /\ CommandsOK'
<1> DEFINE t == Numbered(ant_out')
<1>1. /\ webRx # <<>>
      /\ webRx' = Tail(webRx)
      /\ antTx' = antTx \o t
      /\ UNCHANGED <<sending, arrived>>
  BY HandleEnqueues, HandleCommands
<1>2. /\ Len(webRx) \in Nat
      /\ Len(webRx) > 0
      /\ Head(webRx) = webRx[1]
      /\ DOMAIN webRx = 1 .. Len(webRx)
      /\ DOMAIN webRx' = 1 .. Len(webRx) - 1
      /\ \A i \in DOMAIN webRx' : webRx'[i] = webRx[i + 1]
  BY <1>1, Tailing DEF LineInv, QueuesOK
<1>3. 1 \in DOMAIN webRx /\ \A i \in DOMAIN webRx' : i + 1 \in DOMAIN webRx
  BY <1>2
<1>4. RequestsOK'
  BY <1>2, <1>3 DEF RequestsOK
<1>5. Head(webRx).of # 0
  BY <1>2, <1>3 DEF LineInv, Asked, UpTo
<1>6. IsASeq(t) /\ \A i \in DOMAIN t : t[i].of # 0
  BY <1>5, NumberedCommands
<1> HIDE DEF t
<1>7. IsASeq(antTx')
  BY <1>1, <1>6, Joining DEF CommandsOK
<1>8. ASSUME NEW i \in DOMAIN antTx' PROVE antTx'[i].of # 0
  <2>1. IsASeq(antTx)
    BY DEF CommandsOK
  <2>2. /\ Len(antTx) \in Nat
        /\ Len(t) \in Nat
        /\ DOMAIN antTx = 1 .. Len(antTx)
        /\ DOMAIN (antTx \o t) = 1 .. Len(antTx) + Len(t)
    BY <2>1, <1>6, Joining
  <2>3. CASE i \in 1 .. Len(antTx)
    <3>1. antTx'[i] = antTx[i]
      BY <1>1, <1>6, <2>1, <2>3, JoinedParts
    <3> QED
      BY <2>2, <2>3, <3>1 DEF CommandsOK
  <2>4. CASE i \in Len(antTx) + 1 .. Len(antTx) + Len(t)
    <3>1. i - Len(antTx) \in DOMAIN t /\ antTx'[i] = t[i - Len(antTx)]
      BY <1>1, <1>6, <2>1, <2>4, JoinedParts
    <3> QED
      BY <1>6, <3>1
  <2> QED
    BY <1>1, <2>2, <2>3, <2>4
<1> QED
  BY <1>1, <1>4, <1>7, <1>8 DEF CommandsOK

------------------------------------------------------------------------------
(* The load of the boxes *)

LEMMA WaitingIsASeq ==
    ASSUME CommandsOK
    PROVE  IsASeq(Waiting) /\ Len(Waiting) \in Nat
<1>1. IsASeq(Waiting)
  BY OneIsASeq, Joining DEF CommandsOK, Waiting
<1> QED
  BY <1>1, Appending

(* What an operation enqueues waits behind the rest. *)
LEMMA WaitingGrows ==
    ASSUME CommandsOK, handle_message, IsASeq(ant_out')
    PROVE  Waiting' = Waiting \o Numbered(ant_out')
<1> DEFINE t == Numbered(ant_out')
<1>1. antTx' = antTx \o t /\ UNCHANGED <<sending, arrived>>
  BY HandleCommands
<1>2. IsASeq(t) /\ IsASeq(antTx)
  BY NumberedCommands DEF CommandsOK
<1> HIDE DEF t
<1>3. (<<sending>> \o antTx) \o t = <<sending>> \o (antTx \o t)
  BY <1>2, Associative
<1> QED
  BY <1>1, <1>3 DEF Waiting, t

LEMMA FitsSubset ==
    ASSUME NEW S, NEW T, Fits(S), T \subseteq S
    PROVE  Fits(T)
<1>1. T \in SUBSET S /\ IsFiniteSet(S)
  BY DEF Fits
<1>2. IsFiniteSet(T) /\ Cardinality(T) <= Cardinality(S)
  BY <1>1, FS_Subset
<1>3. Cardinality(T) \in Nat /\ Cardinality(S) \in Nat
  BY <1>1, <1>2, FS_CardinalityType
<1>4. DESTINATION_BOX_SIZE \in Nat
  BY BoxSizeAssumption
<1> QED
  BY <1>2, <1>3, <1>4 DEF Fits

(* The load of a box that holds nothing more is what it was. *)
LEMMA QuietLoad ==
    ASSUME PlantInv, handle_message, NoPackageSent
    PROVE  LoadOK'
<1> DEFINE w == Waiting
           t == Numbered(ant_out')
<1>1. IsASeq(w) /\ Len(w) \in Nat
  BY WaitingIsASeq DEF PlantInv, ToldInv
<1>2. /\ IsASeq(t)
      /\ Len(t) = Len(ant_out')
      /\ Len(t) \in Nat
      /\ DOMAIN t = 1 .. Len(t)
      /\ \A b : \A i \in DOMAIN t : ~Adds(t[i], b)
  <2>1. IsASeq(ant_out')
    BY DEF NoPackageSent
  <2>2. /\ IsASeq(t)
        /\ Len(t) = Len(ant_out')
        /\ DOMAIN t = DOMAIN ant_out'
        /\ \A i \in DOMAIN ant_out' : t[i].msg = ant_out'[i]
    BY <2>1, NumberedCommands
  <2> HIDE DEF t
  <2>3. \A b : \A i \in DOMAIN t : ~Adds(t[i], b)
    BY <2>2 DEF NoPackageSent, Adds
  <2> QED
    BY <2>2, <2>3, Appending
<1>3. Waiting' = w \o t /\ inside' = inside
  BY WaitingGrows, HandleCommands DEF PlantInv, ToldInv, NoPackageSent
<1>4. Len(t) > 0 => t[1].msg = ant_out'[1]
  <2>1. IsASeq(ant_out')
    BY DEF NoPackageSent
  <2>2. \A i \in DOMAIN ant_out' : t[i].msg = ant_out'[i]
    BY <2>1, NumberedCommands
  <2>3. DOMAIN t = DOMAIN ant_out'
    BY <2>1, NumberedCommands
  <2> HIDE DEF t
  <2> QED
    BY <1>2, <2>2, <2>3
<1> HIDE DEF t
<1> DEFINE v == w \o t
           before(b, n) == InBoxAfter(w, PackagesIn(inside, b), b, n)
           after(b, n) == InBoxAfter(v, PackagesIn(inside, b), b, n)
<1>5. IsASeq(v) /\ Len(v) = Len(w) + Len(t)
  <2> HIDE DEF w
  <2>1. IsASeq(v) /\ DOMAIN v = 1 .. Len(w) + Len(t)
    BY <1>1, <1>2, Joining
  <2> HIDE DEF v
  <2>2. Len(v) \in Nat /\ DOMAIN v = 1 .. Len(v)
    BY <2>1, Appending
  <2> QED
    BY <1>1, <1>2, <2>1, <2>2
<1>6. /\ \A b \in BoxId : \A n \in 0 .. Len(w) : Fits(before(b, n))
      /\ \A c \in DOMAIN conveyors : HasBox(c) =>
            before(conveyors[c].box.id, Len(w))
               \subseteq conveyors[c].box.packages_transit
  BY DEF PlantInv, LoadOK, Load
<1> HIDE DEF w
<1>7. ASSUME NEW b, NEW n \in 0 .. Len(v)
      PROVE  after(b, n) \subseteq before(b, IF n <= Len(w) THEN n ELSE Len(w))
  <2>1. n \in 0 .. Len(w) + Len(t)
    BY <1>5
  <2> QED
    BY <1>1, <1>2, <2>1, NothingAdded
<1>8. ASSUME NEW b, Len(t) > 0, Resets(t[1], b)
      PROVE  after(b, Len(v)) = {}
  <2>1. InBoxAfter(w \o t, PackagesIn(inside, b), b, Len(w) + Len(t)) = {}
    BY <1>1, <1>2, <1>8, BoxReset
  <2> QED
    BY <1>5, <2>1
<1> HIDE DEF before
<1>9. ASSUME NEW b \in BoxId, NEW n \in 0 .. Len(v)
      PROVE  Fits(after(b, n))
  <2> DEFINE m == IF n <= Len(w) THEN n ELSE Len(w)
  <2>1. m \in 0 .. Len(w)
    BY <1>1, <1>2, <1>5
  <2>2. after(b, n) \subseteq before(b, m)
    BY <1>7
  <2> HIDE DEF m, after
  <2> QED
    BY <1>6, <2>1, <2>2, FitsSubset
<1>10. ASSUME NEW d \in DOMAIN conveyors',
              is_initialized(conveyors'[d].box)
       PROVE  after(conveyors'[d].box.id, Len(v))
                 \subseteq conveyors'[d].box.packages_transit
  <2> DEFINE b == conveyors'[d].box.id
  <2>1. CASE /\ HasBox(d)
             /\ b = conveyors[d].box.id
             /\ conveyors[d].box.packages_transit
                   \subseteq conveyors'[d].box.packages_transit
    <3>1. Len(v) \in 0 .. Len(v) /\ Len(v) >= Len(w)
      BY <1>1, <1>2, <1>5
    <3>2. (IF Len(v) <= Len(w) THEN Len(v) ELSE Len(w)) = Len(w)
      BY <1>1, <1>2, <1>5
    <3>3. after(b, Len(v)) \subseteq before(b, Len(w))
      BY <1>7, <3>1, <3>2
    <3>4. before(b, Len(w)) \subseteq conveyors[d].box.packages_transit
      BY <1>6, <2>1 DEF HasBox
    <3> QED
      BY <2>1, <3>3, <3>4
  <2>2. CASE /\ Len(ant_out') > 0
             /\ ant_out'[1].id = "BOX_CONNECT"
             /\ ant_out'[1].box = b
    <3>1. Len(t) > 0 /\ Resets(t[1], b)
      BY <1>2, <1>4, <2>2 DEF Resets
    <3> QED
      BY <1>8, <3>1
  <2> QED
    BY <1>10, <2>1, <2>2 DEF NoPackageSent
<1> HIDE DEF v
<1> QED
  BY <1>3, <1>9, <1>10 DEF LoadOK, Load, HasBox, v

(* A package that is sent comes on top of the load of its box, as it does  *)
(* in the books.                                                           *)
LEMMA SentLoad ==
    ASSUME PlantInv, handle_message, NEW c \in DOMAIN conveyors, NEW p,
           PackageSent(c, p)
    PROVE  LoadOK'
<1> DEFINE w == Waiting
<1>1. IsASeq(w) /\ Len(w) \in Nat
  BY WaitingIsASeq DEF PlantInv, ToldInv
<1>2. PICK e : /\ Numbered(ant_out') = <<e>>
               /\ e.msg.id = "ADD_PACKAGE"
               /\ e.msg.box = conveyors[c].box.id
               /\ e.msg.package = p
  <2>1. PICK m : /\ ant_out' = <<m>>
                 /\ m.id = "ADD_PACKAGE"
                 /\ m.box = conveyors[c].box.id
                 /\ m.package = p
    BY DEF PackageSent
  <2> DEFINE e == [msg |-> m, of |-> Head(webRx).of]
  <2>2. Numbered(<<m>>) = <<e>>
    <3>1. DOMAIN <<m>> = 1 .. 1 /\ <<m>>[1] = m
      OBVIOUS
    <3>2. Numbered(<<m>>) =
             [i \in 1 .. 1 |-> [msg |-> <<m>>[i], of |-> Head(webRx).of]]
      BY <3>1 DEF Numbered
    <3> QED
      BY <3>1, <3>2
  <2>3. e.msg = m
    OBVIOUS
  <2> HIDE DEF e
  <2> QED
    BY <2>1, <2>2, <2>3
<1>3. Waiting' = w \o <<e>> /\ inside' = inside
  <2>1. IsASeq(ant_out')
    BY SentIsASeq
  <2> QED
    BY <1>2, <2>1, WaitingGrows, HandleCommands DEF PlantInv, ToldInv
<1> DEFINE v == w \o <<e>>
           before(b, n) == InBoxAfter(w, PackagesIn(inside, b), b, n)
           after(b, n) == InBoxAfter(v, PackagesIn(inside, b), b, n)
           top(b) == before(b, Len(w))
                        \union (IF Adds(e, b) THEN {e.msg.package} ELSE {})
<1>4. /\ \A b \in BoxId : \A n \in 0 .. Len(w) : Fits(before(b, n))
      /\ \A d \in DOMAIN conveyors : HasBox(d) =>
            before(conveyors[d].box.id, Len(w))
               \subseteq conveyors[d].box.packages_transit
  BY DEF PlantInv, LoadOK, Load
<1> HIDE DEF w
<1>5. Len(v) = Len(w) + 1
  <2>1. /\ IsASeq(v)
        /\ DOMAIN v = 1 .. Len(w) + 1
    BY <1>1, OneIsASeq, Joining
  <2> HIDE DEF v
  <2>2. Len(v) \in Nat /\ DOMAIN v = 1 .. Len(v)
    BY <2>1, Appending
  <2> QED
    BY <1>1, <2>1, <2>2
<1>6. ASSUME NEW b, NEW n \in 0 .. Len(w)
      PROVE  after(b, n) \subseteq before(b, n)
  <2>1. n \in 0 .. Len(w) + 1 /\ n <= Len(w)
    BY <1>1
  <2> QED
    BY <1>1, <2>1, OneAdded
<1>7. ASSUME NEW b
      PROVE  after(b, Len(v)) \subseteq top(b)
  <2>1. 0 \in 0 .. Len(w) + 1
    BY <1>1
  <2> QED
    BY <1>1, <1>5, <2>1, OneAdded
<1>8. ASSUME NEW b, ~Adds(e, b)
      PROVE  top(b) = before(b, Len(w))
  BY <1>8
<1>9. ASSUME NEW b, Adds(e, b)
      PROVE  top(b) \subseteq conveyors'[c].box.packages_transit
  <2>1. b = conveyors[c].box.id
    BY <1>2, <1>9 DEF Adds
  <2>2. before(b, Len(w)) \subseteq conveyors[c].box.packages_transit
    BY <1>4, <2>1 DEF PackageSent
  <2> HIDE DEF before
  <2> QED
    BY <1>2, <2>2 DEF PackageSent
<1> HIDE DEF before, after, top, v
<1>10. ASSUME NEW b \in BoxId, NEW n \in 0 .. Len(v)
       PROVE  Fits(after(b, n))
  <2>1. CASE n \in 0 .. Len(w)
    BY <1>4, <1>6, <2>1, FitsSubset
  <2>2. CASE n = Len(v)
    <3>1. Len(w) \in 0 .. Len(w)
      BY <1>1
    <3>2. Fits(conveyors'[c].box.packages_transit)
      BY DEF PackageSent
    <3>3. CASE Adds(e, b)
      BY <1>7, <1>9, <2>2, <3>2, <3>3, FitsSubset
    <3>4. CASE ~Adds(e, b)
      BY <1>4, <1>7, <1>8, <2>2, <3>1, <3>4, FitsSubset
    <3> QED
      BY <3>3, <3>4
  <2> QED
    BY <1>1, <1>5, <2>1, <2>2
<1>11. ASSUME NEW d \in DOMAIN conveyors',
              is_initialized(conveyors'[d].box)
       PROVE  after(conveyors'[d].box.id, Len(v))
                 \subseteq conveyors'[d].box.packages_transit
  <2>1. CASE d = c
    <3>1. conveyors'[d].box.id = conveyors[c].box.id
      BY <2>1 DEF PackageSent
    <3>2. Adds(e, conveyors'[d].box.id)
      BY <1>2, <3>1 DEF Adds
    <3> QED
      BY <1>7, <1>9, <2>1, <3>2
  <2>2. CASE d # c
    <3>1. /\ d \in DOMAIN conveyors
          /\ conveyors'[d].box = conveyors[d].box
          /\ HasBox(d)
          /\ HasBox(c)
      BY <1>11, <2>2 DEF PackageSent, HasBox
    <3>2. conveyors[d].box.id # conveyors[c].box.id
      BY <2>2, <3>1 DEF PlantInv, IdsOK
    <3>3. ~Adds(e, conveyors[d].box.id)
      BY <1>2, <3>2 DEF Adds
    <3> QED
      BY <1>4, <1>7, <1>8, <3>1, <3>3
  <2> QED
    BY <2>1, <2>2
<1> QED
  BY <1>3, <1>10, <1>11 DEF LoadOK, Load, HasBox, after, v

------------------------------------------------------------------------------
(* What the conveyors know *)

(* An operation runs while the process lives, and what it enqueues is what *)
(* it counts as told.                                                      *)
LEMMA HandleTells ==
    ASSUME handle_message
    PROVE  ~crashed /\ told' = Learned(told, ant_out')
<1>1. ASSUME NEW ant, NEW web, Send(ant, web)
      PROVE  told' = Learned(told, ant_out')
  BY <1>1 DEF Send, Told
<1>2. CASE handle_CONVEYOR_STATE_MSG
  BY <1>1, <1>2 DEF handle_CONVEYOR_STATE_MSG, set_state
<1>3. CASE handle_ADD_DESTINATION_BOX
  <2> DEFINE c == request.conveyor
             b == request.box
             location == request.location
  <2>1. \/ add_destination_box(c, b, location)
        \/ add_destination_box_refused(c, b, location)
        \/ add_destination_box_crashes(c, b, location)
        \/ add_destination_box_out_of_range(c, b, location)
    BY <1>3 DEF handle_ADD_DESTINATION_BOX
  <2> HIDE DEF c, b, location
  <2>2. CASE add_destination_box(c, b, location)
    BY <1>1, <2>2 DEF add_destination_box
  <2>3. CASE add_destination_box_refused(c, b, location)
    BY <1>1, <2>3 DEF add_destination_box_refused
  <2>4. CASE add_destination_box_crashes(c, b, location)
    BY <1>1, <2>4 DEF add_destination_box_crashes
  <2>5. CASE add_destination_box_out_of_range(c, b, location)
    BY <1>1, <2>5 DEF add_destination_box_out_of_range
  <2> QED
    BY <2>1, <2>2, <2>3, <2>4, <2>5
<1>4. CASE handle_ADD_PACKAGE
  <2> DEFINE p == request.package
  <2>1. send_package(p) \/ send_package_refused(p)
    BY <1>4 DEF handle_ADD_PACKAGE
  <2> HIDE DEF p
  <2>2. CASE send_package(p)
    BY <1>1, <2>2 DEF send_package
  <2>3. CASE send_package_refused(p)
    BY <1>1, <2>3 DEF send_package_refused
  <2> QED
    BY <2>1, <2>2, <2>3
<1>5. CASE handle_DESTINATION_BOX_STATUS
  BY <1>1, <1>5 DEF handle_DESTINATION_BOX_STATUS, get_destination_box_state
<1>6. CASE handle_REMOVE_PACKAGE
  BY <1>1, <1>6 DEF handle_REMOVE_PACKAGE, package_removed,
                    package_removal_refused
<1>7. CASE handle_CLEAR_BOX
  BY <1>1, <1>7 DEF handle_CLEAR_BOX, clear_box_requested, clear_box_refused
<1> QED
  BY <1>2, <1>3, <1>4, <1>5, <1>6, <1>7 DEF handle_message

LEMMA PrefixIs ==
    ASSUME NEW w, NEW n
    PROVE  /\ DOMAIN Prefix(w, n) = 1 .. n
           /\ \A i \in 1 .. n : Prefix(w, n)[i] = w[i].msg
BY DEF Prefix

LEMMA EmptyPrefix ==
    ASSUME NEW w
    PROVE  Prefix(w, 0) = <<>>
<1>1. 1 .. 0 = {}
  OBVIOUS
<1> QED
  BY <1>1 DEF Prefix

(* What is enqueued changes nothing in what comes before it. *)
LEMMA SamePrefix ==
    ASSUME NEW w, NEW v, NEW n, \A i \in 1 .. n : v[i] = w[i]
    PROVE  Prefix(v, n) = Prefix(w, n)
BY DEF Prefix

(* Who knows what some messages said also knows it without any more.       *)
LEMMA LearnedOnce ==
    ASSUME NEW knows, NEW n \in Nat, NEW msgs, DOMAIN msgs = 1 .. n
    PROVE  Learned(Learned(knows, msgs), <<>>) = Learned(knows, msgs)
<1>1. DOMAIN <<>> = 1 .. 0
  OBVIOUS
<1>2. n + 0 = n /\ 0 \in Nat
  OBVIOUS
<1>3. \A i \in 1 .. 0 : msgs[n + i] = <<>>[i]
  OBVIOUS
<1>4. Behind(msgs, n, msgs, 0, <<>>)
  BY <1>1, <1>2, <1>3 DEF Behind
<1> QED
  BY <1>4, LearnedTwice

(* After the commands w and the commands of an operation the conveyors     *)
(* know what they know after the first and then learn from the others.     *)
LEMMA KnownInTheEnd ==
    ASSUME NEW knows, NEW w, IsASeq(w), NEW msgs, IsASeq(msgs)
    PROVE  Learned(Learned(knows, Prefix(w, Len(w))), msgs)
              = Learned(knows, Prefix(w \o Numbered(msgs),
                                      Len(w \o Numbered(msgs))))
<1> DEFINE t == Numbered(msgs)
           v == w \o t
           m == Len(w)
           n == Len(msgs)
<1>1. /\ IsASeq(t)
      /\ Len(t) = n
      /\ DOMAIN t = DOMAIN msgs
      /\ \A i \in DOMAIN msgs : t[i].msg = msgs[i]
  BY NumberedCommands
<1>2. n \in Nat /\ DOMAIN msgs = 1 .. n
  BY Appending
<1> HIDE DEF t
<1>3. /\ IsASeq(v)
      /\ m \in Nat
      /\ DOMAIN v = 1 .. m + n
      /\ \A i \in 1 .. m : v[i] = w[i]
      /\ \A i \in 1 .. n : v[m + i] = t[i]
  <2>1. /\ IsASeq(v)
        /\ Len(w) \in Nat
        /\ DOMAIN w = 1 .. Len(w)
        /\ DOMAIN t = 1 .. Len(t)
        /\ DOMAIN v = 1 .. Len(w) + Len(t)
    BY <1>1, Joining, Zenon
  <2>2. \A i \in DOMAIN w : v[i] = w[i]
    BY <1>1, Joining, Zenon
  <2>3. \A i \in DOMAIN t : v[Len(w) + i] = t[i]
    BY <1>1, BehindTheFirst
  <2> HIDE DEF v
  <2> QED
    BY <1>1, <2>1, <2>2, <2>3
<1> HIDE DEF v, m, n
<1>4. Len(v) = m + n
  <2>1. Len(v) \in Nat /\ DOMAIN v = 1 .. Len(v)
    BY <1>3, Appending
  <2> QED
    BY <1>2, <1>3, <2>1
<1> DEFINE s == Prefix(w, m)
           u == Prefix(v, m + n)
<1>5. /\ DOMAIN s = 1 .. m
      /\ \A i \in 1 .. m : s[i] = w[i].msg
      /\ DOMAIN u = 1 .. m + n
      /\ \A i \in 1 .. m + n : u[i] = v[i].msg
  BY PrefixIs
<1> HIDE DEF s, u
<1>6. ASSUME NEW i \in 1 .. m PROVE u[i] = s[i]
  <2>1. i \in 1 .. m + n
    BY <1>2, <1>3
  <2> QED
    BY <1>3, <1>5, <2>1
<1>7. ASSUME NEW i \in 1 .. n PROVE u[m + i] = msgs[i]
  <2>1. m + i \in 1 .. m + n
    BY <1>2, <1>3
  <2> QED
    BY <1>1, <1>2, <1>3, <1>5, <2>1
<1>8. Behind(u, m, s, n, msgs)
  BY <1>2, <1>3, <1>5, <1>6, <1>7 DEF Behind
<1>9. Learned(Learned(knows, s), msgs) = Learned(knows, u)
  BY <1>8, LearnedTwice
<1> QED
  BY <1>4, <1>9 DEF s, u, v, m, t

(* What the operation tells the conveyors is what they will know, and what *)
(* the commands before it tell them stays the same.                        *)
LEMMA HandleKnown ==
    ASSUME CommandsOK, KnownOK, handle_message, IsASeq(ant_out')
    PROVE  /\ KnownOK'
           /\ \A n \in 0 .. Len(Waiting) : KnownAfter(n)' = KnownAfter(n)
<1> DEFINE w == Waiting
           v == w \o Numbered(ant_out')
<1>1. Waiting' = v /\ known' = known /\ told' = Learned(told, ant_out')
  BY WaitingGrows, HandleCommands, HandleTells
<1>2. IsASeq(w) /\ Len(w) \in Nat
  BY WaitingIsASeq
<1>3. told' = Learned(known, Prefix(v, Len(v)))
  BY <1>1, <1>2, KnownInTheEnd DEF KnownOK, KnownAfter
<1>4. KnownOK'
  BY <1>1, <1>3 DEF KnownOK, KnownAfter
<1>5. ASSUME NEW n \in 0 .. Len(w)
      PROVE  KnownAfter(n)' = KnownAfter(n)
  <2>1. IsASeq(Numbered(ant_out'))
    BY NumberedCommands
  <2>2. \A k \in 1 .. Len(w) : v[k] = w[k]
    BY <1>2, <2>1, JoinedParts
  <2>3. \A k \in 1 .. n : v[k] = w[k]
    BY <1>2, <2>2
  <2>4. Prefix(v, n) = Prefix(w, n)
    BY <2>3, SamePrefix
  <2> QED
    BY <1>1, <2>4 DEF KnownAfter
<1> QED
  BY <1>4, <1>5

(* What a command does to the plant is what the conveyors learn from it.   *)
LEMMA PlantLearns ==
    ASSUME KnownOK,
           \/ configuration_arrives
           \/ package_enters
           \/ package_leaves
           \/ box_is_cleared
    PROVE  known' = Learned(known, <<sending.msg>>)
<1> DEFINE msg == sending.msg
<1>1. DOMAIN <<msg>> = 1 .. 1 /\ <<msg>>[1] = msg
  OBVIOUS
<1> HIDE DEF msg
<1>2. CASE known' = known
           /\ msg.id \in {"ADD_PACKAGE", "REMOVE_PACKAGE", "CLEAR_BOX"}
  <2>1. \A i \in 1 .. 1 :
           <<msg>>[i].id \in {"ADD_PACKAGE", "REMOVE_PACKAGE", "CLEAR_BOX"}
    BY <1>1, <1>2
  <2> DEFINE none == <<>>
  <2>2. DOMAIN none = 1 .. 0
    OBVIOUS
  <2>3. \A i \in 1 .. 0 :
           none[i].id \in {"ADD_PACKAGE", "REMOVE_PACKAGE", "CLEAR_BOX"}
    OBVIOUS
  <2> HIDE DEF none
  <2>4. Learned(known, none) = Learned(known, <<msg>>)
    BY <1>1, <2>1, <2>2, <2>3, SilentLearned
  <2> QED
    BY <1>2, <2>4 DEF KnownOK, none, msg
<1> QED
  BY <1>2 DEF configuration_arrives, package_enters, package_leaves,
              box_is_cleared, msg

(* A command that arrives leaves what is known after the others as it was. *)
LEMMA ArriveKnown ==
    ASSUME CommandsOK, KnownOK, command_arrives
    PROVE  /\ KnownOK'
           /\ Waiting = <<sending>> \o Waiting'
           /\ IsASeq(Waiting')
           /\ \A n \in 0 .. Len(Waiting') : KnownAfter(n)' = KnownAfter(n + 1)
<1> DEFINE w == antTx
           e == sending
           v == <<e>> \o w
           msg == sending.msg
<1>1. /\ Waiting = v
      /\ Waiting' = w
      /\ told' = told
      /\ known' = Learned(known, <<msg>>)
  <2>1. /\ sending # NoCommand
        /\ ~arrived
        /\ arrived' = TRUE
        /\ UNCHANGED <<antTx, sending, told>>
    BY DEF command_arrives, Link!Arrive, vars
  <2>2. known' = Learned(known, <<msg>>)
    BY PlantLearns DEF command_arrives
  <2> QED
    BY <2>1, <2>2 DEF Waiting
<1>2. IsASeq(w)
  BY DEF CommandsOK
<1>3. Len(w) \in Nat
  BY <1>2, Appending
<1>4. DOMAIN <<msg>> = 1 .. 1 /\ <<msg>>[1] = msg /\ e.msg = msg
  OBVIOUS
<1>5. /\ Len(v) = Len(w) + 1
      /\ v[1] = e
      /\ \A k \in 1 .. Len(w) : v[1 + k] = w[k]
  <2>1. IsASeq(<<e>>) /\ Len(<<e>>) = 1 /\ DOMAIN <<e>> = {1} /\ <<e>>[1] = e
    BY OneIsASeq
  <2> DEFINE o == <<e>>
  <2>2. v = o \o w
    OBVIOUS
  <2> HIDE DEF v, o, e, w
  <2>3. /\ IsASeq(o) /\ IsASeq(w)
        /\ Len(o) = 1 /\ DOMAIN o = {1} /\ o[1] = e
    BY <1>2, <2>1 DEF o
  <2>4. /\ IsASeq(v)
        /\ DOMAIN w = 1 .. Len(w)
        /\ DOMAIN v = 1 .. Len(o) + Len(w)
    BY <2>2, <2>3, Joining, Zenon
  <2>5. v[1] = o[1]
    <3>1. 1 \in 1 .. Len(o)
      BY <2>3
    <3> QED
      BY <2>2, <2>3, <3>1, JoinedParts
  <2>6. \A i \in DOMAIN w : v[Len(o) + i] = w[i]
    <3>1. \A i \in DOMAIN w : (o \o w)[Len(o) + i] = w[i]
      BY <2>3, BehindTheFirst, Zenon
    <3> QED
      BY <2>2, <3>1, Zenon
  <2>7. Len(v) \in Nat /\ DOMAIN v = 1 .. Len(v)
    BY <2>4, Appending
  <2> QED
    BY <1>3, <2>3, <2>4, <2>5, <2>6, <2>7
<1> HIDE DEF w, e, v, msg
<1>6. ASSUME NEW n \in Nat, n <= Len(w)
      PROVE  Learned(known', Prefix(w, n)) = Learned(known, Prefix(v, n + 1))
  <2> DEFINE t == Prefix(w, n)
             k == n + 1
             u == Prefix(v, k)
  <2>1. k \in Nat /\ 1 + n = k /\ 1 \in Nat
    OBVIOUS
  <2>2. /\ DOMAIN t = 1 .. n
        /\ \A i \in 1 .. n : t[i] = w[i].msg
        /\ DOMAIN u = 1 .. k
        /\ \A i \in 1 .. k : u[i] = v[i].msg
    BY PrefixIs
  <2> HIDE DEF t, u, k
  <2>3. ASSUME NEW i \in 1 .. 1 PROVE u[i] = <<msg>>[i]
    <3>1. i = 1 /\ 1 \in 1 .. k
      BY <2>1
    <3> QED
      BY <1>4, <1>5, <2>2, <3>1
  <2>4. ASSUME NEW i \in 1 .. n PROVE u[1 + i] = t[i]
    <3>1. i \in 1 .. Len(w) /\ 1 + i \in 1 .. k
      BY <1>3, <1>6, <2>1
    <3> QED
      BY <1>5, <2>2, <3>1
  <2>5. Behind(u, 1, <<msg>>, n, t)
    BY <1>4, <2>1, <2>2, <2>3, <2>4 DEF Behind
  <2>6. Learned(Learned(known, <<msg>>), t) = Learned(known, u)
    BY <2>5, LearnedTwice
  <2> QED
    BY <1>1, <2>6 DEF t, u, k
<1>7. \A n \in 0 .. Len(Waiting') : KnownAfter(n)' = KnownAfter(n + 1)
  BY <1>1, <1>3, <1>6 DEF KnownAfter
<1>8. told' = Learned(known', Prefix(w, Len(w)))
  BY <1>1, <1>3, <1>5, <1>6 DEF KnownOK, KnownAfter
<1>9. known' = Learned(known', <<>>)
  BY <1>1, <1>4, LearnedOnce
<1>10. KnownOK'
  BY <1>1, <1>8, <1>9 DEF KnownOK, KnownAfter
<1> QED
  BY <1>1, <1>2, <1>7, <1>10 DEF v, e

------------------------------------------------------------------------------
(* The conveyors are told what the books say *)

(* The parts of the invariant stay as they are when what they speak of     *)
(* does.                                                                   *)
LEMMA SameLinks ==
    ASSUME LinksInv, UNCHANGED vars
    PROVE  LinksInv'
BY LinksInvInductive

LEMMA SameKnown ==
    ASSUME KnownOK, Waiting' = Waiting, UNCHANGED <<known, told>>
    PROVE  KnownOK'
BY DEF KnownOK, KnownAfter

LEMMA SameLoad ==
    ASSUME LoadOK, Waiting' = Waiting, UNCHANGED <<conveyors, inside>>
    PROVE  LoadOK'
BY DEF LoadOK, Load, HasBox

LEMMA SamePaths ==
    ASSUME PathsOK, Waiting' = Waiting, UNCHANGED known
    PROVE  PathsOK'
BY DEF PathsOK, KnownAfter

LEMMA SameBoxes ==
    ASSUME RoutesInv, IdsOK, UNCHANGED vars
    PROVE  RoutesInv' /\ IdsOK'
<1>1. RoutesInv'
  BY DEF vars, RoutesInv, RouteTold, HasBox
<1>2. IdsOK'
  BY DEF vars, IdsOK, HasBox
<1> QED
  BY <1>1, <1>2

(* A command that is begun still waits. *)
LEMMA BeginWaits ==
    ASSUME CommandsOK, begin_command
    PROVE  CommandsOK' /\ Waiting' = Waiting
<1>1. /\ sending = NoCommand
      /\ antTx # <<>>
      /\ sending' = Head(antTx)
      /\ antTx' = Tail(antTx)
      /\ UNCHANGED arrived
  BY DEF begin_command, Link!Begin
<1>2. IsASeq(antTx) /\ ~arrived
  BY <1>1 DEF CommandsOK
<1>3. /\ IsASeq(antTx')
      /\ Len(antTx) \in Nat
      /\ Len(antTx) > 0
      /\ Head(antTx) = antTx[1]
      /\ DOMAIN antTx = 1 .. Len(antTx)
      /\ DOMAIN antTx' = 1 .. Len(antTx) - 1
      /\ \A i \in DOMAIN antTx' : antTx'[i] = antTx[i + 1]
  BY <1>1, <1>2, Tailing
<1>4. 1 \in DOMAIN antTx /\ \A i \in DOMAIN antTx' : i + 1 \in DOMAIN antTx
  BY <1>3
<1>5. sending' # NoCommand
  BY <1>1, <1>3, <1>4 DEF CommandsOK, NoCommand
<1>6. CommandsOK'
  BY <1>1, <1>3, <1>4, <1>5 DEF CommandsOK
<1>7. Waiting' = Waiting
  BY <1>1, <1>2, <1>5, HeadAndTail DEF Waiting
<1> QED
  BY <1>6, <1>7

LEMMA FinishWaits ==
    ASSUME CommandsOK, finish_command
    PROVE  CommandsOK' /\ Waiting' = Waiting
<1>1. /\ sending # NoCommand
      /\ arrived
      /\ sending' = NoCommand
      /\ arrived' = FALSE
      /\ UNCHANGED antTx
  BY DEF finish_command, Link!Finish
<1>2. CommandsOK'
  BY <1>1 DEF CommandsOK
<1>3. Waiting' = Waiting
  BY <1>1 DEF Waiting
<1> QED
  BY <1>2, <1>3

LEMMA ArriveQueues ==
    ASSUME CommandsOK, command_arrives
    PROVE  CommandsOK'
<1>1. /\ arrived' = TRUE
      /\ sending # NoCommand
      /\ UNCHANGED <<antTx, sending>>
  BY DEF command_arrives, Link!Arrive
<1> QED
  BY <1>1 DEF CommandsOK

(* What the steps other than an operation do to the commands that wait and *)
(* to the plant, unless a command arrives.                                 *)
Idle ==
    /\ Waiting' = Waiting
    /\ UNCHANGED <<vars, known, inside, entered>>

LEMMA OtherCentralSteps ==
    ASSUME ToldInv, [CentralNext]_centralVars, ~handle_message
    PROVE  /\ RequestsOK'
           /\ CommandsOK'
           /\ UNCHANGED vars
           /\ Idle \/ command_arrives
<1> USE DEF ToldInv
<1>1. ASSUME UNCHANGED <<antTx, sending, arrived>>
      PROVE  CommandsOK' /\ Waiting' = Waiting
  BY <1>1 DEF CommandsOK, Waiting
<1>2. ASSUME UNCHANGED webRx PROVE RequestsOK'
  BY <1>2 DEF RequestsOK
<1>3. CASE UNCHANGED centralVars
  BY <1>1, <1>2, <1>3 DEF centralVars, link, plant, Idle
<1>4. ASSUME NEW r \in Requests, on_message(r)
      PROVE  RequestsOK' /\ CommandsOK' /\ Idle
  <2>1. /\ UNCHANGED <<vars, antTx, sending, arrived, known, inside, entered>>
        /\ webRx' = Append(webRx, [request |-> r, of |-> asked'])
    BY <1>4 DEF on_message, link, plant
  <2> DEFINE e == [request |-> r, of |-> asked']
  <2>2. e.request = r
    OBVIOUS
  <2> HIDE DEF e
  <2>3. IsASeq(webRx)
    BY DEF LineInv, QueuesOK
  <2>4. webRx' = Append(webRx, e)
    BY <2>1 DEF e
  <2>5. /\ DOMAIN webRx = 1 .. Len(webRx)
        /\ DOMAIN webRx' = 1 .. Len(webRx) + 1
        /\ \A i \in DOMAIN webRx : webRx'[i] = webRx[i]
        /\ webRx'[Len(webRx) + 1] = e
        /\ Len(webRx) \in Nat
    BY <2>3, <2>4, Appending
  <2>6. \A i \in DOMAIN webRx' :
           \/ i \in DOMAIN webRx /\ webRx'[i] = webRx[i]
           \/ webRx'[i] = e
    BY <2>5
  <2>7. RequestsOK'
    BY <2>2, <2>6 DEF RequestsOK
  <2> QED
    BY <1>1, <2>1, <2>7 DEF Idle
<1>5. CASE send
  <2>1. UNCHANGED <<vars, webRx, antTx, sending, arrived>>
        /\ UNCHANGED <<known, inside, entered>>
    BY <1>5 DEF send, link, plant
  <2> QED
    BY <1>1, <1>2, <2>1 DEF Idle
<1>6. CASE begin_command
  <2>1. UNCHANGED <<vars, webRx, known, inside, entered>>
    BY <1>6 DEF begin_command, plant
  <2> QED
    BY <1>2, <1>6, <2>1, BeginWaits DEF Idle
<1>7. CASE finish_command
  <2>1. UNCHANGED <<vars, webRx, known, inside, entered>>
    BY <1>7 DEF finish_command, plant
  <2> QED
    BY <1>2, <1>7, <2>1, FinishWaits DEF Idle
<1>8. CASE command_arrives
  <2>1. UNCHANGED <<vars, webRx>>
    BY <1>8 DEF command_arrives
  <2> QED
    BY <1>2, <1>8, <2>1, ArriveQueues
<1>9. ASSUME NEW pair \in PackageId \X BoxId, package_arrives(pair)
      PROVE  RequestsOK' /\ CommandsOK' /\ Idle
  <2>1. UNCHANGED <<vars, webRx, antTx, sending, arrived>>
        /\ UNCHANGED <<known, inside, entered>>
    BY <1>9 DEF package_arrives, link
  <2> QED
    BY <1>1, <1>2, <2>1 DEF Idle
<1> QED
  BY <1>3, <1>4, <1>5, <1>6, <1>7, <1>8, <1>9 DEF CentralNext, link_step, Idle

LEMMA HandleTold ==
    ASSUME ToldInv, handle_message
    PROVE  /\ ToldInv'
           /\ HandleKinds
           /\ \/ NoPackageSent
              \/ \E c \in DOMAIN conveyors, p \in PackageId : PackageSent(c, p)
<1>1. /\ LineInv /\ RequestsOK /\ CommandsOK /\ LinksInv /\ KnownOK
      /\ SystemInv /\ ToldOK
  BY DEF ToldInv, LinksInv
<1>2. HandleKinds
  BY <1>1, HandleIsOfKind
<1>3. \/ NoPackageSent
      \/ \E c \in DOMAIN conveyors, p \in PackageId : PackageSent(c, p)
  BY <1>1, <1>2, HandleSends
<1>4. IsASeq(ant_out')
  BY <1>3, SentIsASeq
<1>5. LineInv'
  BY <1>1, HandleLine
<1>6. RequestsOK' /\ CommandsOK'
  BY <1>1, <1>4, HandleQueues
<1>7. LinksInv'
  BY <1>1, <1>2, HandleLinks
<1>8. KnownOK'
  BY <1>1, <1>4, HandleKnown
<1> QED
  BY <1>2, <1>3, <1>5, <1>6, <1>7, <1>8 DEF ToldInv

LEMMA InitTold == CentralInit => ToldInv
<1> SUFFICES ASSUME CentralInit PROVE ToldInv
  OBVIOUS
<1>1. /\ webRx = <<>>
      /\ antTx = <<>>
      /\ sending = NoCommand
      /\ arrived = FALSE
      /\ known = told
      /\ Init
  BY DEF CentralInit
<1>2. DOMAIN webRx = {} /\ DOMAIN antTx = {}
  BY <1>1
<1>3. RequestsOK /\ CommandsOK
  BY <1>1, <1>2, EmptyIsASeq DEF RequestsOK, CommandsOK
<1>4. LinksInv
  BY <1>1, LinksInvInitially
<1>5. KnownOK
  <2> DEFINE none == <<>>
  <2>1. DOMAIN none = 1 .. 0 /\ Len(none) = 0
    OBVIOUS
  <2>2. \A i \in 1 .. 0 :
           none[i].id \in {"ADD_PACKAGE", "REMOVE_PACKAGE", "CLEAR_BOX"}
    OBVIOUS
  <2>3. Waiting = none
    BY <1>1 DEF Waiting
  <2>4. Prefix(Waiting, 0) = none
    BY EmptyPrefix
  <2>5. ToldOK
    BY <1>4 DEF LinksInv
  <2> HIDE DEF none
  <2>6. Learned(told, none) = told
    BY <2>1, <2>2, <2>5, SilentMessages
  <2>7. KnownAfter(Len(Waiting)) = told
    BY <1>1, <2>1, <2>3, <2>4, <2>6 DEF KnownAfter
  <2> QED
    BY <1>1, <2>6, <2>7 DEF KnownOK, none
<1> QED
  BY <1>3, <1>4, <1>5, InitLine DEF ToldInv

LEMMA StepTold == ToldInv /\ [CentralNext]_centralVars => ToldInv'
<1> SUFFICES ASSUME ToldInv, [CentralNext]_centralVars PROVE ToldInv'
  OBVIOUS
<1>1. CASE handle_message
  BY <1>1, HandleTold
<1>2. CASE ~handle_message
  <2>1. LineInv'
    BY StepLine DEF ToldInv
  <2>2. RequestsOK' /\ CommandsOK' /\ UNCHANGED vars
    BY <1>2, OtherCentralSteps
  <2>3. LinksInv'
    BY <2>2, SameLinks DEF ToldInv
  <2>4. ASSUME Idle PROVE KnownOK'
    BY <2>4, SameKnown DEF Idle, ToldInv, vars
  <2>5. ASSUME command_arrives PROVE KnownOK'
    BY <2>5, ArriveKnown DEF ToldInv
  <2>6. KnownOK'
    BY <1>2, <2>4, <2>5, OtherCentralSteps
  <2> QED
    BY <2>1, <2>2, <2>3, <2>6 DEF ToldInv
<1> QED
  BY <1>1, <1>2

(* The commands that wait bring the conveyors to what the books say,       *)
(* whatever was configured in the meantime (ConveyorSystem.cpp:201-207,    *)
(* MessageQueue.h:18-38).                                                  *)
THEOREM ToldInvHolds == CentralSpec => []ToldInv
  BY InitTold, StepTold, PTL DEF CentralSpec

(* For all configurations, boxes and requests of the clients, also ones    *)
(* that use the id of a box again: when no command waits any more each     *)
(* conveyor is linked as the books say (ConveyorSystem.cpp:18-48,          *)
(* 201-207).                                                               *)
THEOREM DrainedPlantMatchesBooksHolds ==
    CentralSpec => []DrainedPlantMatchesBooks
<1>1. ToldInv => DrainedPlantMatchesBooks
  <2> SUFFICES ASSUME ToldInv, antTx = <<>>, sending = NoCommand
               PROVE  \A c \in ConveyorId :
                         known[c].connections =
                            IF c \in DOMAIN conveyors
                            THEN conveyors[c].connections
                            ELSE NoConveyor.connections
    BY DEF DrainedPlantMatchesBooks
  <2>1. Waiting = <<>> /\ Len(<<>>) = 0
    BY DEF Waiting
  <2>2. known = told
    BY <2>1, EmptyPrefix DEF ToldInv, KnownOK, KnownAfter
  <2> QED
    BY <2>2 DEF ToldInv, LinksInv, ToldMatchesConveyors
<1> QED
  BY <1>1, ToldInvHolds, PTL

------------------------------------------------------------------------------
(* The link and the plant *)

(* What the plant does with the command on the link. *)
LEMMA PlantTakes ==
    ASSUME \/ configuration_arrives
           \/ package_enters
           \/ package_leaves
           \/ box_is_cleared,
           NEW b
    PROVE  \A p \in PackagesIn(inside', b) :
              \/ p \in PackagesIn(inside, b) /\ ~Resets(sending, b)
              \/ Adds(sending, b) /\ p = sending.msg.package
<1>1. CASE configuration_arrives
  <2>1. CASE sending.msg.id = "BOX_CONNECT"
    BY <1>1, <2>1 DEF configuration_arrives, OutOf, PackagesIn, Resets
  <2>2. CASE sending.msg.id # "BOX_CONNECT"
    BY <1>1, <2>2 DEF configuration_arrives, PackagesIn, Resets
  <2> QED
    BY <2>1, <2>2
<1>2. CASE package_enters
  BY <1>2 DEF package_enters, PackagesIn, Resets, Adds
<1>3. CASE package_leaves
  BY <1>3 DEF package_leaves, PackagesIn, Resets
<1>4. CASE box_is_cleared
  BY <1>4 DEF box_is_cleared, PackagesIn, Resets
<1> QED
  BY <1>1, <1>2, <1>3, <1>4

LEMMA ArriveLoad ==
    ASSUME CommandsOK, LoadOK, command_arrives
    PROVE  LoadOK'
<1>1. /\ sending # NoCommand
      /\ ~arrived
      /\ arrived' = TRUE
      /\ UNCHANGED <<antTx, sending, conveyors>>
  BY DEF command_arrives, Link!Arrive, vars
<1>3. IsASeq(antTx)
  BY DEF CommandsOK
<1> DEFINE v == <<sending>> \o antTx
           before(b, n) == InBoxAfter(v, PackagesIn(inside, b), b, n)
           after(b, n) == InBoxAfter(antTx, PackagesIn(inside', b), b, n)
<1>4. Waiting = v /\ Waiting' = antTx
  BY <1>1 DEF Waiting
<1>5. /\ \A b \in BoxId : \A n \in 0 .. Len(v) : Fits(before(b, n))
      /\ \A d \in DOMAIN conveyors : HasBox(d) =>
            before(conveyors[d].box.id, Len(v))
               \subseteq conveyors[d].box.packages_transit
  BY <1>4 DEF LoadOK, Load
<1>6. Len(v) = Len(antTx) + 1 /\ Len(antTx) \in Nat
  <2>1. /\ IsASeq(v)
        /\ DOMAIN v = 1 .. 1 + Len(antTx)
        /\ Len(antTx) \in Nat
    BY <1>3, OneIsASeq, Joining
  <2> HIDE DEF v
  <2>2. Len(v) \in Nat /\ DOMAIN v = 1 .. Len(v)
    BY <2>1, Appending
  <2> QED
    BY <2>1, <2>2
<1>7. ASSUME NEW b, NEW n \in 0 .. Len(antTx)
      PROVE  after(b, n) \subseteq before(b, n + 1)
  <2>1. \A p \in PackagesIn(inside', b) :
           \/ p \in PackagesIn(inside, b) /\ ~Resets(sending, b)
           \/ Adds(sending, b) /\ p = sending.msg.package
    BY PlantTakes DEF command_arrives
  <2>2. PICK there : there = PackagesIn(inside, b)
    OBVIOUS
  <2>3. PICK now : now = PackagesIn(inside', b)
    OBVIOUS
  <2>4. PICK w : w = antTx
    OBVIOUS
  <2>5. PICK e : e = sending
    OBVIOUS
  <2>6. PICK m : m = n + 1
    OBVIOUS
  <2>7. /\ IsASeq(w)
        /\ n \in 0 .. Len(w)
        /\ \A p \in now : \/ p \in there /\ ~Resets(e, b)
                          \/ Adds(e, b) /\ p = e.msg.package
    BY <1>3, <2>1, <2>2, <2>3, <2>4, <2>5
  <2>8. InBoxAfter(w, now, b, n) \subseteq
           InBoxAfter(<<e>> \o w, there, b, m)
    BY <2>6, <2>7, OneArrived
  <2> QED
    BY <2>2, <2>3, <2>4, <2>5, <2>6, <2>8
<1> HIDE DEF before, after, v
<1>8. ASSUME NEW b \in BoxId, NEW n \in 0 .. Len(antTx)
      PROVE  Fits(after(b, n))
  <2>1. n + 1 \in 0 .. Len(v)
    BY <1>6
  <2> QED
    BY <1>5, <1>7, <2>1, FitsSubset
<1>9. ASSUME NEW d \in DOMAIN conveyors, HasBox(d)
      PROVE  after(conveyors[d].box.id, Len(antTx))
                \subseteq conveyors[d].box.packages_transit
  <2>1. Len(antTx) \in 0 .. Len(antTx)
    BY <1>6
  <2> QED
    BY <1>5, <1>6, <1>7, <1>9, <2>1
<1> QED
  BY <1>1, <1>4, <1>8, <1>9 DEF LoadOK, Load, HasBox, after

------------------------------------------------------------------------------
(* The paths of the packages *)

(* A box in the books can be reached, by what the conveyors were told.     *)
LEMMA BoxIsReached ==
    ASSUME LinksInv, RoutesInv, IdsOK, ~crashed,
           NEW c \in DOMAIN conveyors, HasBox(c)
    PROVE  Reaches(told, conveyors[c].box.id)
<1> DEFINE b == conveyors[c].box.id
<1>1. DOMAIN conveyors \subseteq ConveyorId
  BY DEF LinksInv, SystemInv, SystemOK
<1>2. ASSUME NEW d \in DOMAIN conveyors
      PROVE  Linked(told, d) = {conveyors[d].connections[l].to : l \in Location}
  <2>1. told[d].connections = conveyors[d].connections
    BY <1>1 DEF LinksInv, ToldMatchesConveyors
  <2> QED
    BY <2>1 DEF Linked
<1>3. PICK path, n : RouteTold(c, path, n)
  BY DEF RoutesInv
<1>4. /\ n \in Nat
      /\ n <= Cardinality(ConveyorId)
      /\ path \in [1 .. n + 1 -> DOMAIN conveyors]
      /\ path[1] = INPUT_CONVEYOR_ID
      /\ path[n + 1] = c
      /\ \A k \in 1 .. n : path[k + 1] \in Graph(conveyors)[path[k]]
      /\ \A k \in 1 .. n + 1 : told[path[k]].routes[b] = NextOn(path, n, k)
  BY <1>3 DEF RouteTold, Route
<1> HIDE DEF b
<1>5. Leads(told, b, path, n)
  BY <1>1, <1>4 DEF Leads
<1>6. ASSUME NEW k \in 1 .. n
      PROVE  path[k + 1] \in Linked(told, path[k])
  <2>1. k \in 1 .. n + 1
    BY <1>4
  <2>2. path[k] \in DOMAIN conveyors
    BY <1>4, <2>1
  <2>3. path[k + 1] \in Graph(conveyors)[path[k]]
    BY <1>4
  <2> QED
    BY <1>2, <2>2, <2>3 DEF Graph
<1>7. BOX_CONVEYOR_ID \in Linked(told, path[n + 1])
  <2>1. PICK l \in Location :
           conveyors[c].connections[l].to = BOX_CONVEYOR_ID
    BY DEF IdsOK
  <2> QED
    BY <1>2, <1>4, <2>1
<1> QED
  BY <1>4, <1>5, <1>6, <1>7 DEF Reaches, b

(* A package that follows such a path stays at the conveyor with the box.  *)
LEMMA ReachesFinds ==
    ASSUME NEW b, Reaches(known, b)
    PROVE  FindsBox(b)
<1> DEFINE N == Cardinality(ConveyorId)
           at(n) == ReachedAfter(known, b, n)
<1>1. N \in Nat
  BY ConveyorAssumption, FS_CardinalityType
<1>2. PICK path, n :
         /\ Leads(known, b, path, n)
         /\ n <= N
         /\ \A k \in 1 .. n : path[k + 1] \in Linked(known, path[k])
         /\ BOX_CONVEYOR_ID \in Linked(known, path[n + 1])
  BY DEF Reaches
<1>3. /\ n \in Nat
      /\ path \in [1 .. n + 1 -> ConveyorId]
      /\ \A k \in 1 .. n + 1 : known[path[k]].routes[b] = NextOn(path, n, k)
  BY <1>2 DEF Leads
<1>4. ASSUME NEW k \in Nat
      PROVE  /\ k <= n => at(k) = path[k + 1]
             /\ ~(k <= n) => at(k) = path[n + 1]
  <2>1. at(k) = path[IF k <= n THEN k + 1 ELSE n + 1]
    BY <1>2, FollowsPath
  <2> QED
    BY <2>1
<1> HIDE DEF N, at
<1>5. at(N) = path[n + 1]
  <2>1. CASE N <= n
    <3>1. N = n
      BY <1>1, <1>2, <1>3, <2>1
    <3> QED
      BY <1>4, <1>1, <2>1, <3>1
  <2>2. CASE ~(N <= n)
    BY <1>1, <1>4, <2>2
  <2> QED
    BY <2>1, <2>2
<1>6. n + 1 \in 1 .. n + 1
  BY <1>3
<1>7. path[n + 1] \in ConveyorId /\ path[n + 1] # NoRoute
  BY <1>3, <1>6, ConveyorAssumption DEF NoRoute
<1>8. Hop(known, path[n + 1], b) = path[n + 1]
  <2>1. known[path[n + 1]].routes[b] = NextOn(path, n, n + 1)
    BY <1>3, <1>6
  <2> QED
    BY <1>7, <2>1 DEF Hop, NextOn
<1>9. ASSUME NEW k \in 0 .. N - 1
      PROVE  at(k + 1) = at(k) \/ at(k + 1) \in Linked(known, at(k))
  <2>1. k \in Nat /\ k + 1 \in Nat
    BY <1>1
  <2>2. CASE k + 1 <= n
    <3>1. k + 1 \in 1 .. n /\ k <= n
      BY <1>3, <2>1, <2>2
    <3>2. at(k) = path[k + 1] /\ at(k + 1) = path[(k + 1) + 1]
      BY <1>4, <2>1, <2>2, <3>1
    <3> QED
      BY <1>2, <3>1, <3>2
  <2>3. CASE ~(k + 1 <= n)
    <3>1. at(k + 1) = path[n + 1]
      BY <1>4, <2>1, <2>3
    <3>2. at(k) = path[n + 1]
      <4>1. CASE k <= n
        <5>1. k = n
          BY <1>3, <2>1, <2>3, <4>1
        <5> QED
          BY <1>4, <2>1, <4>1, <5>1
      <4>2. CASE ~(k <= n)
        BY <1>4, <2>1, <4>2
      <4> QED
        BY <4>1, <4>2
    <3> QED
      BY <3>1, <3>2
  <2> QED
    BY <2>2, <2>3
<1>10. /\ at(N) # NoRoute
       /\ Hop(known, at(N), b) = at(N)
       /\ BOX_CONVEYOR_ID \in Linked(known, at(N))
  BY <1>2, <1>5, <1>7, <1>8
<1> QED
  BY <1>9, <1>10 DEF FindsBox, Linked, at, N

(* A package that is enqueued will find the way that the books know, and   *)
(* what comes behind the others changes nothing for them.                  *)
LEMMA HandlePaths ==
    ASSUME PlantInv, handle_message,
           \/ NoPackageSent
           \/ \E c \in DOMAIN conveyors, p \in PackageId : PackageSent(c, p)
    PROVE  PathsOK'
<1> DEFINE w == Waiting
           t == Numbered(ant_out')
           v == w \o t
<1>1. IsASeq(ant_out')
  BY SentIsASeq
<1>2. /\ CommandsOK /\ KnownOK /\ LinksInv
      /\ RoutesInv /\ IdsOK /\ PathsOK
  BY DEF PlantInv, ToldInv
<1>3. Waiting' = v
  BY <1>1, <1>2, WaitingGrows
<1>4. IsASeq(w) /\ Len(w) \in Nat
  BY <1>2, WaitingIsASeq
<1>5. /\ IsASeq(t)
      /\ Len(t) \in Nat
      /\ DOMAIN t = DOMAIN ant_out'
      /\ \A i \in DOMAIN ant_out' : t[i].msg = ant_out'[i]
  <2>1. /\ IsASeq(t)
        /\ DOMAIN t = DOMAIN ant_out'
        /\ \A i \in DOMAIN ant_out' : t[i].msg = ant_out'[i]
    BY <1>1, NumberedCommands
  <2> HIDE DEF t
  <2> QED
    BY <2>1, Appending
<1>6. \A n \in 0 .. Len(w) : KnownAfter(n)' = KnownAfter(n)
  BY <1>1, <1>2, HandleKnown
<1>7. KnownAfter(Len(w)) = told
  BY <1>2 DEF KnownOK
<1>8. \A i \in 1 .. Len(w) :
         w[i].msg.id = "ADD_PACKAGE" => Reaches(KnownAfter(i - 1), w[i].msg.box)
  BY <1>2 DEF PathsOK
<1> HIDE DEF t
<1>9. /\ \A k \in 1 .. Len(w) : v[k] = w[k]
      /\ \A k \in Len(w) + 1 .. Len(w) + Len(t) :
            k - Len(w) \in DOMAIN t /\ v[k] = t[k - Len(w)]
  BY <1>4, <1>5, JoinedParts
<1>10. Len(v) = Len(w) + Len(t)
  <2> HIDE DEF w
  <2>1. IsASeq(v) /\ DOMAIN v = 1 .. Len(w) + Len(t)
    BY <1>4, <1>5, Joining
  <2> HIDE DEF v
  <2>2. Len(v) \in Nat /\ DOMAIN v = 1 .. Len(v)
    BY <2>1, Appending
  <2> QED
    BY <1>4, <1>5, <2>1, <2>2
<1> HIDE DEF w, v
<1>11. ASSUME NEW i \in 1 .. Len(w), v[i].msg.id = "ADD_PACKAGE"
       PROVE  Reaches(KnownAfter(i - 1)', v[i].msg.box)
  <2>1. i - 1 \in 0 .. Len(w)
    BY <1>4
  <2>2. KnownAfter(i - 1)' = KnownAfter(i - 1)
    BY <1>6, <2>1
  <2> QED
    BY <1>8, <1>9, <1>11, <2>2
<1>12. ASSUME NEW i \in Len(w) + 1 .. Len(w) + Len(t),
              v[i].msg.id = "ADD_PACKAGE"
       PROVE  Reaches(KnownAfter(i - 1)', v[i].msg.box)
  <2>1. /\ i - Len(w) \in DOMAIN ant_out'
        /\ v[i].msg = ant_out'[i - Len(w)]
    BY <1>5, <1>9
  <2>2. ~NoPackageSent
    BY <1>12, <2>1 DEF NoPackageSent
  <2>3. PICK c \in DOMAIN conveyors, p \in PackageId : PackageSent(c, p)
    BY <2>2
  <2>4. PICK m : /\ ant_out' = <<m>>
                 /\ m.box = conveyors[c].box.id
    BY <2>3 DEF PackageSent
  <2>5. DOMAIN <<m>> = {1} /\ <<m>>[1] = m
    BY OneIsASeq
  <2>6. i - Len(w) = 1 /\ v[i].msg = m
    BY <2>1, <2>4, <2>5
  <2>7. i - 1 = Len(w) /\ Len(w) \in 0 .. Len(w)
    BY <1>4, <2>6
  <2>8. KnownAfter(i - 1)' = told
    BY <1>6, <1>7, <2>7
  <2>9. Reaches(told, conveyors[c].box.id)
    BY <1>2, <2>3, BoxIsReached, HandleTells DEF PackageSent
  <2> QED
    BY <2>4, <2>6, <2>8, <2>9
<1>13. ASSUME NEW i \in 1 .. Len(v), v[i].msg.id = "ADD_PACKAGE"
       PROVE  Reaches(KnownAfter(i - 1)', v[i].msg.box)
  <2>1. i \in 1 .. Len(w) \/ i \in Len(w) + 1 .. Len(w) + Len(t)
    BY <1>4, <1>5, <1>10
  <2> QED
    BY <1>11, <1>12, <1>13, <2>1
<1> QED
  BY <1>3, <1>13 DEF PathsOK

(* The packages behind the command that arrives move up. *)
LEMMA ArrivePaths ==
    ASSUME CommandsOK, KnownOK, PathsOK, command_arrives
    PROVE  PathsOK'
<1> DEFINE w == Waiting'
           o == <<sending>>
           v == o \o w
<1>1. /\ Waiting = v
      /\ IsASeq(w)
      /\ \A n \in 0 .. Len(w) : KnownAfter(n)' = KnownAfter(n + 1)
  BY ArriveKnown
<1>2. IsASeq(o) /\ Len(o) = 1
  BY OneIsASeq
<1>3. Len(w) \in Nat /\ DOMAIN w = 1 .. Len(w)
  BY <1>1, Appending
<1>4. \A i \in 1 .. Len(v) :
         v[i].msg.id = "ADD_PACKAGE" => Reaches(KnownAfter(i - 1), v[i].msg.box)
  BY <1>1 DEF PathsOK
<1> HIDE DEF w, o
<1>5. IsASeq(v) /\ DOMAIN v = 1 .. 1 + Len(w)
  <2>1. IsASeq(v) /\ DOMAIN v = 1 .. Len(o) + Len(w)
    BY <1>1, <1>2, Joining, Zenon
  <2> QED
    BY <1>2, <2>1
<1>6. \A i \in DOMAIN w : v[Len(o) + i] = w[i]
  BY <1>1, <1>2, BehindTheFirst
<1> HIDE DEF v
<1>7. Len(v) = 1 + Len(w)
  <2>1. Len(v) \in Nat /\ DOMAIN v = 1 .. Len(v)
    BY <1>5, Appending
  <2> QED
    BY <1>3, <1>5, <2>1
<1>8. ASSUME NEW i \in 1 .. Len(w), w[i].msg.id = "ADD_PACKAGE"
      PROVE  Reaches(KnownAfter(i - 1)', w[i].msg.box)
  <2>1. /\ 1 + i \in 1 .. Len(v)
        /\ (1 + i) - 1 = i
        /\ i - 1 \in 0 .. Len(w)
        /\ (i - 1) + 1 = i
    BY <1>3, <1>7
  <2>2. v[1 + i] = w[i]
    BY <1>2, <1>3, <1>6
  <2>3. Reaches(KnownAfter(i), w[i].msg.box)
    BY <1>4, <1>8, <2>1, <2>2
  <2>4. KnownAfter(i - 1)' = KnownAfter(i)
    BY <1>1, <2>1
  <2> QED
    BY <2>3, <2>4
<1> QED
  BY <1>8 DEF PathsOK, w

------------------------------------------------------------------------------
(* The invariant of the plant holds *)

LEMMA InitPlant == CentralInit => PlantInv
<1> SUFFICES ASSUME CentralInit PROVE PlantInv
  OBVIOUS
<1>1. /\ Waiting = <<>>
      /\ inside = {}
      /\ DOMAIN conveyors = {}
      /\ Len(<<>>) = 0
  BY DEF CentralInit, Init, Waiting
<1>2. RoutesInv /\ IdsOK
  BY <1>1 DEF RoutesInv, IdsOK
<1>3. LoadOK
  <2>1. DESTINATION_BOX_SIZE \in Nat
    BY BoxSizeAssumption
  <2>2. ASSUME NEW b, NEW n \in 0 .. Len(Waiting)
        PROVE  Fits(Load(b, n))
    <3>1. n = 0 /\ PackagesIn(inside, b) = {}
      BY <1>1, <2>2 DEF PackagesIn
    <3>2. Load(b, n) = {}
      BY <3>1 DEF Load, InBoxAfter
    <3> QED
      BY <2>1, <3>2, FS_EmptySet DEF Fits
  <2> QED
    BY <1>1, <2>2 DEF LoadOK
<1>4. PathsOK
  BY <1>1 DEF PathsOK
<1> QED
  BY <1>2, <1>3, <1>4, InitTold DEF PlantInv

LEMMA HandlePlant ==
    ASSUME OneConveyorPerBox, PlantInv, handle_message
    PROVE  PlantInv'
<1>1. ToldInv /\ LinksInv /\ RoutesInv /\ IdsOK
  BY DEF PlantInv, ToldInv
<1>2. /\ ToldInv'
      /\ HandleKinds
      /\ \/ NoPackageSent
         \/ \E c \in DOMAIN conveyors, p \in PackageId : PackageSent(c, p)
  BY <1>1, HandleTold
<1>3. RoutesInv' /\ IdsOK'
  BY <1>1, <1>2, HandleBoxes
<1>4. LoadOK'
  BY <1>2, QuietLoad, SentLoad
<1>5. PathsOK'
  BY <1>2, HandlePaths
<1> QED
  BY <1>2, <1>3, <1>4, <1>5 DEF PlantInv

LEMMA StepPlant ==
    ASSUME OneConveyorPerBox
    PROVE  PlantInv /\ [CentralNext]_centralVars => PlantInv'
<1> SUFFICES ASSUME PlantInv, [CentralNext]_centralVars PROVE PlantInv'
  OBVIOUS
<1>1. CASE handle_message
  BY <1>1, HandlePlant
<1>2. CASE ~handle_message
  <2>1. ToldInv /\ CommandsOK /\ KnownOK /\ ToldInv'
    BY StepTold DEF PlantInv, ToldInv
  <2>2. UNCHANGED vars /\ (Idle \/ command_arrives)
    BY <1>2, <2>1, OtherCentralSteps
  <2>3. RoutesInv' /\ IdsOK'
    BY <2>2, SameBoxes DEF PlantInv
  <2>4. ASSUME Idle PROVE LoadOK' /\ PathsOK'
    BY <2>4, SameLoad, SamePaths DEF Idle, PlantInv, vars
  <2>5. ASSUME command_arrives PROVE LoadOK' /\ PathsOK'
    BY <2>1, <2>5, ArriveLoad, ArrivePaths DEF PlantInv
  <2> QED
    BY <2>1, <2>2, <2>3, <2>4, <2>5 DEF PlantInv
<1> QED
  BY <1>1, <1>2

(* The books are ahead of the plant by the commands that wait, whatever    *)
(* part of them has reached it (ConveyorSystem.cpp:57-140).                *)
THEOREM PlantHolds ==
    ASSUME OneConveyorPerBox
    PROVE  CentralSpec => []PlantInv
<1>1. PlantInv /\ [CentralNext]_centralVars => PlantInv'
  BY StepPlant
<1> QED
  BY <1>1, InitPlant, PTL DEF CentralSpec

(* For every set of requests and every size of the boxes, no more packages *)
(* are sent towards a box than it holds: the books are ahead of the plant  *)
(* by the commands that wait, and a box that is connected again is empty   *)
(* before the packages that were promised to it since arrive               *)
(* (DestinationBox.cpp:54, ConveyorSystem.cpp:118-131).                    *)
THEOREM PlantWithinCapacityHolds ==
    ASSUME OneConveyorPerBox
    PROVE  CentralSpec => []PlantWithinCapacity
<1>1. PlantInv => PlantWithinCapacity
  <2> SUFFICES ASSUME PlantInv, NEW b \in BoxId
               PROVE  Cardinality(PackagesIn(inside, b)) <= DESTINATION_BOX_SIZE
    BY DEF PlantWithinCapacity
  <2>1. Len(Waiting) \in Nat
    BY WaitingIsASeq DEF PlantInv, ToldInv
  <2>2. Fits(Load(b, 0))
    BY <2>1 DEF PlantInv, LoadOK
  <2>3. Load(b, 0) = PackagesIn(inside, b)
    BY DEF Load, InBoxAfter
  <2> QED
    BY <2>2, <2>3 DEF Fits
<1> QED
  BY <1>1, PlantHolds, PTL

(* The package that arrives was the first of the commands that waited.     *)
LEMMA ArrivalFinds ==
    ASSUME PlantInv, command_arrives, entered' # entered
    PROVE  FindsBox(sending.msg.box)
<1>1. CommandsOK /\ KnownOK /\ PathsOK
  BY DEF PlantInv, ToldInv
<1>2. sending.msg.id = "ADD_PACKAGE"
  BY DEF command_arrives, configuration_arrives, package_enters,
         package_leaves, box_is_cleared
<1> DEFINE w == Waiting'
           o == <<sending>>
           v == o \o w
<1>3. Waiting = v /\ IsASeq(w)
  BY <1>1, ArriveKnown
<1>4. IsASeq(o) /\ Len(o) = 1 /\ o[1] = sending
  BY OneIsASeq
<1> HIDE DEF w, o
<1>5. v[1] = sending
  <2>1. 1 \in 1 .. Len(o)
    BY <1>4
  <2> QED
    BY <1>3, <1>4, <2>1, JoinedParts
<1>6. 1 \in 1 .. Len(v)
  <2>1. /\ IsASeq(v)
        /\ DOMAIN v = 1 .. Len(o) + Len(w)
        /\ Len(w) \in Nat
    BY <1>3, <1>4, Joining
  <2> HIDE DEF v
  <2>2. Len(v) \in Nat /\ DOMAIN v = 1 .. Len(v)
    BY <2>1, Appending
  <2> QED
    BY <1>4, <2>1, <2>2
<1> HIDE DEF v
<1>7. Reaches(KnownAfter(0), sending.msg.box)
  <2>1. 1 - 1 = 0
    OBVIOUS
  <2>2. Reaches(KnownAfter(1 - 1), v[1].msg.box)
    BY <1>1, <1>2, <1>3, <1>5, <1>6 DEF PathsOK
  <2> QED
    BY <1>5, <2>1, <2>2
<1>8. KnownAfter(0) = known
  BY <1>1, EmptyPrefix DEF KnownOK, KnownAfter
<1> QED
  BY <1>7, <1>8, ReachesFinds

(* For all configurations and requests, a package that enters the plant    *)
(* finds its way with what the conveyors know at that moment, although     *)
(* the books are ahead of them: the routes were enqueued before it, and    *)
(* what would change them waits behind it (ConveyorSystem.cpp:74-79, 124;  *)
(* MessageQueue.h:18-38).                                                  *)
THEOREM PackageFindsBoxHolds ==
    ASSUME OneConveyorPerBox
    PROVE  CentralSpec => PackageFindsBox
<1>1. PlantInv /\ [CentralNext]_centralVars =>
         [entered' # entered => FindsBox(sending.msg.box)]_centralVars
  <2> SUFFICES ASSUME PlantInv, [CentralNext]_centralVars, entered' # entered
               PROVE  FindsBox(sending.msg.box)
    OBVIOUS
  <2>1. ~handle_message
    BY HandleCommands
  <2>2. command_arrives
    BY <2>1, OtherCentralSteps DEF PlantInv, Idle
  <2> QED
    BY <2>2, ArrivalFinds
<1> QED
  BY <1>1, PlantHolds, PTL DEF CentralSpec, PackageFindsBox
===============================================================================
