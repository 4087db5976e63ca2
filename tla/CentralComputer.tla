---------------------------- MODULE CentralComputer ----------------------------
(***************************************************************************)
(* The threads and their queues around the conveyor system: clients put    *)
(* requests into webRx (WebSocketServer.cpp, the asio thread), the         *)
(* processing thread takes one at a time and runs it                       *)
(* (ProcessingThread.cpp, WebThreadMessageHandler.cpp), its answers go     *)
(* through webTx to every client (WebSocketQueueHandler.cpp), its commands *)
(* through antTx to the plant.                                             *)
(*                                                                         *)
(* The books, vars, and the operations on them are those of                *)
(* ConveyorSystem.  The link to the plant is what ANTServer promises,      *)
(* StopAndWait.  The plant is external: it believes its messages           *)
(* (Learned), takes packages, reports that they arrived in their box and   *)
(* answers a clear.  Its reports go to antRx.  The processing thread has a *)
(* handler for them (ANTThreadMessageHandler.cpp:10-48) and never calls    *)
(* it, so no action here takes from antRx.                                 *)
(*                                                                         *)
(* An operation is one step: the queues it writes to are the only state    *)
(* that other threads see of it, and its commands come before its answer.  *)
(***************************************************************************)
EXTENDS ConveyorSystem

CONSTANTS
    Requests,       \* bound: what the clients may ask
    MaxRequests     \* bound: how many requests they send

VARIABLES
    webRx,        \* the requests the processing thread has not taken yet
    webTx,        \* the answers not sent yet
    antTx,        \* the commands the link has not begun yet
    antRx,        \* the reports of the plant
    sending,      \* the command on the link
    arrived,      \* whether that has reached the plant
    asked,        \* the requests so far
    owed,         \* those that await an answer
    answered,     \* the answers the clients got, in order
    known,        \* external: what the conveyors know
    inside,       \* external: the packages in the plant, each with its box
    stored,       \* external: those that arrived in their box
    entered       \* the requests whose package entered the plant

link == <<sending, arrived>>
clients == <<asked, owed>>
plant == <<known, inside, stored, entered>>
centralVars ==
    <<vars, webRx, webTx, antTx, antRx, link, clients, answered, plant>>

(* What clients send. *)
Request ==
    [id : {"CONVEYOR_STATE_MSG"}, config : Configurations]
        \union
    [id : {"ADD_DESTINATION_BOX"}, conveyor : ConveyorId, box : BoxId,
     location : BoxLocations]
        \union
    [id : {"ADD_PACKAGE"}, package : PackageId]
        \union
    [id : {"DESTINATION_BOX_STATUS", "CLEAR_BOX"}, box : BoxId]
        \union
    [id : {"REMOVE_PACKAGE"}, package : PackageId, box : BoxId]

ASSUME RequestAssumption == Requests \subseteq Request

(* Messages carry the number of the request they belong to, to tell them   *)
(* apart.                                                                  *)
NoCommand == [msg |-> [id |-> "NONE"], of |-> 0]

Link == INSTANCE StopAndWait WITH
    Command <- {},
    None    <- NoCommand,
    queue   <- antTx,
    current <- sending

CentralInit ==
    /\ Init
    /\ webRx = <<>>
    /\ webTx = <<>>
    /\ antTx = <<>>
    /\ antRx = <<>>
    /\ sending = NoCommand
    /\ arrived = FALSE
    /\ asked = 0
    /\ owed = {}
    /\ answered = <<>>
    /\ known = told
    /\ inside = {}
    /\ stored = {}
    /\ entered = {}

------------------------------------------------------------------------------
(* The asio thread: a message of a client *)

(* The requests that are answered whatever the state; that of a status or  *)
(* a clear may not be.                                                     *)
Answerable == {"ADD_DESTINATION_BOX", "ADD_PACKAGE", "REMOVE_PACKAGE"}

on_message(r) ==
    /\ ~crashed
    /\ asked < MaxRequests
    /\ asked' = asked + 1
    /\ owed' = IF r.id \in Answerable THEN owed \union {asked'} ELSE owed
    /\ webRx' = Append(webRx, [request |-> r, of |-> asked'])
    /\ UNCHANGED <<vars, webTx, antTx, antRx, link, answered, plant>>

------------------------------------------------------------------------------
(* The processing thread *)

request == Head(webRx).request

TakeRequest(id) ==
    /\ webRx # <<>>
    /\ request.id = id
    /\ webRx' = Tail(webRx)

Numbered(msgs) ==
    [i \in DOMAIN msgs |-> [msg |-> msgs[i], of |-> Head(webRx).of]]

(* Mutant: commands of a later operation overtake those that wait. *)
Enqueued_InFront ==
    /\ antTx' = Numbered(ant_out') \o antTx
    /\ webTx' = webTx \o Numbered(web_out')
    /\ UNCHANGED <<antRx, link, clients, answered, plant>>

(* Mutant: nothing is enqueued for a plant that is busy. *)
Enqueued_WhenIdle ==
    /\ antTx' = IF antTx = <<>> THEN Numbered(ant_out') ELSE antTx
    /\ webTx' = webTx \o Numbered(web_out')
    /\ UNCHANGED <<antRx, link, clients, answered, plant>>

(* What the operation enqueued. *)
Enqueued ==
    /\ antTx' = antTx \o Numbered(ant_out')
    /\ webTx' = webTx \o Numbered(web_out')
    /\ UNCHANGED <<antRx, link, clients, answered, plant>>

handle_CONVEYOR_STATE_MSG ==
    /\ TakeRequest("CONVEYOR_STATE_MSG")
    /\ set_state(request.config)
    /\ Enqueued

handle_ADD_DESTINATION_BOX ==
    /\ TakeRequest("ADD_DESTINATION_BOX")
    /\ LET c == request.conveyor
           b == request.box
           location == request.location
       IN \/ add_destination_box(c, b, location)
          \/ add_destination_box_refused(c, b, location)
          \/ add_destination_box_crashes(c, b, location)
          \/ add_destination_box_out_of_range(c, b, location)
    /\ Enqueued

handle_ADD_PACKAGE ==
    /\ TakeRequest("ADD_PACKAGE")
    /\ \/ send_package(request.package)
       \/ send_package_refused(request.package)
    /\ Enqueued

(* The state of an unknown box is only logged. *)
handle_DESTINATION_BOX_STATUS ==
    /\ TakeRequest("DESTINATION_BOX_STATUS")
    /\ \/ get_destination_box_state(request.box)
       \/ /\ ~crashed
          /\ ~box_available(request.box)
          /\ Send(<<>>, <<>>)
          /\ UNCHANGED <<conveyors, crashed, clearing>>
    /\ Enqueued

handle_REMOVE_PACKAGE ==
    /\ TakeRequest("REMOVE_PACKAGE")
    /\ \/ package_removed(request.package, request.box)
       \/ package_removal_refused(request.package, request.box)
    /\ Enqueued

handle_CLEAR_BOX ==
    /\ TakeRequest("CLEAR_BOX")
    /\ \/ clear_box_requested(request.box)
       \/ clear_box_refused(request.box)
    /\ Enqueued

handle_message ==
    \/ handle_CONVEYOR_STATE_MSG
    \/ handle_ADD_DESTINATION_BOX
    \/ handle_ADD_PACKAGE
    \/ handle_DESTINATION_BOX_STATUS
    \/ handle_REMOVE_PACKAGE
    \/ handle_CLEAR_BOX

------------------------------------------------------------------------------
(* The web queue handler *)

Answers(answer) ==
    /\ ~crashed
    /\ webTx # <<>>
    /\ answered' = Append(answered, answer)
    /\ owed' = owed \ {answer.of}

(* Mutant: the newest answer is sent first. *)
send_NewestFirst ==
    /\ Answers(webTx[Len(webTx)])
    /\ webTx' = SubSeq(webTx, 1, Len(webTx) - 1)
    /\ UNCHANGED <<vars, webRx, antTx, antRx, link, asked, plant>>

(* Mutant: the answers that wait behind the first are dropped. *)
send_Drops ==
    /\ Answers(Head(webTx))
    /\ webTx' = <<>>
    /\ UNCHANGED <<vars, webRx, antTx, antRx, link, asked, plant>>

(* The next answer is sent to every client. *)
send ==
    /\ Answers(Head(webTx))
    /\ webTx' = Tail(webTx)
    /\ UNCHANGED <<vars, webRx, antTx, antRx, link, asked, plant>>

------------------------------------------------------------------------------
(* The link and the plant *)

begin_command ==
    /\ ~crashed
    /\ Link!Begin
    /\ UNCHANGED <<vars, webRx, webTx, antRx, clients, answered, plant>>

finish_command ==
    /\ ~crashed
    /\ Link!Finish
    /\ UNCHANGED <<vars, webRx, webTx, antRx, clients, answered, plant>>

PackagesIn(pairs, b) == {pair[1] : pair \in {x \in pairs : x[2] = b}}

OutOf(pairs, b) == {pair \in pairs : pair[2] # b}

(* A conveyor gets a configuration message.  A box that is connected is    *)
(* empty.                                                                  *)
configuration_arrives ==
    LET msg == sending.msg IN
    /\ msg.id \in {"DISCONNECT", "CONVEYOR_CONNECT", "BOX_CONNECT",
                   "ROUTING_PLAN"}
    /\ known' = Learned(known, <<msg>>)
    /\ IF msg.id = "BOX_CONNECT"
       THEN inside' = OutOf(inside, msg.box) /\ stored' = OutOf(stored, msg.box)
       ELSE UNCHANGED <<inside, stored>>
    /\ UNCHANGED <<antRx, entered>>

package_enters ==
    LET msg == sending.msg IN
    /\ msg.id = "ADD_PACKAGE"
    /\ inside' = inside \union {<<msg.package, msg.box>>}
    /\ entered' = entered \union {sending.of}
    /\ UNCHANGED <<antRx, known, stored>>

package_leaves ==
    LET msg == sending.msg IN
    /\ msg.id = "REMOVE_PACKAGE"
    /\ inside' = inside \ {<<msg.package, msg.box>>}
    /\ stored' = stored \ {<<msg.package, msg.box>>}
    /\ UNCHANGED <<antRx, known, entered>>

(* What had arrived in the box leaves, and is reported. *)
box_is_cleared ==
    LET msg == sending.msg IN
    /\ msg.id = "CLEAR_BOX"
    /\ inside' = inside \ (stored \ OutOf(stored, msg.box))
    /\ stored' = OutOf(stored, msg.box)
    /\ antRx' = Append(antRx, [id  |-> "CLEAR_BOX_RESPONSE", box |-> msg.box,
                               packages |-> PackagesIn(stored, msg.box)])
    /\ UNCHANGED <<known, entered>>

(* The command on the link reaches the plant; a repeated one is not taken  *)
(* twice, as its timestamp tells.                                          *)
command_arrives ==
    /\ ~arrived
    /\ Link!Arrive
    /\ \/ configuration_arrives
       \/ package_enters
       \/ package_leaves
       \/ box_is_cleared
    /\ UNCHANGED <<vars, webRx, webTx, clients, answered>>

package_arrives(pair) ==
    /\ pair \in inside \ stored
    /\ stored' = stored \union {pair}
    /\ antRx' = Append(antRx, [id |-> "PACKAGE_ARRIVED", package |-> pair[1],
                               box |-> pair[2]])
    /\ UNCHANGED <<vars, webRx, webTx, antTx, link, clients, answered, known,
                   inside, entered>>

------------------------------------------------------------------------------

link_step == begin_command \/ command_arrives \/ finish_command

CentralNext ==
    \/ \E r \in Requests : on_message(r)
    \/ handle_message
    \/ send
    \/ link_step
    \/ \E pair \in PackageId \X BoxId : package_arrives(pair)

CentralSpec == CentralInit /\ [][CentralNext]_centralVars

(* A request is taken as long as the process lives: handle_message takes   *)
(* one whatever it is.                                                     *)
RequestTaken == ~crashed /\ webRx # <<>> /\ webRx' = Tail(webRx)

(* Both loops of the process run, and the link is live                     *)
(* (ANTServer!EveryCommandExecuted).                                       *)
Fairness ==
    /\ WF_webRx(RequestTaken)
    /\ WF_centralVars(send)
    /\ WF_centralVars(link_step)

CentralLiveSpec == CentralSpec /\ Fairness

------------------------------------------------------------------------------
(* Properties *)

(* Clients get the answers in the order in which they asked, although      *)
(* these pass two queues and two threads (ProcessingThread.cpp:16-17,      *)
(* WebSocketQueueHandler.cpp:13-16).                                       *)
AnswersInOrder ==
    \A i, j \in DOMAIN answered : i < j => answered[i].of < answered[j].of

(* A package that enters the plant finds its way with what the conveyors   *)
(* know at that moment, although requests that came later have changed     *)
(* the books since: from the input conveyor along links to a conveyor with *)
(* a box that keeps it (ConveyorSystem.cpp:74-79, 124; MessageQueue.h:     *)
(* 18-38).                                                                 *)
FindsBox(b) ==
    LET N == Cardinality(ConveyorId)
        at(n) == ReachedAfter(known, b, n)
        linked(c) == {known[c].connections[l].to : l \in Location}
    IN /\ at(N) # NoRoute
       /\ Hop(known, at(N), b) = at(N)
       /\ BOX_CONVEYOR_ID \in linked(at(N))
       /\ \A n \in 0 .. N - 1 : at(n + 1) \in {at(n)} \union linked(at(n))

PackageFindsBox ==
    [][entered' # entered => FindsBox(sending.msg.box)]_centralVars

(* No more packages are sent towards a box than it holds, counted where    *)
(* they are and not in the books (DestinationBox.cpp:54,                   *)
(* ConveyorSystem.cpp:118-131).                                            *)
PlantWithinCapacity ==
    \A b \in BoxId :
        Cardinality(PackagesIn(inside, b)) <= DESTINATION_BOX_SIZE

(* Once the commands are through, each conveyor is linked as the books     *)
(* say, whatever was configured again in the meantime                      *)
(* (ConveyorSystem.cpp:18-48, 201-207).                                    *)
DrainedPlantMatchesBooks ==
    antTx = <<>> /\ sending = NoCommand /\ ~crashed =>
        \A c \in ConveyorId :
            known[c].connections =
                IF c \in DOMAIN conveyors THEN conveyors[c].connections
                ELSE NoConveyor.connections

(* Whoever asked to add a box, or to add or remove a package, gets an      *)
(* answer (ConveyorSystem.cpp:87-92, 134-139, 153-182).                    *)
EveryRequestAnswered == []<>(owed = {} \/ crashed)

(* The package requests answered with success. *)
Promised ==
    {answered[i].of : i \in
        {j \in DOMAIN answered : answered[j].msg.id = "ADD_PACKAGE_RESPONSE"
                                 /\ answered[j].msg.success}}

(* A package that a client was told is accepted enters the plant.  The     *)
(* answer leaves through another queue than the command and may overtake   *)
(* it (ConveyorSystem.cpp:124, 135).                                       *)
PromisedPackageEnters == []<>(Promised \subseteq entered \/ crashed)

(* What the plant reports is handled: "Call this when the physical box     *)
(* sends a message that the package was received" (DestinationBox.h:39).   *)
PlantReportsHandled == antRx # <<>> ~> antRx = <<>>
===============================================================================
