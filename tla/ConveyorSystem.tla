---------------------------- MODULE ConveyorSystem ----------------------------
(***************************************************************************)
(* The conveyor system (ConveyorSystem.cpp, Conveyor.cpp): which conveyors *)
(* and boxes the plant has, which packages each box holds or expects.  One *)
(* action per operation of the class, run by the processing thread for one *)
(* message of the client (the web handler) or of the plant (the ANT        *)
(* handler).  What an operation enqueues for the two other threads is left *)
(* in ant_out and web_out, which the next operation overwrites; a module   *)
(* that composes the threads appends them to its queues.                   *)
(*                                                                         *)
(* The client sends any request with any ids.  The plant reports arrivals  *)
(* of any package, and answers a clear with any set of packages, at any    *)
(* later time and also after the configuration has changed.                *)
(*                                                                         *)
(* The JSON of a request is well-formed, and its numbers fit an int.       *)
(***************************************************************************)
EXTENDS DestinationBox, ConveyorGraph, Integers, SequencesExt

CONSTANTS
    ConveyorId,        \* the ids a configuration may use
    Configurations,    \* the configurations a client may send: functions
                       \* from conveyors to the sequence of their neighbours
    KeyRank,           \* the order of the ids as JSON keys ("10" < "2")
    BoxLocations,      \* the locations a client asks for, any number
    ColourOf,          \* the colour a client gives each package
    ClientReusesIds    \* whether a client sends ids that are in use again

EMPTY_CONVEYOR_ID == -1
BOX_CONVEYOR_ID == -2
CONVEYOR_MAX_CONNECTIONS == 4
Location == 0 .. CONVEYOR_MAX_CONNECTIONS - 1

ASSUME ConveyorAssumption ==
    /\ ConveyorId \subseteq Nat \ {0}
    /\ IsFiniteSet(ConveyorId)
    /\ INPUT_CONVEYOR_ID \in ConveyorId
    /\ KeyRank \in [ConveyorId -> Nat]
    /\ \A a, b \in ConveyorId : KeyRank[a] = KeyRank[b] => a = b

ASSUME LocationAssumption == BoxLocations \subseteq Int

(* The client sends the colour as a number, which send_package casts       *)
(* without a look: it may be that of NONE or INVALID.                      *)
ASSUME ColourAssumption == ColourOf \in [PackageId -> BoxType]

(* Packages have one of the three colours that are sorted.  Only theorems  *)
(* about colours assume it.                                                *)
RealColours == ColourOf \in [PackageId -> PackageType]

ASSUME ReuseAssumption == ClientReusesIds \in BOOLEAN

(* Every neighbour a configuration names is configured too. *)
ASSUME ConfigurationAssumption ==
    \A config \in Configurations :
        /\ DOMAIN config \subseteq ConveyorId
        /\ IsFiniteSet(DOMAIN config)
        /\ \A c \in DOMAIN config :
              config[c] \in Seq(DOMAIN config \union {EMPTY_CONVEYOR_ID})

VARIABLES
    conveyors,    \* the configured conveyors, with their links and their box
    crashed,      \* an exception no one catches, or an invalid access, ended
                  \* the process
    ant_out,      \* the messages the last operation enqueued for the plant
    web_out,      \* the messages the last operation enqueued for the client
    told,         \* what the conveyors know from the messages sent so far
    clearing      \* the boxes a CLEAR_BOX was sent for, whose answer may come

vars == <<conveyors, crashed, ant_out, web_out, told, clearing>>

Connection == [to   : ConveyorId \union {EMPTY_CONVEYOR_ID, BOX_CONVEYOR_ID},
               type : {"MASTER", "SLAVE", "INVALID"}]

NoConnection == [to |-> EMPTY_CONVEYOR_ID, type |-> "INVALID"]

BoxConnection == [to |-> BOX_CONVEYOR_ID, type |-> "SLAVE"]

Conveyor == [connections : [Location -> Connection], box : Box]

NoConveyor ==
    [connections |-> [l \in Location |-> NoConnection], box |-> NewBox]

NoRoute == 0

------------------------------------------------------------------------------
(* Messages to the plant *)

Disconnect(c) == [id |-> "DISCONNECT", conveyor |-> c]

ConveyorConnect(c, to, type, location) ==
    [id |-> "CONVEYOR_CONNECT", conveyor |-> c, to |-> to, type |-> type,
     location |-> location]

BoxConnect(c, b, location) ==
    [id |-> "BOX_CONNECT", conveyor |-> c, box |-> b, location |-> location]

RoutingPlan(c, b, next) ==
    [id |-> "ROUTING_PLAN", conveyor |-> c, box |-> b, to |-> next]

AddPackage(b, p) ==
    [id |-> "ADD_PACKAGE", conveyor |-> INPUT_CONVEYOR_ID, box |-> b,
     package |-> p, type |-> ColourOf[p]]

RemovePackage(c, b, p) ==
    [id |-> "REMOVE_PACKAGE", conveyor |-> c, box |-> b, package |-> p]

ClearBox(c, b) == [id |-> "CLEAR_BOX", conveyor |-> c, box |-> b]

(* Messages to the client *)

AddBoxResponse(b, c, success) ==
    [id |-> "ADD_DESTINATION_BOX_RESPONSE", box |-> b, conveyor |-> c,
     success |-> success]

AddPackageResponse(p, b, success) ==
    [id |-> "ADD_PACKAGE_RESPONSE", package |-> p, box |-> b,
     success |-> success]

PackageReceivedAck(p, b) ==
    [id |-> "PACKAGE_RECEIVED_ACK", package |-> p, box |-> b]

BoxStatusResponse(box) ==
    [id |-> "DESTINATION_BOX_STATUS_RESPONSE", box |-> box.id,
     type |-> box.package_type, stored |-> box.packages_stored,
     transit |-> box.packages_transit]

RemovePackageResponse(p, b, success) ==
    [id |-> "REMOVE_PACKAGE_RESPONSE", package |-> p, box |-> b,
     success |-> success]

ClearBoxResponse(b, removed, success) ==
    [id |-> "CLEAR_BOX_RESPONSE", box |-> b, packages |-> removed,
     success |-> success]

------------------------------------------------------------------------------
(* Helpers on the state *)

HasBox(c) == c \in DOMAIN conveyors /\ is_initialized(conveyors[c].box)

HasConnectionAt(c, location) ==
    conveyors[c].connections[location].to # EMPTY_CONVEYOR_ID

(* The conveyors whose box has this id. *)
Holders(b) == {c \in DOMAIN conveyors : HasBox(c) /\ conveyors[c].box.id = b}

box_available(b) == Holders(b) # {}

(* The conveyor whose box find_box returns, the first in the order of the  *)
(* ids.  For a box that is not there, "Returning invalid box", it is the   *)
(* input conveyor.                                                         *)
find_box(b) ==
    IF box_available(b) THEN Min(Holders(b)) ELSE INPUT_CONVEYOR_ID

WithBox(c, box) == [conveyors EXCEPT ![c].box = box]

(* The conveyors each conveyor is linked to. *)
Graph(system) ==
    [c \in DOMAIN system |->
        {system[c].connections[l].to : l \in Location} \intersect ConveyorId]

------------------------------------------------------------------------------
(* The configuration *)

(* Neighbours are given north, east, south, west; a longer list starts     *)
(* over, and its later entries replace the earlier ones.                   *)
LocationOf(i) == (i - 1) % CONVEYOR_MAX_CONNECTIONS

(* Mutant: the types are decided with all of the configuration known. *)
ConnectionType_AllKnown(config, c, to) ==
    IF to \in DOMAIN config THEN "SLAVE" ELSE "MASTER"

(* Of two linked conveyors the one that comes first in the JSON object is  *)
(* the master: its neighbour is not in the map yet.                        *)
ConnectionType(config, c, to) ==
    IF to \in DOMAIN config /\ KeyRank[to] < KeyRank[c]
    THEN "SLAVE" ELSE "MASTER"

(* The entries of a conveyor's list that end up at a location. *)
EntriesAt(nbrs, location) ==
    {i \in DOMAIN nbrs : LocationOf(i) = location
                         /\ nbrs[i] # EMPTY_CONVEYOR_ID}

ConnectionsOf(config, c) ==
    [l \in Location |->
        LET at == EntriesAt(config[c], l)
            to == config[c][Max(at)]
        IN IF at = {} THEN NoConnection
           ELSE [to |-> to, type |-> ConnectionType(config, c, to)]]

Configured(config) ==
    [c \in DOMAIN config |->
        [NoConveyor EXCEPT !.connections = ConnectionsOf(config, c)]]

(* The elements of a finite set in an order, a set of pairs.               *)
InOrder(S, order) ==
    [n \in 1 .. Cardinality(S) |->
        CHOOSE x \in S :
            Cardinality({y \in S : <<y, x>> \in order}) = n - 1]

(* Mutant: a new configuration does not disconnect the old one. *)
clear_configuration_Silent == <<>>

(* The ids of a map come in their order as numbers. *)
ById(ids) == {pair \in ids \X ids : pair[1] < pair[2]}

(* The messages that disconnect every configured conveyor. *)
clear_configuration ==
    LET ids == InOrder(DOMAIN conveyors, ById(DOMAIN conveyors))
    IN [n \in DOMAIN ids |-> Disconnect(ids[n])]

(* The entries of a configuration that name a neighbour: the conveyor, and *)
(* where in its list.                                                      *)
Entries(config) ==
    UNION {{<<c, i>> : i \in {j \in DOMAIN config[c] :
                                  config[c][j] # EMPTY_CONVEYOR_ID}} :
           c \in DOMAIN config}

(* The conveyors come in the order of their keys, each with its list.      *)
ByKey(entries) ==
    {pair \in entries \X entries :
        \/ KeyRank[pair[1][1]] < KeyRank[pair[2][1]]
        \/ pair[1][1] = pair[2][1] /\ pair[1][2] < pair[2][2]}

ConnectEntry(config, c, i) ==
    ConveyorConnect(c, config[c][i], ConnectionType(config, c, config[c][i]),
                    LocationOf(i))

ConnectAll(config) ==
    LET entries == InOrder(Entries(config), ByKey(Entries(config)))
    IN [n \in DOMAIN entries |->
           ConnectEntry(config, entries[n][1], entries[n][2])]

------------------------------------------------------------------------------
(* Routing *)

(* The outcomes of calculate_routing_plan: a shortest path, which one      *)
(* depending on the order of the locations (RoutingPlan.tla).              *)
calculate_routing_plan(system, c) == ShortestPaths(Graph(system), c)

(* Mutant: the last conveyor is not told that the box is its own. *)
RoutingMessages_NoLast(b, path) ==
    [i \in 1 .. Len(path) - 1 |-> RoutingPlan(path[i], b, path[i + 1])]

(* Each conveyor on the path is told the next one, the last one itself. *)
RoutingMessages(b, path) ==
    [i \in DOMAIN path |->
        RoutingPlan(path[i], b, path[IF i = Len(path) THEN i ELSE i + 1])]

------------------------------------------------------------------------------
(* What the conveyors make of messages.  Their firmware is not part of the *)
(* repository: the last message that speaks of a location, or of a route   *)
(* to a box, is believed, and a disconnected conveyor forgets its links.   *)
(* That it forgets its routes is not assumed.                              *)
SpeaksOfLink(msg, c, l) ==
    /\ msg.id \in {"DISCONNECT", "CONVEYOR_CONNECT", "BOX_CONNECT"}
    /\ msg.conveyor = c
    /\ msg.id # "DISCONNECT" => msg.location = l

LinkSaid(msg) ==
    IF msg.id = "DISCONNECT" THEN NoConnection
    ELSE IF msg.id = "BOX_CONNECT" THEN BoxConnection
    ELSE [to |-> msg.to, type |-> msg.type]

SpeaksOfRoute(msg, c, b) ==
    msg.id = "ROUTING_PLAN" /\ msg.conveyor = c /\ msg.box = b

LinkLearned(known, msgs, c, l) ==
    LET said == {i \in DOMAIN msgs : SpeaksOfLink(msgs[i], c, l)}
    IN IF said = {} THEN known[c].connections[l] ELSE LinkSaid(msgs[Max(said)])

RouteLearned(known, msgs, c, b) ==
    LET said == {i \in DOMAIN msgs : SpeaksOfRoute(msgs[i], c, b)}
    IN IF said = {} THEN known[c].routes[b] ELSE msgs[Max(said)].to

Learned(known, msgs) ==
    [c \in ConveyorId |->
        [connections |-> [l \in Location |-> LinkLearned(known, msgs, c, l)],
         routes      |-> [b \in BoxId |-> RouteLearned(known, msgs, c, b)]]]

Told(msgs) == told' = Learned(told, msgs)

(* Enqueue the messages of an operation. *)
Send(ant, web) == ant_out' = ant /\ web_out' = web /\ Told(ant)

------------------------------------------------------------------------------
(* Operations *)

Init ==
    /\ conveyors = [c \in {} |-> NoConveyor]
    /\ crashed = FALSE
    /\ ant_out = <<>>
    /\ web_out = <<>>
    /\ told = [c \in ConveyorId |->
                  [connections |-> [l \in Location |-> NoConnection],
                   routes |-> [b \in BoxId |-> NoRoute]]]
    /\ clearing = {}

(* The packages the system holds in some box. *)
Tracked ==
    UNION {Contents(conveyors[c].box) : c \in DOMAIN conveyors}

FreshBox(b) == ClientReusesIds \/ ~box_available(b)

FreshPackage(p) == ClientReusesIds \/ p \notin Tracked

set_state(config) ==
    /\ ~crashed
    /\ conveyors' = Configured(config)
    /\ Send(clear_configuration \o ConnectAll(config), <<>>)
    /\ UNCHANGED <<crashed, clearing>>

(* Only then is the location looked at. *)
CanHoldBox(c) == c \in DOMAIN conveyors /\ ~HasBox(c)

(* The conditions under which a box can be added to a conveyor. *)
RoomForBox(c, location) ==
    /\ CanHoldBox(c)
    /\ location \in Location
    /\ ~HasConnectionAt(c, location)

add_destination_box_refused(c, b, location) ==
    /\ ~crashed
    /\ CanHoldBox(c) => location \in Location /\ HasConnectionAt(c, location)
    /\ Send(<<>>, <<AddBoxResponse(b, c, FALSE)>>)
    /\ UNCHANGED <<conveyors, crashed, clearing>>

(* Mutant: the connection names the box. *)
ConnectBox_ById(c, b, location) ==
    conveyors' = [conveyors EXCEPT ![c] =
        [connections |-> [@.connections EXCEPT
                            ![location] = [to |-> b, type |-> "SLAVE"]],
         box         |-> initialize_box(@.box, b)]]

ConnectBox(c, b, location) ==
    conveyors' = [conveyors EXCEPT ![c] =
        [connections |-> [@.connections EXCEPT ![location] = BoxConnection],
         box         |-> initialize_box(@.box, b)]]

add_destination_box(c, b, location) ==
    /\ ~crashed
    /\ FreshBox(b)
    /\ RoomForBox(c, location)
    /\ ConnectBox(c, b, location)
    /\ \E path \in calculate_routing_plan(conveyors', c) :
          Send(<<BoxConnect(c, b, location)>> \o RoutingMessages(b, path),
               <<AddBoxResponse(b, c, TRUE)>>)
    /\ UNCHANGED <<crashed, clearing>>

(* No path leads to the conveyor: create_routing_plan logs it and takes    *)
(* the last element of the empty path all the same.  Without the input     *)
(* conveyor in the configuration calculate_routing_plan throws.            *)
add_destination_box_crashes(c, b, location) ==
    /\ ~crashed
    /\ FreshBox(b)
    /\ RoomForBox(c, location)
    /\ ConnectBox(c, b, location)
    /\ calculate_routing_plan(conveyors', c) = {}
    /\ crashed' = TRUE
    /\ Send(<<BoxConnect(c, b, location)>>, <<>>)
    /\ UNCHANGED clearing

(* There are four locations and nothing checks the number of the client:   *)
(* connections.at throws.                                                  *)
add_destination_box_out_of_range(c, b, location) ==
    /\ ~crashed
    /\ CanHoldBox(c)
    /\ location \notin Location
    /\ crashed' = TRUE
    /\ Send(<<>>, <<>>)
    /\ UNCHANGED <<conveyors, clearing>>

(* The conveyors a package of this colour could go to. *)
Candidates(colour) ==
    {c \in DOMAIN conveyors :
        /\ HasBox(c)
        /\ can_accept_package(conveyors[c].box, colour)
        /\ adds_package(conveyors[c].box, colour)}

send_package(p) ==
    /\ ~crashed
    /\ FreshPackage(p)
    /\ Candidates(ColourOf[p]) # {}
    /\ LET c == Min(Candidates(ColourOf[p]))
           box == conveyors[c].box
       IN /\ conveyors' = WithBox(c, add_package(box, p, ColourOf[p]))
          /\ Send(<<AddPackage(box.id, p)>>,
                  <<AddPackageResponse(p, box.id, TRUE)>>)
    /\ UNCHANGED <<crashed, clearing>>

send_package_refused(p) ==
    /\ ~crashed
    /\ FreshPackage(p)
    /\ Candidates(ColourOf[p]) = {}
    /\ Send(<<>>, <<AddPackageResponse(p, NoBoxId, FALSE)>>)
    /\ UNCHANGED <<conveyors, crashed, clearing>>

(* The plant reports that a package arrived in a box.  The client is told, *)
(* whether or not the system expected it there.                            *)
arrival_received(p, b) ==
    /\ ~crashed
    /\ box_available(b)
    /\ LET c == find_box(b)
       IN conveyors' = WithBox(c, package_received(conveyors[c].box, p))
    /\ Send(<<>>, <<PackageReceivedAck(p, b)>>)
    /\ UNCHANGED <<crashed, clearing>>

get_destination_box_state(b) ==
    /\ ~crashed
    /\ box_available(b)
    /\ Send(<<>>, <<BoxStatusResponse(conveyors[find_box(b)].box)>>)
    /\ UNCHANGED <<conveyors, crashed, clearing>>

(* A stored package is taken out of the box. *)
package_removed(p, b) ==
    /\ ~crashed
    /\ box_available(b)
    /\ LET c == find_box(b)
       IN /\ has_package_stored(conveyors[c].box, p)
          /\ conveyors' = WithBox(c, remove_package(conveyors[c].box, p))
          /\ Send(<<RemovePackage(c, b, p)>>,
                  <<RemovePackageResponse(p, b, TRUE)>>)
    /\ UNCHANGED <<crashed, clearing>>

(* A package in transit, or in no such box, is not. *)
package_removal_refused(p, b) ==
    /\ ~crashed
    /\ box_available(b) => ~has_package_stored(conveyors[find_box(b)].box, p)
    /\ Send(<<>>, <<RemovePackageResponse(p, b, FALSE)>>)
    /\ UNCHANGED <<conveyors, crashed, clearing>>

(* A clear only asks the conveyor; the box changes with the answer. *)
clear_box_requested(b) ==
    /\ ~crashed
    /\ box_available(b)
    /\ Send(<<ClearBox(find_box(b), b)>>, <<>>)
    /\ clearing' = clearing \union {b}
    /\ UNCHANGED <<conveyors, crashed>>

clear_box_refused(b) ==
    /\ ~crashed
    /\ ~box_available(b)
    /\ Send(<<>>, <<ClearBoxResponse(b, {}, FALSE)>>)
    /\ UNCHANGED <<conveyors, crashed, clearing>>

(* The conveyor answers with the packages it removed.  The client is told  *)
(* before the box is looked up, and nothing checks that it is still there. *)
clear_box_completed(b, removed) ==
    /\ ~crashed
    /\ b \in clearing
    /\ find_box(b) \in DOMAIN conveyors
    /\ conveyors' =
          WithBox(find_box(b), clear_box(conveyors[find_box(b)].box, removed))
    /\ Send(<<>>, <<ClearBoxResponse(b, removed, TRUE)>>)
    /\ UNCHANGED <<crashed, clearing>>

(* Without the box and without the input conveyor, find_box throws. *)
clear_box_completed_crashes(b, removed) ==
    /\ ~crashed
    /\ b \in clearing
    /\ find_box(b) \notin DOMAIN conveyors
    /\ crashed' = TRUE
    /\ Send(<<>>, <<ClearBoxResponse(b, removed, TRUE)>>)
    /\ UNCHANGED <<conveyors, clearing>>

Next ==
    \/ \E config \in Configurations : set_state(config)
    \/ \E c \in ConveyorId, b \in BoxId, location \in BoxLocations :
          \/ add_destination_box(c, b, location)
          \/ add_destination_box_refused(c, b, location)
          \/ add_destination_box_crashes(c, b, location)
          \/ add_destination_box_out_of_range(c, b, location)
    \/ \E p \in PackageId : send_package(p) \/ send_package_refused(p)
    \/ \E p \in PackageId, b \in BoxId :
          \/ arrival_received(p, b)
          \/ package_removed(p, b)
          \/ package_removal_refused(p, b)
    \/ \E b \in BoxId :
          \/ get_destination_box_state(b)
          \/ clear_box_requested(b)
          \/ clear_box_refused(b)
    \/ \E b \in BoxId, removed \in SUBSET PackageId :
          \/ clear_box_completed(b, removed)
          \/ clear_box_completed_crashes(b, removed)

Spec == Init /\ [][Next]_vars

------------------------------------------------------------------------------
(* Properties *)

SystemOK ==
    \E S \in SUBSET ConveyorId : conveyors \in [S -> Conveyor]

(* The type invariant: the conveyors are records of links and a box, and   *)
(* what was told to the plant speaks of known conveyors only.              *)
TypeOK ==
    /\ SystemOK
    /\ crashed \in BOOLEAN
    /\ clearing \subseteq BoxId
    /\ told \in [ConveyorId ->
                    [connections : [Location -> Connection],
                     routes : [BoxId -> ConveyorId \union {NoRoute}]]]

(* No box is ever promised more packages than it holds, although           *)
(* can_accept_package and add_package check the size separately and an id  *)
(* may be sent again (DestinationBox.cpp:24-68).                           *)
BoxWithinCapacity ==
    \A c \in DOMAIN conveyors :
        Cardinality(conveyors[c].box.packages_stored)
            + Cardinality(conveyors[c].box.packages_transit)
                <= DESTINATION_BOX_SIZE

(* Boxes sort by colour: everything stored in a box or on its way to it    *)
(* has the colour of the box, also after packages were removed, cleared or *)
(* sent again (DestinationBox.cpp:51, 62, 89-101).                         *)
BoxSortsByColour ==
    \A c \in DOMAIN conveyors : \A p \in Contents(conveyors[c].box) :
        ColourOf[p] = conveyors[c].box.package_type

(* A package is in at most one box, and either stored there or on its way, *)
(* when the client only sends packages that are not in the system          *)
(* (ConveyorSystem.cpp:107-151).                                           *)
OneBoxPerPackage ==
    /\ \A c \in DOMAIN conveyors :
          conveyors[c].box.packages_stored
              \intersect conveyors[c].box.packages_transit = {}
    /\ \A c, d \in DOMAIN conveyors : c # d =>
          Contents(conveyors[c].box) \intersect Contents(conveyors[d].box) = {}

(* The links the plant was told of, of a configured conveyor to another. *)
LinksTold(c, d) ==
    {told[c].connections[l].type :
        l \in {m \in Location : told[c].connections[m].to = d}}

(* Two conveyors that are linked have been told so on both sides, and one  *)
(* of them that it is the master, the other that it is the slave: also     *)
(* after the configuration was replaced and boxes were added               *)
(* (ConveyorSystem.cpp:23-48, 57-75).  Configurations here are symmetric.  *)
MasterSlavePaired ==
    \A c, d \in DOMAIN conveyors : c # d =>
        LET here == LinksTold(c, d)
            there == LinksTold(d, c)
        IN \/ here = {} /\ there = {}
           \/ {here, there} = {{"MASTER"}, {"SLAVE"}}

(* What the messages so far told the conveyors is what the system          *)
(* believes: the links and boxes of the configured ones, and nothing for   *)
(* the others (ConveyorSystem.cpp:20, 38, 74, 201-207).                    *)
ToldMatchesConveyors ==
    \A c \in ConveyorId :
        told[c].connections =
            IF c \in DOMAIN conveyors THEN conveyors[c].connections
            ELSE NoConveyor.connections

(* Where a package for box b gets in n hops, by what the conveyors know.   *)
Hop(knows, c, b) == IF c = NoRoute THEN NoRoute ELSE knows[c].routes[b]

ReachedAfter(knows, b, n) ==
    LET at[k \in Nat] ==
            IF k = 0 THEN INPUT_CONVEYOR_ID ELSE Hop(knows, at[k - 1], b)
    IN at[n]

(* A package that enters the plant finds its box: the routes the conveyors *)
(* were told lead from the input conveyor over existing links to the       *)
(* conveyor of the box, and stop there, for every box in the system.  So   *)
(* every ADD_PACKAGE follows the routes it needs (ConveyorSystem.cpp:      *)
(* 310-327).  The client does not give two boxes the same id.              *)
BoxesAreRoutable ==
    ~crashed => \A c \in DOMAIN conveyors : HasBox(c) =>
        LET b == conveyors[c].box.id
            n == Cardinality(ConveyorId)
        IN /\ ReachedAfter(told, b, n) = c
           /\ \A k \in 0 .. n - 1 :
                 LET here == ReachedAfter(told, b, k)
                     next == ReachedAfter(told, b, k + 1)
                 IN here # next => next \in Graph(conveyors)[here]

(* A package is refused only when each box is full or of another colour.   *)
(* A box emptied by a clear or by removals keeps its colour                *)
(* (ConveyorSystem.cpp:107-140, DestinationBox.cpp:24-40).                 *)
Refused(p) == web_out' = <<AddPackageResponse(p, NoBoxId, FALSE)>>

RefusesOnlyWhenFull ==
    [][\A p \in PackageId : Refused(p) =>
          \A c \in DOMAIN conveyors : HasBox(c) =>
              \/ conveyors[c].box.package_type \notin {"NONE", ColourOf[p]}
              \/ Occupancy(conveyors[c].box) >= DESTINATION_BOX_SIZE]_vars

(* The messages of the last step that tell the client a package left. *)
ToldClient(p) ==
    \E i \in DOMAIN web_out' :
        \/ /\ web_out'[i].id = "REMOVE_PACKAGE_RESPONSE"
           /\ web_out'[i].success
           /\ web_out'[i].package = p
        \/ /\ web_out'[i].id = "CLEAR_BOX_RESPONSE"
           /\ web_out'[i].success
           /\ p \in web_out'[i].packages

(* The boxes are gone because a new configuration replaced the old one. *)
Reconfigured == \A c \in DOMAIN conveyors' : ~is_initialized(conveyors'[c].box)

(* A package the system accepted stays in its books until the client is    *)
(* told that it was removed or cleared, or replaces the configuration      *)
(* (ConveyorSystem.cpp:142-199).                                           *)
NoPackageForgotten ==
    [][\A p \in Tracked \ Tracked' : ToldClient(p) \/ Reconfigured]_vars

(* The conveyor whose box a package is stored in or on its way to. *)
PlaceOf(p) ==
    [place  |-> IF p \in Tracked
                THEN CHOOSE c \in DOMAIN conveyors :
                        p \in Contents(conveyors[c].box)
                ELSE NoRoute,
     stored |-> \E c \in DOMAIN conveyors :
                    has_package_stored(conveyors[c].box, p)]

Tracking == INSTANCE PackageTracking WITH
    Place    <- ConveyorId,
    Outside  <- NoRoute,
    Capacity <- DESTINATION_BOX_SIZE,
    where    <- [p \in PackageId |-> PlaceOf(p)]

(* The system implements package tracking: whatever the client asks and    *)
(* the plant answers, a package goes from outside to one box of its colour *)
(* with room, from transit to stored, and out again, never from one box to *)
(* another (ConveyorSystem.cpp:107-207).                                   *)
TracksPackages == Tracking!Spec

(* The process survives every configuration.  create_routing_plan detects  *)
(* that no path was found, reports it and goes on (ConveyorSystem.cpp:     *)
(* 313-315).                                                               *)
NoCrash == ~crashed

(* Completing the clear of a box changes no other box.  find_box says of a *)
(* box that is gone that it is "Returning invalid box"                     *)
(* (ConveyorSystem.cpp:237).                                               *)
ClearTouchesOnlyItsBox ==
    [][\A b \in BoxId, removed \in SUBSET PackageId :
          web_out' = <<ClearBoxResponse(b, removed, TRUE)>> =>
              \A c \in DOMAIN conveyors :
                  conveyors[c].box.id # b => conveyors'[c] = conveyors[c]]_vars
===============================================================================
