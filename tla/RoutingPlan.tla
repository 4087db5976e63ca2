------------------------------ MODULE RoutingPlan ------------------------------
(***************************************************************************)
(* The search for a route from the input conveyor to a conveyor            *)
(* (ConveyorSystem.cpp, calculate_routing_plan).  A step takes one path    *)
(* from the queue, or looks at one connection of the conveyor the path     *)
(* leads to.  ConveyorSystem.tla takes the outcome to be any shortest      *)
(* path; here the search itself is modelled and shown to return one.       *)
(***************************************************************************)
EXTENDS ConveyorGraph, Integers, SequencesExt

CONSTANTS
    Layouts    \* functions from the configured conveyors to the sequence of
               \* what each of their locations is connected to

VALID_CONVEYOR_ID_MIN == 1

ASSUME LayoutsAssumption ==
    \A layout \in Layouts :
        /\ layout \in [DOMAIN layout -> Seq(Int)]
        /\ IsFiniteSet(DOMAIN layout)

VARIABLES
    links,              \* the connections of each conveyor
    target_conveyor,
    visited,
    node_queue,         \* paths, each stands for its last element
    current_path,       \* the path taken from the queue last
    location,           \* the next connection of its conveyor to look at
    outcome,            \* "none" while searching, "returned" or "thrown"
    result              \* the path returned

input == <<links, target_conveyor>>
vars == <<input, visited, node_queue, current_path, location, outcome, result>>

Init ==
    /\ links \in Layouts
    /\ target_conveyor \in DOMAIN links
    /\ visited = {}
    /\ node_queue = <<<<INPUT_CONVEYOR_ID>>>>
    /\ current_path = <<>>
    /\ location = 1
    /\ outcome = "none"
    /\ result = <<>>

Node(path) == path[Len(path)]

current == Node(current_path)

(* There are connections of the current conveyor left to look at. *)
Expanding ==
    current_path # <<>> /\ location \in DOMAIN links[current]

Return(path) == outcome' = "returned" /\ result' = path

------------------------------------------------------------------------------
(* Take a path from the queue *)

Pop ==
    /\ outcome = "none"
    /\ ~Expanding
    /\ node_queue # <<>>
    /\ node_queue' = Tail(node_queue)
    /\ UNCHANGED input

(* Mutant: a visited conveyor is skipped before its path is popped. *)
skip_visited_BeforePop ==
    /\ outcome = "none"
    /\ ~Expanding
    /\ node_queue # <<>>
    /\ Node(Head(node_queue)) \in visited
    /\ UNCHANGED vars

skip_visited ==
    /\ Pop
    /\ Node(Head(node_queue)) \in visited
    /\ UNCHANGED <<visited, current_path, location, outcome, result>>

Visit ==
    /\ Pop
    /\ Node(Head(node_queue)) \notin visited
    /\ visited' = visited \union {Node(Head(node_queue))}

(* The target is the input conveyor; any other target is returned when a   *)
(* connection to it is looked at.                                          *)
return_current ==
    /\ Visit
    /\ Node(Head(node_queue)) = target_conveyor
    /\ Return(Head(node_queue))
    /\ UNCHANGED <<current_path, location>>

(* conveyors.at() throws for a conveyor the configuration does not have. *)
visit_unknown ==
    /\ Visit
    /\ Node(Head(node_queue)) # target_conveyor
    /\ Node(Head(node_queue)) \notin DOMAIN links
    /\ outcome' = "thrown"
    /\ UNCHANGED <<current_path, location, result>>

(* Mutant: the locations are counted from 0. *)
visit_current_FromZero ==
    /\ Visit
    /\ Node(Head(node_queue)) # target_conveyor
    /\ Node(Head(node_queue)) \in DOMAIN links
    /\ current_path' = Head(node_queue)
    /\ location' = 0
    /\ UNCHANGED <<outcome, result>>

visit_current ==
    /\ Visit
    /\ Node(Head(node_queue)) # target_conveyor
    /\ Node(Head(node_queue)) \in DOMAIN links
    /\ current_path' = Head(node_queue)
    /\ location' = 1
    /\ UNCHANGED <<outcome, result>>

return_empty ==
    /\ outcome = "none"
    /\ ~Expanding
    /\ node_queue = <<>>
    /\ Return(<<>>)
    /\ UNCHANGED <<input, visited, node_queue, current_path, location>>

------------------------------------------------------------------------------
(* Look at a connection of the current conveyor *)

conn_id == links[current][location]

(* Mutant: the connections to boxes and to nothing are followed too. *)
Followed_AnyId == conn_id \notin visited

Followed == conn_id >= VALID_CONVEYOR_ID_MIN /\ conn_id \notin visited

NextConnection ==
    /\ outcome = "none"
    /\ Expanding
    /\ location' = location + 1
    /\ UNCHANGED <<input, current_path>>

skip_connection ==
    /\ NextConnection
    /\ ~Followed
    /\ UNCHANGED <<visited, node_queue, outcome, result>>

(* Mutant: the target is missing from the path. *)
return_connected_NoTarget ==
    /\ NextConnection
    /\ Followed
    /\ conn_id = target_conveyor
    /\ Return(current_path)
    /\ UNCHANGED <<visited, node_queue>>

return_connected ==
    /\ NextConnection
    /\ Followed
    /\ conn_id = target_conveyor
    /\ Return(Append(current_path, conn_id))
    /\ UNCHANGED <<visited, node_queue>>

(* Mutant: a conveyor counts as visited once it is in the queue. *)
enqueue_connection_Visits ==
    /\ NextConnection
    /\ Followed
    /\ conn_id # target_conveyor
    /\ node_queue' = Append(node_queue, Append(current_path, conn_id))
    /\ visited' = visited \union {conn_id}
    /\ UNCHANGED <<outcome, result>>

(* Mutant: a stack in place of the queue. *)
enqueue_connection_AtFront ==
    /\ NextConnection
    /\ Followed
    /\ conn_id # target_conveyor
    /\ node_queue' = <<Append(current_path, conn_id)>> \o node_queue
    /\ UNCHANGED <<visited, outcome, result>>

enqueue_connection ==
    /\ NextConnection
    /\ Followed
    /\ conn_id # target_conveyor
    /\ node_queue' = Append(node_queue, Append(current_path, conn_id))
    /\ UNCHANGED <<visited, outcome, result>>

Next ==
    \/ skip_visited
    \/ return_current
    \/ visit_unknown
    \/ visit_current
    \/ return_empty
    \/ skip_connection
    \/ return_connected
    \/ enqueue_connection

Spec == Init /\ [][Next]_vars

(* The search runs on one thread and waits for nothing. *)
LiveSpec == Spec /\ WF_vars(Next)

------------------------------------------------------------------------------
(* Properties *)

(* The conveyors a conveyor is connected to in a layout. *)
Neighbours(layout, c) ==
    {layout[c][i] : i \in {j \in DOMAIN layout[c] :
                              layout[c][j] >= VALID_CONVEYOR_ID_MIN}}

LinkedGraph ==
    [c \in DOMAIN links |-> Neighbours(links, c) \intersect DOMAIN links]

IsRoute(layout, path) ==
    /\ path # <<>>
    /\ path[1] = INPUT_CONVEYOR_ID
    /\ \A i \in 1 .. Len(path) - 1 :
          /\ path[i] \in DOMAIN layout
          /\ path[i + 1] \in Neighbours(layout, path[i])

(* The type invariant. *)
TypeOK ==
    /\ links \in [DOMAIN links -> Seq(Int)]
    /\ target_conveyor \in DOMAIN links
    /\ node_queue \in Seq(Seq(Int) \ {<<>>})
    /\ current_path \in Seq(Int)
    /\ current_path # <<>> => current \in DOMAIN links
    /\ location \in Nat \ {0}
    /\ outcome \in {"none", "returned", "thrown"}
    /\ result \in Seq(Int)

(* What the search returns can be driven: it starts at the input conveyor, *)
(* follows connections and ends at the target                              *)
(* (ConveyorSystem.cpp:276-298).                                           *)
ReturnsRoute ==
    outcome = "returned" /\ result # <<>> =>
        IsRoute(links, result) /\ Node(result) = target_conveyor

(* The search gives up only when there is no route: what it visited is     *)
(* closed under the connections, holds the input conveyor and not the      *)
(* target (ConveyorSystem.cpp:267-307).                                    *)
GivesUpOnlyWhenUnreachable ==
    outcome = "returned" /\ result = <<>> =>
        /\ INPUT_CONVEYOR_ID \in visited
        /\ target_conveyor \notin visited
        /\ \A c \in visited :
              c \in DOMAIN links /\ Neighbours(links, c) \subseteq visited

(* No route is shorter, although the search returns at the first           *)
(* connection to the target it sees (ConveyorSystem.cpp:295-298).          *)
ReturnsShortest ==
    outcome = "returned" /\ result # <<>> =>
        result \in ShortestPaths(LinkedGraph, target_conveyor)

(* The search throws only when the configuration lacks the input conveyor, *)
(* or one that a visited conveyor is connected to                          *)
(* (ConveyorSystem.cpp:283).                                               *)
ThrowsOnlyAtUnknown ==
    outcome = "thrown" =>
        \/ INPUT_CONVEYOR_ID \notin DOMAIN links
        \/ \E c \in visited \intersect DOMAIN links :
              ~(Neighbours(links, c) \subseteq DOMAIN links)

(* The search ends, although a conveyor may be in the queue more than once *)
(* (ConveyorSystem.cpp:267-305).                                           *)
SearchEnds == <>(outcome # "none")
===============================================================================
