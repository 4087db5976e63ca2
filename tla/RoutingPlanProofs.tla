--------------------------- MODULE RoutingPlanProofs ---------------------------
(***************************************************************************)
(* Theorems of RoutingPlan for every way to connect conveyors, any number  *)
(* of them: what the search returns is a route, it gives up only when      *)
(* there is none, and throws only at a conveyor that is not configured;    *)
(* and the route is a shortest one.                                        *)
(***************************************************************************)
EXTENDS RoutingPlan, SequenceTheorems, FiniteSetTheorems, WellFoundedInduction,
        TLAPS

Queued == {Node(node_queue[i]) : i \in DOMAIN node_queue}

(* A connection of the current conveyor that is still to be looked at. *)
Ahead(c, i) == current_path # <<>> /\ c = current /\ i >= location

(* Every path on its way is a route. *)
RoutesOnly ==
    /\ \A i \in DOMAIN node_queue : IsRoute(links, node_queue[i])
    /\ current_path # <<>> => IsRoute(links, current_path) /\ current \in visited

(* What is visited is configured and is not the target. *)
VisitedKnown == visited \subseteq DOMAIN links \ {target_conveyor}

(* The frontier: where a connection of a visited conveyor leads is visited *)
(* or in the queue, or the connection is still to be looked at.            *)
Frontier ==
    /\ INPUT_CONVEYOR_ID \in visited \union Queued
    /\ \A c \in visited : \A i \in DOMAIN links[c] :
          \/ links[c][i] < VALID_CONVEYOR_ID_MIN
          \/ links[c][i] \in visited \union Queued
          \/ Ahead(c, i)

(* What is in the queue came from a visited conveyor. *)
QueuedConnected ==
    \A n \in Queued \ {INPUT_CONVEYOR_ID} :
        \E c \in visited : n \in Neighbours(links, c)

Searching == RoutesOnly /\ VisitedKnown /\ Frontier /\ QueuedConnected

Ended == ReturnsRoute /\ GivesUpOnlyWhenUnreachable /\ ThrowsOnlyAtUnknown

SearchInv == TypeOK /\ (outcome = "none" => Searching) /\ Ended

------------------------------------------------------------------------------
(* Routes *)

(* A route goes on along a connection of its last conveyor. *)
LEMMA RouteGrows ==
    ASSUME NEW layout, NEW path \in Seq(Int), NEW d \in Int,
           IsRoute(layout, path), Node(path) \in DOMAIN layout,
           d \in Neighbours(layout, Node(path))
    PROVE  /\ Append(path, d) \in Seq(Int) \ {<<>>}
           /\ IsRoute(layout, Append(path, d))
           /\ Node(Append(path, d)) = d
<1> DEFINE longer == Append(path, d)
<1>1. /\ path # <<>> /\ path[1] = INPUT_CONVEYOR_ID
      /\ Len(path) \in Nat \ {0}
  BY EmptySeq DEF IsRoute
<1>2. /\ longer \in Seq(Int)
      /\ Len(longer) = Len(path) + 1
      /\ longer[Len(path) + 1] = d
      /\ \A i \in 1 .. Len(path) : longer[i] = path[i]
  BY <1>1
<1>3. longer # <<>> /\ longer[1] = INPUT_CONVEYOR_ID
  BY <1>1, <1>2
<1>4. ASSUME NEW i \in 1 .. Len(longer) - 1
      PROVE  longer[i] \in DOMAIN layout
             /\ longer[i + 1] \in Neighbours(layout, longer[i])
  <2>1. CASE i = Len(path)
    BY <1>1, <1>2, <2>1 DEF Node
  <2>2. CASE i < Len(path)
    <3>1. i \in 1 .. Len(path) - 1 /\ i + 1 \in 1 .. Len(path)
      BY <1>1, <1>2, <2>2
    <3> QED
      BY <1>2, <3>1 DEF IsRoute
  <2> QED
    BY <1>1, <1>2, <2>1, <2>2
<1> QED
  BY <1>2, <1>3, <1>4 DEF IsRoute, Node

LEMMA ConnectionTyped ==
    ASSUME TypeOK, Expanding
    PROVE  /\ current \in DOMAIN links
           /\ location \in DOMAIN links[current]
           /\ conn_id \in Int
BY DEF TypeOK, Expanding, conn_id

LEMMA NoneAhead ==
    ASSUME TypeOK, ~Expanding, NEW c \in DOMAIN links,
           NEW i \in DOMAIN links[c]
    PROVE  ~Ahead(c, i)
<1> SUFFICES ASSUME current_path # <<>>, c = current, i >= location
             PROVE  FALSE
  BY DEF Ahead
<1>1. /\ links[c] \in Seq(Int)
      /\ DOMAIN links[c] = 1 .. Len(links[c])
      /\ Len(links[c]) \in Nat
  BY DEF TypeOK
<1>2. location \in DOMAIN links[c]
  BY <1>1 DEF TypeOK
<1> QED
  BY <1>2 DEF Expanding

(* Taking a path from the queue. *)
LEMMA PopTyped ==
    ASSUME TypeOK, Pop
    PROVE  /\ Head(node_queue) \in Seq(Int) \ {<<>>}
           /\ node_queue' \in Seq(Seq(Int) \ {<<>>})
           /\ Len(node_queue) \in Nat \ {0}
           /\ DOMAIN node_queue = 1 .. Len(node_queue)
           /\ 1 \in DOMAIN node_queue
           /\ Head(node_queue) = node_queue[1]
           /\ DOMAIN node_queue' = 1 .. Len(node_queue) - 1
           /\ \A i \in DOMAIN node_queue' :
                 /\ i + 1 \in DOMAIN node_queue
                 /\ node_queue'[i] = node_queue[i + 1]
           /\ links' = links
           /\ target_conveyor' = target_conveyor
<1>1. /\ node_queue \in Seq(Seq(Int) \ {<<>>})
      /\ node_queue # <<>>
      /\ node_queue' = Tail(node_queue)
      /\ links' = links
      /\ target_conveyor' = target_conveyor
  BY DEF TypeOK, Pop, input
<1> QED
  BY <1>1

(* What was queued still is, or was taken. *)
LEMMA PopQueued ==
    ASSUME TypeOK, Pop
    PROVE  /\ Queued \subseteq Queued' \union {Node(Head(node_queue))}
           /\ Queued' \subseteq Queued
           /\ Node(Head(node_queue)) \in Queued
<1>1. Node(Head(node_queue)) \in Queued
  BY PopTyped DEF Queued
<1>2. Queued' \subseteq Queued
  BY PopTyped, ZenonT(30) DEF Queued, Node
<1>3. ASSUME NEW i \in DOMAIN node_queue
      PROVE  Node(node_queue[i]) \in Queued' \union {Node(Head(node_queue))}
  <2>1. CASE i = 1
    BY <2>1, PopTyped
  <2>2. CASE i # 1
    <3>1. /\ Len(node_queue) \in Nat \ {0}
          /\ i \in 1 .. Len(node_queue)
          /\ DOMAIN node_queue' = 1 .. Len(node_queue) - 1
      BY PopTyped
    <3>2. i - 1 \in DOMAIN node_queue' /\ (i - 1) + 1 = i
      BY <2>2, <3>1
    <3>3. node_queue'[i - 1] = node_queue[i]
      BY <3>2, PopTyped
    <3> QED
      BY <3>2, <3>3 DEF Queued, Node
  <2> QED
    BY <2>1, <2>2
<1> QED
  BY <1>1, <1>2, <1>3 DEF Queued

------------------------------------------------------------------------------
(* The steps that take a path from the queue *)

LEMMA SkipVisitedInv ==
    ASSUME SearchInv, skip_visited
    PROVE  SearchInv'
<1>1. TypeOK /\ Searching /\ outcome = "none"
  BY DEF SearchInv, skip_visited, Pop
<1>2. /\ Pop
      /\ Node(Head(node_queue)) \in visited
      /\ UNCHANGED <<links, target_conveyor, visited, current_path, location,
                     outcome, result>>
  BY DEF skip_visited, Pop, input
<1>3. TypeOK'
  BY <1>1, <1>2, PopTyped DEF TypeOK, Node, current
<1>4. RoutesOnly'
  BY <1>1, <1>2, PopTyped
     DEF Searching, RoutesOnly, current
<1>5. VisitedKnown'
  BY <1>1, <1>2 DEF Searching, VisitedKnown
<1>6. Frontier'
  <2>1. visited \union Queued \subseteq visited' \union Queued'
    BY <1>1, <1>2, PopQueued
  <2>2. \A c, i : Ahead(c, i) => Ahead(c, i)'
    BY <1>2 DEF Ahead, current
  <2> QED
    BY <1>1, <1>2, <2>1, <2>2 DEF Searching, Frontier
<1>7. QueuedConnected'
  BY <1>1, <1>2, PopQueued DEF Searching, QueuedConnected
<1>8. Ended'
  BY <1>1, <1>2
     DEF Ended, ReturnsRoute, GivesUpOnlyWhenUnreachable, ThrowsOnlyAtUnknown
<1> QED
  BY <1>3, <1>4, <1>5, <1>6, <1>7, <1>8 DEF SearchInv, Searching

LEMMA ReturnCurrentInv ==
    ASSUME SearchInv, return_current
    PROVE  SearchInv'
<1>1. TypeOK /\ Searching
  BY DEF SearchInv, return_current, Visit, Pop
<1>2. /\ Pop
      /\ Node(Head(node_queue)) = target_conveyor
      /\ outcome' = "returned"
      /\ result' = Head(node_queue)
      /\ UNCHANGED <<links, target_conveyor, current_path, location>>
  BY DEF return_current, Visit, Pop, Return, input
<1>3. result' \in Seq(Int) \ {<<>>}
  BY <1>1, <1>2, PopTyped
<1>4. TypeOK'
  BY <1>1, <1>2, <1>3, PopTyped DEF TypeOK, Node, current
<1>5. IsRoute(links', result') /\ Node(result') = target_conveyor'
  BY <1>1, <1>2, PopTyped DEF Searching, RoutesOnly
<1> QED
  BY <1>2, <1>3, <1>4, <1>5
     DEF SearchInv, Ended, ReturnsRoute, GivesUpOnlyWhenUnreachable,
         ThrowsOnlyAtUnknown

LEMMA VisitUnknownInv ==
    ASSUME SearchInv, visit_unknown
    PROVE  SearchInv'
<1> DEFINE n == Node(Head(node_queue))
<1>1. TypeOK /\ Searching
  BY DEF SearchInv, visit_unknown, Visit, Pop
<1>2. /\ Pop
      /\ n \notin DOMAIN links
      /\ outcome' = "thrown"
      /\ visited' = visited \union {n}
      /\ UNCHANGED <<links, target_conveyor, current_path, location, result>>
  BY DEF visit_unknown, Visit, Pop, input
<1>3. TypeOK'
  BY <1>1, <1>2, PopTyped DEF TypeOK, Node, current
<1>4. n \in Queued
  BY <1>1, <1>2, PopQueued
<1>5. ThrowsOnlyAtUnknown'
  <2>1. CASE n = INPUT_CONVEYOR_ID
    BY <1>2, <2>1 DEF ThrowsOnlyAtUnknown
  <2>2. CASE n # INPUT_CONVEYOR_ID
    <3>1. PICK c \in visited : n \in Neighbours(links, c)
      BY <1>1, <1>4, <2>2 DEF Searching, QueuedConnected
    <3>2. c \in visited' \intersect DOMAIN links'
      BY <1>1, <1>2 DEF Searching, VisitedKnown
    <3> QED
      BY <1>2, <3>1, <3>2 DEF ThrowsOnlyAtUnknown
  <2> QED
    BY <2>1, <2>2
<1> QED
  BY <1>2, <1>3, <1>5
     DEF SearchInv, Ended, ReturnsRoute, GivesUpOnlyWhenUnreachable

LEMMA VisitCurrentInv ==
    ASSUME SearchInv, visit_current
    PROVE  SearchInv'
<1> DEFINE n == Node(Head(node_queue))
<1>1. TypeOK /\ Searching /\ outcome = "none"
  BY DEF SearchInv, visit_current, Visit, Pop
<1>2. /\ Pop
      /\ ~Expanding
      /\ n # target_conveyor
      /\ n \in DOMAIN links
      /\ visited' = visited \union {n}
      /\ current_path' = Head(node_queue)
      /\ location' = 1
      /\ UNCHANGED <<links, target_conveyor, outcome, result>>
  BY DEF visit_current, Visit, Pop, input
<1>3. current' = n
  BY <1>2 DEF current, Node
<1>4. TypeOK'
  BY <1>1, <1>2, <1>3, PopTyped DEF TypeOK
<1>5. RoutesOnly'
  BY <1>1, <1>2, <1>3, PopTyped DEF Searching, RoutesOnly
<1>6. VisitedKnown'
  BY <1>1, <1>2 DEF Searching, VisitedKnown
<1>7. Frontier'
  <2>1. visited \union Queued \subseteq visited' \union Queued'
    BY <1>1, <1>2, PopQueued
  <2>2. ASSUME NEW c, c = n, NEW i \in DOMAIN links[c]
        PROVE  Ahead(c, i)'
    <3>1. links[c] \in Seq(Int)
      BY <1>1, <1>2, <2>2 DEF TypeOK
    <3>2. i >= location'
      BY <1>2, <3>1
    <3>3. current_path' # <<>>
      BY <1>1, <1>2, PopTyped
    <3> QED
      BY <1>3, <2>2, <3>2, <3>3 DEF Ahead
  <2>3. ASSUME NEW c \in visited, NEW i \in DOMAIN links[c]
        PROVE  ~Ahead(c, i)
    BY <1>1, <1>2, NoneAhead DEF Searching, VisitedKnown
  <2>4. INPUT_CONVEYOR_ID \in visited' \union Queued'
    BY <1>1, <2>1 DEF Searching, Frontier
  <2>5. ASSUME NEW c \in visited', NEW i \in DOMAIN links'[c]
        PROVE  \/ links'[c][i] < VALID_CONVEYOR_ID_MIN
               \/ links'[c][i] \in visited' \union Queued'
               \/ Ahead(c, i)'
    <3>1. CASE c = n
      BY <1>2, <2>2, <3>1
    <3>2. CASE c # n
      BY <1>1, <1>2, <2>1, <2>3, <3>2 DEF Searching, Frontier
    <3> QED
      BY <3>1, <3>2
  <2> QED
    BY <2>4, <2>5 DEF Frontier
<1>8. QueuedConnected'
  BY <1>1, <1>2, PopQueued DEF Searching, QueuedConnected
<1>9. Ended'
  BY <1>1, <1>2
     DEF Ended, ReturnsRoute, GivesUpOnlyWhenUnreachable, ThrowsOnlyAtUnknown
<1> QED
  BY <1>4, <1>5, <1>6, <1>7, <1>8, <1>9 DEF SearchInv, Searching

LEMMA ReturnEmptyInv ==
    ASSUME SearchInv, return_empty
    PROVE  SearchInv'
<1>1. TypeOK /\ Searching
  BY DEF SearchInv, return_empty
<1>2. /\ ~Expanding
      /\ node_queue = <<>>
      /\ outcome' = "returned"
      /\ result' = <<>>
      /\ UNCHANGED <<links, target_conveyor, visited, node_queue, current_path,
                     location>>
  BY DEF return_empty, Return, input
<1>3. TypeOK'
  BY <1>1, <1>2, EmptySeq DEF TypeOK, current, Node
<1>4. Queued = {}
  BY <1>2, EmptySeq DEF Queued
<1>5. ASSUME NEW c \in visited
      PROVE  c \in DOMAIN links /\ Neighbours(links, c) \subseteq visited
  <2>1. c \in DOMAIN links
    BY <1>1 DEF Searching, VisitedKnown
  <2>2. \A i \in DOMAIN links[c] : ~Ahead(c, i)
    BY <1>1, <1>2, <2>1, NoneAhead
  <2>3. \A i \in DOMAIN links[c] :
          links[c][i] < VALID_CONVEYOR_ID_MIN \/ links[c][i] \in visited
    BY <1>1, <1>4, <2>2 DEF Searching, Frontier
  <2>4. \A i \in DOMAIN links[c] : links[c][i] \in Int
    BY <1>1, <2>1 DEF TypeOK
  <2> QED
    BY <2>1, <2>3, <2>4 DEF Neighbours, VALID_CONVEYOR_ID_MIN
<1>6. INPUT_CONVEYOR_ID \in visited /\ target_conveyor \notin visited
  BY <1>1, <1>4 DEF Searching, Frontier, VisitedKnown
<1>7. GivesUpOnlyWhenUnreachable'
  BY <1>2, <1>5, <1>6 DEF GivesUpOnlyWhenUnreachable
<1> QED
  BY <1>2, <1>3, <1>7
     DEF SearchInv, Ended, ReturnsRoute, ThrowsOnlyAtUnknown

------------------------------------------------------------------------------
(* The steps that look at a connection *)

(* What all of them have in common. *)
LEMMA NextConnectionTyped ==
    ASSUME TypeOK, NextConnection
    PROVE  /\ Expanding
           /\ outcome = "none"
           /\ current_path # <<>>
           /\ current \in DOMAIN links
           /\ location \in DOMAIN links[current]
           /\ conn_id \in Int
           /\ conn_id = links[current][location]
           /\ UNCHANGED <<links, target_conveyor, current_path>>
           /\ current' = current
           /\ location' \in Nat \ {0}
           /\ \A c : \A i \in DOMAIN links[c] :
                 c \in DOMAIN links /\ Ahead(c, i) =>
                    Ahead(c, i)' \/ (c = current /\ i = location)
<1>1. /\ Expanding
      /\ outcome = "none"
      /\ location' = location + 1
      /\ UNCHANGED <<links, target_conveyor, current_path>>
  BY DEF NextConnection, input
<1>2. current_path # <<>> /\ current' = current
  BY <1>1 DEF Expanding, current, Node
<1>3. ASSUME NEW c \in DOMAIN links, NEW i \in DOMAIN links[c], Ahead(c, i)
      PROVE  Ahead(c, i)' \/ (c = current /\ i = location)
  <2>1. i \in Nat /\ location \in Nat
    BY DEF TypeOK
  <2> QED
    BY <1>1, <1>2, <1>3, <2>1 DEF Ahead
<1> QED
  BY <1>1, <1>2, <1>3, ConnectionTyped, SMTT(20) DEF TypeOK, conn_id

LEMMA SkipConnectionInv ==
    ASSUME SearchInv, skip_connection
    PROVE  SearchInv'
<1>1. /\ NextConnection
      /\ ~Followed
      /\ UNCHANGED <<visited, node_queue, outcome, result>>
  BY DEF skip_connection
<1>2. TypeOK /\ Searching /\ outcome = "none"
  BY <1>1 DEF SearchInv, NextConnection
<1>3. TypeOK'
  BY <1>1, <1>2, NextConnectionTyped DEF TypeOK
<1>4. RoutesOnly'
  BY <1>1, <1>2, NextConnectionTyped DEF Searching, RoutesOnly
<1>5. VisitedKnown'
  BY <1>1, <1>2, NextConnectionTyped DEF Searching, VisitedKnown
<1>6. Queued' = Queued
  BY <1>1 DEF Queued
<1>7. conn_id < VALID_CONVEYOR_ID_MIN \/ conn_id \in visited
  BY <1>1, <1>2, NextConnectionTyped DEF Followed, VALID_CONVEYOR_ID_MIN
<1>8. Frontier'
  BY <1>1, <1>2, <1>6, <1>7, NextConnectionTyped
     DEF Searching, Frontier, VisitedKnown
<1>9. QueuedConnected'
  BY <1>1, <1>2, <1>6, NextConnectionTyped DEF Searching, QueuedConnected
<1>10. Ended'
  BY <1>1, <1>2
     DEF Ended, ReturnsRoute, GivesUpOnlyWhenUnreachable, ThrowsOnlyAtUnknown
<1> QED
  BY <1>3, <1>4, <1>5, <1>8, <1>9, <1>10 DEF SearchInv, Searching

(* The path to a connection that is followed. *)
LEMMA FollowedRoute ==
    ASSUME TypeOK, Searching, NextConnection, Followed
    PROVE  /\ conn_id \in Neighbours(links, current)
           /\ Append(current_path, conn_id) \in Seq(Int) \ {<<>>}
           /\ IsRoute(links, Append(current_path, conn_id))
           /\ Node(Append(current_path, conn_id)) = conn_id
<1>1. conn_id \in Neighbours(links, current)
  BY NextConnectionTyped DEF Followed, Neighbours
<1>2. IsRoute(links, current_path) /\ current_path \in Seq(Int)
  BY NextConnectionTyped DEF Searching, RoutesOnly, TypeOK
<1> QED
  BY <1>1, <1>2, RouteGrows, NextConnectionTyped DEF current

LEMMA ReturnConnectedInv ==
    ASSUME SearchInv, return_connected
    PROVE  SearchInv'
<1>1. /\ NextConnection
      /\ Followed
      /\ conn_id = target_conveyor
      /\ outcome' = "returned"
      /\ result' = Append(current_path, conn_id)
      /\ UNCHANGED <<visited, node_queue>>
  BY DEF return_connected, Return
<1>2. TypeOK /\ Searching
  BY <1>1 DEF SearchInv, NextConnection
<1>3. /\ result' \in Seq(Int) \ {<<>>}
      /\ IsRoute(links, result')
      /\ Node(result') = target_conveyor
  BY <1>1, <1>2, FollowedRoute
<1>4. TypeOK'
  BY <1>1, <1>2, <1>3, NextConnectionTyped DEF TypeOK
<1>5. links' = links /\ target_conveyor' = target_conveyor
  BY <1>1, <1>2, NextConnectionTyped
<1> QED
  BY <1>1, <1>3, <1>4, <1>5
     DEF SearchInv, Ended, ReturnsRoute, GivesUpOnlyWhenUnreachable,
         ThrowsOnlyAtUnknown

LEMMA EnqueueConnectionInv ==
    ASSUME SearchInv, enqueue_connection
    PROVE  SearchInv'
<1> DEFINE path == Append(current_path, conn_id)
<1>1. /\ NextConnection
      /\ Followed
      /\ node_queue' = Append(node_queue, path)
      /\ UNCHANGED <<visited, outcome, result>>
  BY DEF enqueue_connection
<1>2. TypeOK /\ Searching /\ outcome = "none"
  BY <1>1 DEF SearchInv, NextConnection
<1>3. /\ conn_id \in Neighbours(links, current)
      /\ path \in Seq(Int) \ {<<>>}
      /\ IsRoute(links, path)
      /\ Node(path) = conn_id
  BY <1>1, <1>2, FollowedRoute
<1>4. /\ node_queue' \in Seq(Seq(Int) \ {<<>>})
      /\ Len(node_queue) \in Nat
      /\ DOMAIN node_queue = 1 .. Len(node_queue)
      /\ DOMAIN node_queue' = 1 .. Len(node_queue) + 1
      /\ \A i \in DOMAIN node_queue : node_queue'[i] = node_queue[i]
      /\ node_queue'[Len(node_queue) + 1] = path
  <2>1. node_queue \in Seq(Seq(Int) \ {<<>>})
    BY <1>2 DEF TypeOK
  <2>2. path \in Seq(Int) \ {<<>>}
    BY <1>3
  <2>3. /\ Append(node_queue, path) \in Seq(Seq(Int) \ {<<>>})
        /\ Len(node_queue) \in Nat
        /\ DOMAIN node_queue = 1 .. Len(node_queue)
        /\ DOMAIN Append(node_queue, path) = 1 .. Len(node_queue) + 1
        /\ \A i \in DOMAIN node_queue :
              Append(node_queue, path)[i] = node_queue[i]
        /\ Append(node_queue, path)[Len(node_queue) + 1] = path
    <3> DEFINE T == Seq(Int) \ {<<>>}
    <3>1. node_queue \in Seq(T) /\ path \in T
      BY <2>1, <2>2
    <3> HIDE DEF path, T
    <3>2. /\ Append(node_queue, path) \in Seq(T)
          /\ Len(node_queue) \in Nat
          /\ DOMAIN node_queue = 1 .. Len(node_queue)
          /\ DOMAIN Append(node_queue, path) = 1 .. Len(node_queue) + 1
          /\ \A i \in DOMAIN node_queue :
                Append(node_queue, path)[i] = node_queue[i]
          /\ Append(node_queue, path)[Len(node_queue) + 1] = path
      BY <3>1
    <3> QED
      BY <3>2 DEF T
  <2> QED
    BY <1>1, <2>3
<1>5. TypeOK'
  BY <1>1, <1>2, <1>4, NextConnectionTyped DEF TypeOK
<1>6. \A i \in DOMAIN node_queue' :
        i \in DOMAIN node_queue \/ i = Len(node_queue) + 1
  BY <1>4
<1>7. RoutesOnly'
  BY <1>1, <1>2, <1>3, <1>4, <1>6, NextConnectionTyped
     DEF Searching, RoutesOnly
<1>8. VisitedKnown'
  BY <1>1, <1>2, NextConnectionTyped DEF Searching, VisitedKnown
<1>9. Queued' = Queued \union {conn_id}
  <2>1. Queued' = {Node(node_queue'[i]) : i \in DOMAIN node_queue'}
    BY DEF Queued
  <2>2. DOMAIN node_queue' = DOMAIN node_queue \union {Len(node_queue) + 1}
    BY <1>4
  <2>3. \A i \in DOMAIN node_queue :
          Node(node_queue'[i]) = Node(node_queue[i])
    BY <1>4
  <2>4. Node(node_queue'[Len(node_queue) + 1]) = conn_id
    BY <1>3, <1>4
  <2> QED
    BY <2>1, <2>2, <2>3, <2>4 DEF Queued
<1>10. Frontier'
  BY <1>1, <1>2, <1>9, NextConnectionTyped
     DEF Searching, Frontier, VisitedKnown
<1>11. QueuedConnected'
  BY <1>1, <1>2, <1>3, <1>9, NextConnectionTyped
     DEF Searching, QueuedConnected, RoutesOnly
<1>12. Ended'
  BY <1>1, <1>2
     DEF Ended, ReturnsRoute, GivesUpOnlyWhenUnreachable, ThrowsOnlyAtUnknown
<1> QED
  BY <1>5, <1>7, <1>8, <1>10, <1>11, <1>12 DEF SearchInv, Searching

------------------------------------------------------------------------------
(* The theorems *)

LEMMA InitInv ==
    ASSUME Init
    PROVE  SearchInv
<1>1. /\ links \in [DOMAIN links -> Seq(Int)]
      /\ target_conveyor \in DOMAIN links
      /\ visited = {}
      /\ node_queue = <<<<INPUT_CONVEYOR_ID>>>>
      /\ current_path = <<>>
      /\ location = 1
      /\ outcome = "none"
      /\ result = <<>>
  BY LayoutsAssumption DEF Init
<1>2. /\ <<INPUT_CONVEYOR_ID>> \in Seq(Int) \ {<<>>}
      /\ IsRoute(links, <<INPUT_CONVEYOR_ID>>)
      /\ Node(<<INPUT_CONVEYOR_ID>>) = INPUT_CONVEYOR_ID
  BY DEF INPUT_CONVEYOR_ID, IsRoute, Node
<1>3. /\ node_queue \in Seq(Seq(Int) \ {<<>>})
      /\ DOMAIN node_queue = {1}
      /\ node_queue[1] = <<INPUT_CONVEYOR_ID>>
  BY <1>1, <1>2
<1>4. TypeOK
  BY <1>1, <1>3, EmptySeq DEF TypeOK
<1>5. Queued = {INPUT_CONVEYOR_ID}
  <2>1. Node(node_queue[1]) = INPUT_CONVEYOR_ID
    BY <1>2, <1>3
  <2>2. Queued = {Node(node_queue[1])}
    BY <1>3, ZenonT(30) DEF Queued
  <2> QED
    BY <2>1, <2>2
<1>6. Searching
  BY <1>1, <1>2, <1>3, <1>5
     DEF Searching, RoutesOnly, VisitedKnown, Frontier, QueuedConnected
<1>7. Ended
  BY <1>1
     DEF Ended, ReturnsRoute, GivesUpOnlyWhenUnreachable, ThrowsOnlyAtUnknown
<1> QED
  BY <1>4, <1>6, <1>7 DEF SearchInv

LEMMA NextInv ==
    ASSUME SearchInv, [Next]_vars
    PROVE  SearchInv'
<1>1. CASE skip_visited
  BY <1>1, SkipVisitedInv
<1>2. CASE return_current
  BY <1>2, ReturnCurrentInv
<1>3. CASE visit_unknown
  BY <1>3, VisitUnknownInv
<1>4. CASE visit_current
  BY <1>4, VisitCurrentInv
<1>5. CASE return_empty
  BY <1>5, ReturnEmptyInv
<1>6. CASE skip_connection
  BY <1>6, SkipConnectionInv
<1>7. CASE return_connected
  BY <1>7, ReturnConnectedInv
<1>8. CASE enqueue_connection
  BY <1>8, EnqueueConnectionInv
<1>9. CASE UNCHANGED vars
  <2>1. UNCHANGED <<links, target_conveyor, visited, node_queue, current_path,
                    location, outcome, result>>
    BY <1>9 DEF vars, input
  <2>2. TypeOK' /\ Ended'
    BY <2>1 DEF SearchInv, TypeOK, Ended, ReturnsRoute, current,
                GivesUpOnlyWhenUnreachable, ThrowsOnlyAtUnknown
  <2>3. Searching => Searching'
    BY <2>1 DEF Searching, RoutesOnly, VisitedKnown, Frontier,
                QueuedConnected, Queued, Ahead, current
  <2> QED
    BY <2>1, <2>2, <2>3 DEF SearchInv
<1> QED
  BY <1>1, <1>2, <1>3, <1>4, <1>5, <1>6, <1>7, <1>8, <1>9 DEF Next

(* The invariant of the search, for every layout. *)
THEOREM SearchInvHolds == Spec => []SearchInv
<1>1. Init => SearchInv
  BY InitInv
<1>2. SearchInv /\ [Next]_vars => SearchInv'
  BY NextInv
<1> QED
  BY <1>1, <1>2, PTL DEF Spec

(* A path that is returned leads from the input conveyor to the target     *)
(* along connections (ConveyorSystem.cpp:276-298).                         *)
THEOREM ReturnsRouteHolds == Spec => []ReturnsRoute
<1>1. SearchInv => ReturnsRoute
  BY DEF SearchInv, Ended
<1> QED
  BY <1>1, SearchInvHolds, PTL

(* An empty path is returned only when no route exists: the set of visited *)
(* conveyors separates the input conveyor from the target                  *)
(* (ConveyorSystem.cpp:267-307).                                           *)
THEOREM GivesUpOnlyWhenUnreachableHolds ==
    Spec => []GivesUpOnlyWhenUnreachable
<1>1. SearchInv => GivesUpOnlyWhenUnreachable
  BY DEF SearchInv, Ended
<1> QED
  BY <1>1, SearchInvHolds, PTL

(* The search throws only at a conveyor that is not configured             *)
(* (ConveyorSystem.cpp:283).                                               *)
THEOREM ThrowsOnlyAtUnknownHolds == Spec => []ThrowsOnlyAtUnknown
<1>1. SearchInv => ThrowsOnlyAtUnknown
  BY DEF SearchInv, Ended
<1> QED
  BY <1>1, SearchInvHolds, PTL

(* The type invariant holds. *)
THEOREM TypeOKHolds == Spec => []TypeOK
<1>1. SearchInv => TypeOK
  BY DEF SearchInv
<1> QED
  BY <1>1, SearchInvHolds, PTL

------------------------------------------------------------------------------
(* The shortest route *)

VisitedRoute(v, c) ==
    /\ IsRoute(links, v)
    /\ Node(v) = c
    /\ \A i \in DOMAIN v : v[i] \in visited

QueuedWithin(c, n) ==
    \E i \in DOMAIN node_queue :
        Node(node_queue[i]) = c /\ Len(node_queue[i]) <= n

(* The conveyor c is the current one, and its connection to d is ahead.    *)
LinkAhead(c, d) ==
    \E i \in DOMAIN links[c] : links[c][i] = d /\ Ahead(c, i)

(* The queue is in the order of the lengths, which differ by one at most.  *)
Levels ==
    /\ \A i \in DOMAIN node_queue :
          /\ Len(current_path) <= Len(node_queue[i])
          /\ Len(node_queue[i]) <= Len(current_path) + 1
    /\ \A i, j \in DOMAIN node_queue :
          i < j => Len(node_queue[i]) <= Len(node_queue[j])

(* What is visited is no farther away than the current conveyor. *)
Near ==
    \A c \in visited : \E v \in Seq(Int) :
        VisitedRoute(v, c) /\ Len(v) <= Len(current_path)

(* Where a route over visited conveyors leads in one more step is visited, *)
(* or queued with a path that is not longer, or still to be looked at.     *)
FrontierByLevel ==
    /\ INPUT_CONVEYOR_ID \in visited \/ QueuedWithin(INPUT_CONVEYOR_ID, 1)
    /\ \A v \in Seq(Int) : \A c \in visited : VisitedRoute(v, c) =>
          \A d \in Neighbours(links, c) :
             \/ d \in visited
             \/ QueuedWithin(d, Len(v) + 1)
             \/ LinkAhead(c, d) /\ Len(current_path) <= Len(v)

(* The first n conveyors of a path are visited, and differ. *)
SimpleTo(path, n) ==
    \A j \in 1 .. n :
        path[j] \in visited /\ \A k \in 1 .. n : path[j] = path[k] => j = k

SimplePaths ==
    /\ SimpleTo(current_path, Len(current_path))
    /\ \A i \in DOMAIN node_queue :
          SimpleTo(node_queue[i], Len(node_queue[i]) - 1)

(* The target is returned and not queued, unless the search starts there.  *)
TargetNotQueued ==
    \A i \in DOMAIN node_queue :
        /\ Node(node_queue[i]) = target_conveyor =>
              target_conveyor = INPUT_CONVEYOR_ID
        /\ Node(node_queue[i]) = INPUT_CONVEYOR_ID => Len(node_queue[i]) = 1

BreadthFirst ==
    Levels /\ Near /\ FrontierByLevel /\ SimplePaths /\ TargetNotQueued

ShortestInv ==
    /\ IsFiniteSet(DOMAIN links)
    /\ outcome = "none" => BreadthFirst
    /\ ReturnsShortest

LEMMA LeastIndex ==
    ASSUME NEW S \in SUBSET Nat, S # {}
    PROVE  \E m \in S : \A k \in S : m <= k
<1> DEFINE less == {pair \in Nat \X Nat : pair[1] < pair[2]}
<1>1. IsWellFoundedOn(less, Nat)
  BY NatLessThanWellFounded, Zenon DEF OpToRel
<1>2. PICK m \in S : \A c \in S : <<c, m>> \notin less
  BY <1>1, WFMin, Zenon
<1>3. ASSUME NEW c \in S
      PROVE  m =< c
  <2>1. <<c, m>> \in Nat \X Nat /\ <<c, m>> \notin less
    BY <1>2
  <2>2. ~ (c < m)
    BY <2>1
  <2>3. c \in Nat /\ m \in Nat
    OBVIOUS
  <2> HIDE DEF less
  <2> QED
    BY <2>2, <2>3
<1> HIDE DEF less
<1> QED
  BY <1>3

LEMMA NeighboursAreIds ==
    ASSUME links \in [DOMAIN links -> Seq(Int)], NEW c \in DOMAIN links,
           NEW d \in Neighbours(links, c)
    PROVE  /\ d \in Int
           /\ \E i \in DOMAIN links[c] : links[c][i] = d
           /\ d >= VALID_CONVEYOR_ID_MIN
<1>1. links[c] \in Seq(Int)
  OBVIOUS
<1> QED
  BY <1>1 DEF Neighbours

(* A route with no conveyor twice that no other route beats is a shortest  *)
(* path of the graph.                                                      *)
LEMMA IsShortest ==
    ASSUME links \in [DOMAIN links -> Seq(Int)],
           NEW path \in Seq(Int), IsRoute(links, path),
           IsFiniteSet(DOMAIN links), target_conveyor \in DOMAIN links,
           Node(path) = target_conveyor,
           \A j, k \in 1 .. Len(path) : path[j] = path[k] => j = k,
           \A w \in Seq(Int) :
              IsRoute(links, w) /\ Node(w) = target_conveyor =>
                 Len(path) <= Len(w)
    PROVE  path \in ShortestPaths(LinkedGraph, target_conveyor)
<1> DEFINE D == DOMAIN links
           N == Len(path)
<1>1. N \in Nat \ {0} /\ path \in [1 .. N -> Int]
  BY EmptySeq DEF IsRoute
<1>2. DOMAIN LinkedGraph = D
  BY DEF LinkedGraph
<1>3. ASSUME NEW k \in 1 .. N
      PROVE  path[k] \in D
  <2>1. CASE k = N
    BY <2>1 DEF Node
  <2>2. CASE k # N
    <3>1. k \in 1 .. N - 1
      BY <1>1, <2>2
    <3> QED
      BY <3>1 DEF IsRoute
  <2> QED
    BY <2>1, <2>2
<1>4. path \in [1 .. N -> D]
  BY <1>1, <1>3
<1> DEFINE n == N - 1
<1>5. n \in Nat /\ N = n + 1
  BY <1>1
<1> HIDE DEF n
<1>6. path \in PathsTo(LinkedGraph, target_conveyor, n)
  <2>1. path \in [1 .. n + 1 -> DOMAIN LinkedGraph]
    BY <1>2, <1>4, <1>5
  <2>2. path[1] = INPUT_CONVEYOR_ID /\ path[n + 1] = target_conveyor
    BY <1>5 DEF IsRoute, Node
  <2>3. \A j, k \in 1 .. n + 1 : path[j] = path[k] => j = k
    BY <1>5
  <2>4. ASSUME NEW k \in 1 .. n
        PROVE  path[k + 1] \in LinkedGraph[path[k]]
    <3>1. k \in 1 .. N - 1 /\ k + 1 \in 1 .. N
      BY <1>1, <1>5
    <3>2. path[k] \in D /\ path[k + 1] \in D
      BY <1>1, <1>3, <3>1
    <3>3. path[k + 1] \in Neighbours(links, path[k])
      BY <3>1 DEF IsRoute
    <3> QED
      BY <3>2, <3>3 DEF LinkedGraph
  <2> HIDE DEF D, N
  <2> QED
    BY <2>1, <2>2, <2>3, <2>4 DEF PathsTo, PathsOfLength
<1>7. n \in 0 .. Cardinality(D)
  <2>1. path \in Injection(1 .. N, D)
    BY <1>4 DEF Injection, IsInjective
  <2>2. Cardinality(1 .. N) <= Cardinality(D)
    BY <2>1, FS_Injection
  <2>3. Cardinality(1 .. N) = N
    <3> HIDE DEF N
    <3>1. Cardinality(1 .. N) = IF 1 > N THEN 0 ELSE N - 1 + 1
      <4>1. 1 \in Int /\ N \in Int
        BY <1>1
      <4> QED
        BY <4>1, FS_Interval, Zenon
    <3> QED
      BY <1>1, <3>1
  <2>4. Cardinality(D) \in Nat
    BY FS_CardinalityType
  <2> HIDE DEF D, N
  <2> QED
    BY <1>1, <1>5, <2>2, <2>3, <2>4
<1>8. ASSUME NEW k \in 0 .. n - 1,
             NEW w \in PathsTo(LinkedGraph, target_conveyor, k)
      PROVE  FALSE
  <2>1. /\ w \in [1 .. k + 1 -> D]
        /\ w[1] = INPUT_CONVEYOR_ID
        /\ w[k + 1] = target_conveyor
        /\ \A i \in 1 .. k : w[i + 1] \in LinkedGraph[w[i]]
    BY <1>2 DEF PathsTo, PathsOfLength
  <2>2. k \in Nat /\ k < n
    BY <1>5
  <2>3. ASSUME NEW i \in 1 .. k
        PROVE  w[i] \in D /\ w[i + 1] \in Neighbours(links, w[i])
    <3>1. i \in 1 .. k + 1
      BY <2>2
    <3> QED
      BY <2>1, <3>1 DEF LinkedGraph
  <2>4. ASSUME NEW i \in 1 .. k + 1
        PROVE  w[i] \in Int
    <3>1. CASE i = 1
      BY <2>1, <3>1 DEF INPUT_CONVEYOR_ID
    <3>2. CASE i # 1
      <4>1. i - 1 \in 1 .. k /\ (i - 1) + 1 = i
        BY <2>2, <3>2
      <4>2. w[i] \in Neighbours(links, w[i - 1]) /\ w[i - 1] \in D
        BY <2>3, <4>1
      <4> QED
        BY <4>2, NeighboursAreIds
    <3> QED
      BY <3>1, <3>2
  <2>5. w \in Seq(Int) /\ Len(w) = k + 1
    <3>1. w \in [1 .. k + 1 -> Int]
      BY <2>1, <2>4
    <3>2. k + 1 \in Nat
      BY <2>2
    <3> QED
      BY <3>1, <3>2
  <2>6. IsRoute(links, w) /\ Node(w) = target_conveyor
    <3>1. w # <<>>
      BY <2>2, <2>5
    <3>2. 1 .. Len(w) - 1 = 1 .. k
      BY <2>2, <2>5
    <3> QED
      BY <2>1, <2>3, <2>5, <3>1, <3>2 DEF IsRoute, Node
  <2>7. N <= Len(w)
    BY <2>5, <2>6
  <2> QED
    BY <1>5, <2>2, <2>5, <2>7
<1>9. INPUT_CONVEYOR_ID \in D
  BY <1>1, <1>3 DEF IsRoute
<1> HIDE DEF D, N
<1>10. ShortestPaths(LinkedGraph, target_conveyor) =
          UNION {PathsTo(LinkedGraph, target_conveyor, m) :
                   m \in {j \in 0 .. Cardinality(D) :
                            \A k \in 0 .. j - 1 :
                                PathsTo(LinkedGraph, target_conveyor, k) = {}}}
  BY <1>2, <1>9 DEF ShortestPaths
<1>11. \A k \in 0 .. n - 1 : PathsTo(LinkedGraph, target_conveyor, k) = {}
  BY <1>8
<1> QED
  BY <1>6, <1>7, <1>10, <1>11

(* A prefix of a route is a route. *)
LEMMA PrefixRoute ==
    ASSUME NEW v \in Seq(Int), IsRoute(links, v), NEW m \in 1 .. Len(v)
    PROVE  \E w \in Seq(Int) :
              /\ Len(w) = m
              /\ DOMAIN w = 1 .. m
              /\ \A i \in 1 .. m : w[i] = v[i]
              /\ IsRoute(links, w)
              /\ Node(w) = v[m]
<1> DEFINE w == [i \in 1 .. m |-> v[i]]
<1>1. Len(v) \in Nat /\ v \in [1 .. Len(v) -> Int]
  OBVIOUS
<1>2. m \in Nat /\ m >= 1 /\ m <= Len(v)
  BY <1>1
<1>3. ASSUME NEW i \in 1 .. m
      PROVE  i \in 1 .. Len(v) /\ v[i] \in Int
  BY <1>1, <1>2
<1>4. /\ w \in [1 .. m -> Int]
      /\ DOMAIN w = 1 .. m
      /\ \A i \in 1 .. m : w[i] = v[i]
  BY <1>3
<1> HIDE DEF w
<1>5. w \in Seq(Int) /\ Len(w) = m
  BY <1>2, <1>4
<1>6. w # <<>> /\ w[1] = INPUT_CONVEYOR_ID
  BY <1>2, <1>4, <1>5 DEF IsRoute
<1>7. ASSUME NEW i \in 1 .. m - 1
      PROVE  /\ w[i] \in DOMAIN links
             /\ w[i + 1] \in Neighbours(links, w[i])
  <2>1. i \in 1 .. Len(v) - 1 /\ i \in 1 .. m /\ i + 1 \in 1 .. m
    BY <1>1, <1>2
  <2> QED
    BY <1>4, <2>1 DEF IsRoute
<1>8. IsRoute(links, w)
  BY <1>5, <1>6, <1>7 DEF IsRoute
<1>9. Node(w) = v[m]
  BY <1>2, <1>4, <1>5 DEF Node
<1> QED
  BY <1>4, <1>5, <1>8, <1>9

(* Where a route first leaves what is visited, the way on is queued or     *)
(* ahead, and not longer.                                                  *)
LEMMA RouteLeaves ==
    ASSUME FrontierByLevel,
           NEW v \in Seq(Int), IsRoute(links, v),
           NEW k \in 1 .. Len(v), v[k] \notin visited
    PROVE  \E m \in 1 .. k :
              /\ v[m] \notin visited
              /\ \A i \in 1 .. m - 1 : v[i] \in visited
              /\ \/ QueuedWithin(v[m], m)
                 \/ /\ m > 1
                    /\ Len(current_path) <= m - 1
                    /\ v[m - 1] \in DOMAIN links
                    /\ LinkAhead(v[m - 1], v[m])
<1>1. Len(v) \in Nat
  OBVIOUS
<1> DEFINE S == {m \in 1 .. k : v[m] \notin visited}
<1>2. S \in SUBSET Nat /\ S # {}
  BY <1>1
<1>3. PICK m \in S : \A j \in S : m <= j
  BY <1>2, LeastIndex
<1>4. m \in 1 .. k /\ v[m] \notin visited /\ m \in 1 .. Len(v)
  BY <1>1, <1>3
<1>5. ASSUME NEW i \in 1 .. m - 1
      PROVE  v[i] \in visited
  <2>1. i \in 1 .. k /\ i < m /\ i \in Nat
    BY <1>1, <1>4
  <2>2. i \notin S
    BY <1>3, <1>4, <2>1
  <2> QED
    BY <2>1, <2>2
<1>6. CASE m = 1
  <2>1. v[1] = INPUT_CONVEYOR_ID
    BY DEF IsRoute
  <2> QED
    BY <1>4, <1>5, <1>6, <2>1 DEF FrontierByLevel
<1>7. CASE m # 1
  <2>1. m - 1 \in 1 .. Len(v) /\ m > 1 /\ (m - 1) + 1 = m
        /\ m - 1 \in 1 .. m - 1 /\ m - 1 \in 1 .. Len(v) - 1
    BY <1>1, <1>4, <1>7
  <2> DEFINE j == m - 1
  <2>2. PICK w \in Seq(Int) :
           /\ Len(w) = j
           /\ DOMAIN w = 1 .. j
           /\ \A i \in 1 .. j : w[i] = v[i]
           /\ IsRoute(links, w)
           /\ Node(w) = v[j]
    <3>1. j \in 1 .. Len(v)
      BY <2>1
    <3> HIDE DEF j
    <3> QED
      BY <3>1, PrefixRoute
  <2>3. v[j] \in visited
    BY <1>5, <2>1
  <2>4. VisitedRoute(w, v[j])
    <3>1. \A i \in 1 .. j : v[i] \in visited
      BY <1>5
    <3> HIDE DEF j
    <3> QED
      BY <2>2, <3>1 DEF VisitedRoute
  <2>5. v[m] \in Neighbours(links, v[j]) /\ v[j] \in DOMAIN links
    BY <2>1 DEF IsRoute
  <2>6. \/ v[m] \in visited
        \/ QueuedWithin(v[m], Len(w) + 1)
        \/ LinkAhead(v[j], v[m]) /\ Len(current_path) <= Len(w)
    <3> HIDE DEF j
    <3> QED
      BY <2>2, <2>3, <2>4, <2>5 DEF FrontierByLevel
  <2>7. Len(w) + 1 = m /\ Len(w) = m - 1
    BY <2>1, <2>2
  <2>8. QueuedWithin(v[m], m)
        \/ (LinkAhead(v[m - 1], v[m]) /\ Len(current_path) <= m - 1)
    BY <1>4, <2>6, <2>7
  <2> QED
    BY <1>4, <1>5, <2>1, <2>5, <2>8
<1> QED
  BY <1>6, <1>7

(* The lengths of what is on its way. *)
LEMMA Lengths ==
    ASSUME TypeOK
    PROVE  /\ Len(current_path) \in Nat
           /\ \A i \in DOMAIN node_queue :
                 /\ node_queue[i] \in Seq(Int)
                 /\ Len(node_queue[i]) \in Nat
                 /\ Len(node_queue[i]) >= 1
<1>1. current_path \in Seq(Int) /\ node_queue \in Seq(Seq(Int) \ {<<>>})
  BY DEF TypeOK
<1>2. ASSUME NEW i \in DOMAIN node_queue
      PROVE  node_queue[i] \in Seq(Int) /\ node_queue[i] # <<>>
  BY <1>1
<1>3. ASSUME NEW i \in DOMAIN node_queue
      PROVE  Len(node_queue[i]) \in Nat /\ Len(node_queue[i]) >= 1
  BY <1>2, EmptySeq
<1> QED
  BY <1>1, <1>2, <1>3

(* The path that is taken is the shortest that waits. *)
LEMMA PopLevels ==
    ASSUME TypeOK, Levels, Pop
    PROVE  /\ Len(Head(node_queue)) \in Nat
           /\ Len(Head(node_queue)) >= 1
           /\ Len(current_path) <= Len(Head(node_queue))
           /\ Len(Head(node_queue)) <= Len(current_path) + 1
           /\ \A i \in DOMAIN node_queue :
                 Len(Head(node_queue)) <= Len(node_queue[i])
           /\ \A i \in DOMAIN node_queue' :
                 /\ Len(node_queue'[i]) \in Nat
                 /\ Len(Head(node_queue)) <= Len(node_queue'[i])
                 /\ Len(node_queue'[i]) <= Len(current_path) + 1
           /\ \A i, j \in DOMAIN node_queue' :
                 i < j => Len(node_queue'[i]) <= Len(node_queue'[j])
<1>1. /\ 1 \in DOMAIN node_queue
      /\ Head(node_queue) = node_queue[1]
      /\ Len(node_queue) \in Nat
      /\ DOMAIN node_queue = 1 .. Len(node_queue)
  BY PopTyped
<1>2. ASSUME NEW i \in DOMAIN node_queue
      PROVE  Len(Head(node_queue)) <= Len(node_queue[i])
  <2>1. CASE i = 1
    BY <1>1, <2>1, Lengths
  <2>2. CASE i # 1
    BY <1>1, <2>2 DEF Levels
  <2> QED
    BY <2>1, <2>2
<1>3. ASSUME NEW i \in DOMAIN node_queue'
      PROVE  /\ Len(node_queue'[i]) \in Nat
             /\ Len(Head(node_queue)) <= Len(node_queue'[i])
             /\ Len(node_queue'[i]) <= Len(current_path) + 1
  <2>1. i + 1 \in DOMAIN node_queue /\ node_queue'[i] = node_queue[i + 1]
    BY PopTyped
  <2> QED
    BY <1>2, <2>1, Lengths DEF Levels
<1>4. ASSUME NEW i \in DOMAIN node_queue', NEW j \in DOMAIN node_queue', i < j
      PROVE  Len(node_queue'[i]) <= Len(node_queue'[j])
  <2>1. /\ i + 1 \in DOMAIN node_queue /\ node_queue'[i] = node_queue[i + 1]
        /\ j + 1 \in DOMAIN node_queue /\ node_queue'[j] = node_queue[j + 1]
        /\ DOMAIN node_queue' = 1 .. Len(node_queue) - 1
    BY PopTyped
  <2>2. i + 1 < j + 1
    BY <1>1, <1>4, <2>1
  <2> QED
    BY <2>1, <2>2 DEF Levels
<1> QED
  BY <1>1, <1>2, <1>3, <1>4, Lengths DEF Levels

LEMMA PopWithin ==
    ASSUME TypeOK, Pop, NEW d, NEW n, QueuedWithin(d, n)
    PROVE  QueuedWithin(d, n)' \/ d = Node(Head(node_queue))
<1>1. PICK i \in DOMAIN node_queue :
         Node(node_queue[i]) = d /\ Len(node_queue[i]) <= n
  BY DEF QueuedWithin
<1>2. CASE i = 1
  BY <1>1, <1>2, PopTyped
<1>3. CASE i # 1
  <2>1. /\ Len(node_queue) \in Nat \ {0}
        /\ DOMAIN node_queue = 1 .. Len(node_queue)
        /\ DOMAIN node_queue' = 1 .. Len(node_queue) - 1
    BY PopTyped
  <2>2. i - 1 \in DOMAIN node_queue' /\ (i - 1) + 1 = i
    BY <1>3, <2>1
  <2>3. node_queue'[i - 1] = node_queue[i]
    BY <2>2, PopTyped
  <2> QED
    BY <1>1, <2>2, <2>3 DEF QueuedWithin, Node
<1> QED
  BY <1>2, <1>3

LEMMA PopSimple ==
    ASSUME TypeOK, SimplePaths, Pop, visited \subseteq visited'
    PROVE  \A i \in DOMAIN node_queue' :
              SimpleTo(node_queue[i], Len(node_queue[i]) - 1)'
<1> SUFFICES ASSUME NEW i \in DOMAIN node_queue',
                    NEW j \in 1 .. Len(node_queue'[i]) - 1
             PROVE  /\ node_queue'[i][j] \in visited'
                    /\ \A k \in 1 .. Len(node_queue'[i]) - 1 :
                          node_queue'[i][j] = node_queue'[i][k] => j = k
  BY DEF SimpleTo
<1>1. i + 1 \in DOMAIN node_queue /\ node_queue'[i] = node_queue[i + 1]
  BY PopTyped
<1>2. SimpleTo(node_queue[i + 1], Len(node_queue[i + 1]) - 1)
  BY <1>1 DEF SimplePaths
<1> QED
  BY <1>1, <1>2 DEF SimpleTo

LEMMA SkipVisitedShortest ==
    ASSUME TypeOK, BreadthFirst, skip_visited
    PROVE  BreadthFirst'
<1>1. /\ Pop
      /\ Node(Head(node_queue)) \in visited
      /\ UNCHANGED <<links, target_conveyor, visited, current_path, location>>
  BY DEF skip_visited, Pop, input
<1>2. Levels'
  BY <1>1, PopLevels, Lengths DEF BreadthFirst, Levels
<1>3. Near'
  BY <1>1 DEF BreadthFirst, Near, VisitedRoute
<1>4. FrontierByLevel'
  <2>1. \A d, n : QueuedWithin(d, n) => QueuedWithin(d, n)' \/ d \in visited
    BY <1>1, PopWithin
  <2>2. \A c, d : LinkAhead(c, d) => LinkAhead(c, d)'
    BY <1>1 DEF LinkAhead, Ahead, current
  <2>3. \A v, c : VisitedRoute(v, c)' => VisitedRoute(v, c)
    BY <1>1 DEF VisitedRoute
  <2>4. INPUT_CONVEYOR_ID \in visited' \/ QueuedWithin(INPUT_CONVEYOR_ID, 1)'
    BY <1>1, <2>1 DEF BreadthFirst, FrontierByLevel
  <2>5. ASSUME NEW v \in Seq(Int), NEW c \in visited', VisitedRoute(v, c)',
               NEW d \in Neighbours(links', c)
        PROVE  \/ d \in visited'
               \/ QueuedWithin(d, Len(v) + 1)'
               \/ LinkAhead(c, d)' /\ Len(current_path') <= Len(v)
    <3>1. \/ d \in visited
          \/ QueuedWithin(d, Len(v) + 1)
          \/ LinkAhead(c, d) /\ Len(current_path) <= Len(v)
      BY <1>1, <2>3, <2>5 DEF BreadthFirst, FrontierByLevel
    <3> QED
      BY <1>1, <2>1, <2>2, <3>1
  <2> QED
    BY <2>4, <2>5 DEF FrontierByLevel
<1>5. SimplePaths'
  BY <1>1, PopSimple DEF BreadthFirst, SimplePaths, SimpleTo
<1>6. TargetNotQueued'
  BY <1>1, PopTyped DEF BreadthFirst, TargetNotQueued, Node
<1> QED
  BY <1>2, <1>3, <1>4, <1>5, <1>6 DEF BreadthFirst

(* A route that reaches the next conveyor to visit, over what is visited,  *)
(* is not shorter than the path taken from the queue.                      *)
LEMMA NoShorterRoute ==
    ASSUME TypeOK, BreadthFirst, Pop,
           NEW v \in Seq(Int), IsRoute(links, v),
           NEW k \in 1 .. Len(v), v[k] \notin visited,
           \A i \in 1 .. k :
              v[i] \in visited \union {Node(Head(node_queue))}
    PROVE  Len(Head(node_queue)) <= k
<1>1. PICK m \in 1 .. k :
         /\ v[m] \notin visited
         /\ \/ QueuedWithin(v[m], m)
            \/ /\ v[m - 1] \in DOMAIN links
               /\ LinkAhead(v[m - 1], v[m])
  BY RouteLeaves DEF BreadthFirst
<1>2. v[m] = Node(Head(node_queue))
  BY <1>1
<1>3. ASSUME v[m - 1] \in DOMAIN links, LinkAhead(v[m - 1], v[m])
      PROVE  FALSE
  <2>1. ~Expanding
    BY DEF Pop
  <2> QED
    BY <1>3, <2>1, NoneAhead DEF LinkAhead
<1>4. PICK i \in DOMAIN node_queue : Len(node_queue[i]) <= m
  BY <1>1, <1>3 DEF QueuedWithin
<1>5. /\ Len(Head(node_queue)) <= Len(node_queue[i])
      /\ Len(Head(node_queue)) \in Nat
      /\ Len(node_queue[i]) \in Nat
  BY PopLevels, Lengths DEF BreadthFirst
<1> QED
  BY <1>4, <1>5

LEMMA VisitCurrentShortest ==
    ASSUME SearchInv, BreadthFirst, visit_current
    PROVE  BreadthFirst'
<1>a. PICK head : head = Head(node_queue)
  OBVIOUS
<1>b. PICK n : n = Node(head)
  OBVIOUS
<1>1. TypeOK /\ Searching
  BY DEF SearchInv, visit_current, Visit, Pop
<1>2. /\ Pop
      /\ ~Expanding
      /\ n \notin visited
      /\ n \in DOMAIN links
      /\ visited' = visited \union {n}
      /\ current_path' = head
      /\ location' = 1
      /\ UNCHANGED <<links, target_conveyor>>
  BY <1>a, <1>b DEF visit_current, Visit, Pop, input
<1>3. /\ head \in Seq(Int)
      /\ Len(head) \in Nat
      /\ Len(head) >= 1
      /\ DOMAIN head = 1 .. Len(head)
      /\ head # <<>>
      /\ head[Len(head)] = n
      /\ Len(current_path) \in Nat
      /\ Len(current_path) <= Len(head)
  BY <1>a, <1>b, <1>1, <1>2, PopTyped, PopLevels, Lengths
     DEF BreadthFirst, Node
<1>4. IsRoute(links, head) /\ SimpleTo(head, Len(head) - 1)
  BY <1>a, <1>1, <1>2, PopTyped
     DEF BreadthFirst, SimplePaths, Searching, RoutesOnly
<1>5. Levels'
  <2>1. \A i \in DOMAIN node_queue' :
           /\ Len(node_queue'[i]) \in Nat
           /\ Len(head) <= Len(node_queue'[i])
           /\ Len(node_queue'[i]) <= Len(current_path) + 1
    BY <1>a, <1>1, <1>2, PopLevels DEF BreadthFirst
  <2>2. \A i, j \in DOMAIN node_queue' :
           i < j => Len(node_queue'[i]) <= Len(node_queue'[j])
    BY <1>1, <1>2, PopLevels DEF BreadthFirst
  <2> QED
    BY <1>2, <1>3, <2>1, <2>2 DEF Levels
<1>6. \A j \in 1 .. Len(head) : j \in 1 .. Len(head) - 1 \/ j = Len(head)
  <2>1. \A m \in Nat : \A j \in 1 .. m : j \in 1 .. m - 1 \/ j = m
    OBVIOUS
  <2> QED
    BY <1>3, <2>1
<1>7. \A j \in 1 .. Len(head) : head[j] \in visited'
  BY <1>2, <1>3, <1>4, <1>6 DEF SimpleTo
<1>8. Near'
  <2>1. ASSUME NEW c \in visited
        PROVE  \E v \in Seq(Int) :
                  VisitedRoute(v, c)' /\ Len(v) <= Len(current_path')
    <3>1. PICK v \in Seq(Int) :
             VisitedRoute(v, c) /\ Len(v) <= Len(current_path)
      BY DEF BreadthFirst, Near
    <3>2. Len(v) \in Nat
      OBVIOUS
    <3>3. VisitedRoute(v, c)'
      BY <1>2, <3>1 DEF VisitedRoute
    <3> QED
      BY <1>2, <1>3, <3>1, <3>2, <3>3
  <2>2. VisitedRoute(head, n)'
    BY <1>2, <1>3, <1>4, <1>7 DEF VisitedRoute, Node
  <2> QED
    BY <1>2, <1>3, <2>1, <2>2 DEF Near
<1>9. FrontierByLevel'
  <2>1. \A d, k : QueuedWithin(d, k) => QueuedWithin(d, k)' \/ d \in visited'
    BY <1>a, <1>b, <1>1, <1>2, PopWithin
  <2>2. INPUT_CONVEYOR_ID \in visited' \/ QueuedWithin(INPUT_CONVEYOR_ID, 1)'
    BY <1>2, <2>1 DEF BreadthFirst, FrontierByLevel
  <2>4. ASSUME NEW v \in Seq(Int), NEW c \in visited, VisitedRoute(v, c),
               NEW d \in Neighbours(links, c)
        PROVE  d \in visited' \/ QueuedWithin(d, Len(v) + 1)'
    <3>1. ~LinkAhead(c, d)
      <4>1. c \in DOMAIN links
        BY <1>1 DEF Searching, VisitedKnown
      <4> QED
        BY <1>1, <1>2, <4>1, NoneAhead DEF LinkAhead
    <3> QED
      BY <1>2, <2>1, <2>4, <3>1 DEF BreadthFirst, FrontierByLevel
  <2>5. ASSUME NEW v \in Seq(Int), NEW c \in visited', VisitedRoute(v, c)',
               NEW d \in Neighbours(links', c)
        PROVE  \/ d \in visited'
               \/ QueuedWithin(d, Len(v) + 1)'
               \/ LinkAhead(c, d)' /\ Len(current_path') <= Len(v)
    <3>1. Len(v) \in Nat /\ DOMAIN v = 1 .. Len(v)
      OBVIOUS
    <3>2. /\ IsRoute(links, v)
          /\ Node(v) = c
          /\ \A i \in 1 .. Len(v) : v[i] \in visited \union {n}
      BY <1>2, <2>5, <3>1 DEF VisitedRoute
    <3>3. ASSUME NEW k \in 1 .. Len(v), v[k] = n
          PROVE  Len(head) <= Len(v)
      <4>1. \A i \in 1 .. k : v[i] \in visited \union {n}
        BY <3>1, <3>2
      <4>2. Len(head) <= k
        BY <1>a, <1>b, <1>1, <1>2, <3>2, <3>3, <4>1, NoShorterRoute
      <4> QED
        BY <1>3, <3>1, <4>2
    <3>4. CASE c = n
      <4>1. Len(v) \in 1 .. Len(v) /\ v[Len(v)] = n
        BY <3>1, <3>2, <3>4, EmptySeq DEF IsRoute, Node
      <4>2. Len(head) <= Len(v)
        BY <3>3, <4>1
      <4>3. LinkAhead(c, d)'
        <5>1. PICK i \in DOMAIN links[c] : links[c][i] = d
          BY <1>2, <2>5 DEF Neighbours
        <5>2. links[c] \in Seq(Int)
          BY <1>1, <1>2, <3>4 DEF TypeOK
        <5>3. i >= 1
          BY <5>2
        <5>4. current' = n
          BY <1>2, <1>3 DEF current, Node
        <5> QED
          BY <1>2, <1>3, <3>4, <5>1, <5>3, <5>4 DEF LinkAhead, Ahead
      <4> QED
        BY <1>2, <4>2, <4>3
    <3>5. CASE c # n /\ \A i \in 1 .. Len(v) : v[i] \in visited
      <4>1. VisitedRoute(v, c)
        BY <3>1, <3>2, <3>5 DEF VisitedRoute
      <4> QED
        BY <1>2, <2>4, <2>5, <3>5, <4>1
    <3>6. CASE c # n /\ \E i \in 1 .. Len(v) : v[i] \notin visited
      <4>1. Len(head) <= Len(v)
        BY <3>2, <3>3, <3>6
      <4>2. c \in visited
        BY <1>2, <3>6
      <4>3. PICK w \in Seq(Int) :
               VisitedRoute(w, c) /\ Len(w) <= Len(current_path)
        BY <4>2 DEF BreadthFirst, Near
      <4>4. d \in visited' \/ QueuedWithin(d, Len(w) + 1)'
        BY <1>2, <2>4, <2>5, <4>2, <4>3
      <4>5. Len(w) \in Nat
        OBVIOUS
      <4>6. Len(w) + 1 <= Len(v) + 1
        BY <1>3, <3>1, <4>1, <4>3, <4>5
      <4>7. ASSUME QueuedWithin(d, Len(w) + 1)'
            PROVE  QueuedWithin(d, Len(v) + 1)'
        <5>1. PICK i \in DOMAIN node_queue' :
                 /\ Node(node_queue'[i]) = d
                 /\ Len(node_queue'[i]) <= Len(w) + 1
          BY <4>7 DEF QueuedWithin, Node
        <5>2. Len(node_queue'[i]) \in Nat
          BY <1>1, <1>2, PopLevels DEF BreadthFirst
        <5>3. Len(node_queue'[i]) <= Len(v) + 1
          BY <3>1, <4>5, <4>6, <5>1, <5>2
        <5> QED
          BY <5>1, <5>3 DEF QueuedWithin, Node
      <4> QED
        BY <4>4, <4>7
    <3> QED
      BY <3>4, <3>5, <3>6
  <2> QED
    BY <2>2, <2>5 DEF FrontierByLevel
<1>10. SimplePaths'
  <2>1. SimpleTo(head, Len(head))'
    <3>1. ASSUME NEW j \in 1 .. Len(head), NEW k \in 1 .. Len(head),
                 head[j] = head[k]
          PROVE  j = k
      BY <1>2, <1>3, <1>4, <1>6, <3>1 DEF SimpleTo
    <3> QED
      BY <1>7, <3>1 DEF SimpleTo
  <2>2. SimpleTo(current_path, Len(current_path))'
    BY <1>2, <2>1 DEF SimpleTo
  <2>3. \A i \in DOMAIN node_queue' :
           SimpleTo(node_queue[i], Len(node_queue[i]) - 1)'
    BY <1>1, <1>2, PopSimple DEF BreadthFirst
  <2> QED
    BY <2>2, <2>3 DEF SimplePaths
<1>11. TargetNotQueued'
  BY <1>1, <1>2, PopTyped DEF BreadthFirst, TargetNotQueued, Node
<1> QED
  BY <1>5, <1>8, <1>9, <1>10, <1>11 DEF BreadthFirst

(* Looking at a connection leaves the others ahead. *)
LEMMA AheadLater ==
    ASSUME TypeOK, NextConnection, NEW c \in DOMAIN links,
           NEW d, LinkAhead(c, d), d # conn_id
    PROVE  LinkAhead(c, d)'
<1>1. PICK i \in DOMAIN links[c] : links[c][i] = d /\ Ahead(c, i)
  BY DEF LinkAhead
<1>2. Ahead(c, i)'
  BY <1>1, NextConnectionTyped
<1> QED
  BY <1>1, <1>2, NextConnectionTyped DEF LinkAhead

LEMMA SkipConnectionShortest ==
    ASSUME SearchInv, BreadthFirst, skip_connection
    PROVE  BreadthFirst'
<1>a. TypeOK /\ Searching
  BY DEF SearchInv, skip_connection, NextConnection
<1>1. /\ NextConnection
      /\ ~Followed
      /\ UNCHANGED <<visited, node_queue>>
      /\ UNCHANGED <<links, target_conveyor, current_path>>
      /\ current' = current
      /\ conn_id \in Int
  BY <1>a, NextConnectionTyped DEF skip_connection
<1>2. Levels' /\ Near' /\ SimplePaths' /\ TargetNotQueued'
  BY <1>1 DEF BreadthFirst, Levels, Near, VisitedRoute, SimplePaths, SimpleTo,
              TargetNotQueued
<1>3. conn_id < VALID_CONVEYOR_ID_MIN \/ conn_id \in visited
  BY <1>1 DEF Followed, VALID_CONVEYOR_ID_MIN
<1>4. \A d, n : QueuedWithin(d, n)' <=> QueuedWithin(d, n)
  BY <1>1 DEF QueuedWithin, Node
<1>5. ASSUME NEW v \in Seq(Int), NEW c \in visited', VisitedRoute(v, c)',
             NEW d \in Neighbours(links', c)
      PROVE  \/ d \in visited'
             \/ QueuedWithin(d, Len(v) + 1)'
             \/ LinkAhead(c, d)' /\ Len(current_path') <= Len(v)
  <2>1. \/ d \in visited
        \/ QueuedWithin(d, Len(v) + 1)
        \/ LinkAhead(c, d) /\ Len(current_path) <= Len(v)
    BY <1>1, <1>5 DEF BreadthFirst, FrontierByLevel, VisitedRoute
  <2>2. ASSUME LinkAhead(c, d), d \notin visited
        PROVE  LinkAhead(c, d)'
    <3>1. c \in DOMAIN links
      BY <1>a, <1>1, <1>5 DEF Searching, VisitedKnown
    <3>2. d >= VALID_CONVEYOR_ID_MIN /\ d \in Int
      BY <1>a, <1>1, <1>5, <3>1, NeighboursAreIds DEF TypeOK
    <3>3. d # conn_id
      BY <1>3, <2>2, <3>2 DEF VALID_CONVEYOR_ID_MIN
    <3> QED
      BY <1>a, <1>1, <2>2, <3>1, <3>3, AheadLater
  <2> QED
    BY <1>1, <1>4, <2>1, <2>2
<1>6. FrontierByLevel'
  BY <1>1, <1>4, <1>5 DEF BreadthFirst, FrontierByLevel
<1> QED
  BY <1>2, <1>6 DEF BreadthFirst

LEMMA EnqueueConnectionShortest ==
    ASSUME SearchInv, BreadthFirst, enqueue_connection
    PROVE  BreadthFirst'
<1>1. /\ NextConnection
      /\ Followed
      /\ conn_id # target_conveyor
      /\ node_queue' = Append(node_queue, Append(current_path, conn_id))
      /\ UNCHANGED visited
  BY DEF enqueue_connection
<1>2. TypeOK /\ Searching
  BY <1>1 DEF SearchInv, NextConnection
<1>3. /\ UNCHANGED <<links, target_conveyor, current_path>>
      /\ current' = current
      /\ current_path # <<>>
      /\ conn_id \in Int
      /\ conn_id \notin visited
  BY <1>1, <1>2, NextConnectionTyped DEF Followed
<1>4. PICK path : path = Append(current_path, conn_id)
  OBVIOUS
<1>5. /\ path \in Seq(Int) \ {<<>>}
      /\ IsRoute(links, path)
      /\ Node(path) = conn_id
  BY <1>1, <1>2, <1>4, FollowedRoute
<1>6. /\ Len(current_path) \in Nat
      /\ Len(path) = Len(current_path) + 1
      /\ \A i \in 1 .. Len(current_path) : path[i] = current_path[i]
  <2>1. current_path \in Seq(Int)
    BY <1>2 DEF TypeOK
  <2> QED
    BY <1>3, <1>4, <2>1
<1>7. /\ Len(node_queue) \in Nat
      /\ DOMAIN node_queue = 1 .. Len(node_queue)
      /\ DOMAIN node_queue' = 1 .. Len(node_queue) + 1
      /\ \A i \in DOMAIN node_queue : node_queue'[i] = node_queue[i]
      /\ node_queue'[Len(node_queue) + 1] = path
  <2> DEFINE T == Seq(Int) \ {<<>>}
  <2>1. node_queue \in Seq(T) /\ path \in T
    BY <1>2, <1>5 DEF TypeOK
  <2>2. node_queue' = Append(node_queue, path)
    BY <1>1, <1>4
  <2> HIDE DEF T
  <2> QED
    BY <2>1, <2>2
<1>8. \A i \in DOMAIN node_queue' :
         i \in DOMAIN node_queue \/ i = Len(node_queue) + 1
  BY <1>7
<1>9. Levels'
  <2>1. ASSUME NEW i \in DOMAIN node_queue'
        PROVE  /\ Len(current_path) <= Len(node_queue'[i])
               /\ Len(node_queue'[i]) <= Len(current_path) + 1
    BY <1>6, <1>7, <1>8 DEF BreadthFirst, Levels
  <2>2. ASSUME NEW i \in DOMAIN node_queue', NEW j \in DOMAIN node_queue', i < j
        PROVE  Len(node_queue'[i]) <= Len(node_queue'[j])
    <3>1. i \in DOMAIN node_queue
      BY <1>7, <2>2
    <3>2. CASE j \in DOMAIN node_queue
      BY <1>7, <2>2, <3>1, <3>2 DEF BreadthFirst, Levels
    <3>3. CASE j = Len(node_queue) + 1
      BY <1>6, <1>7, <3>1, <3>3 DEF BreadthFirst, Levels
    <3> QED
      BY <1>8, <3>2, <3>3
  <2> QED
    BY <1>3, <2>1, <2>2 DEF Levels
<1>10. Near'
  BY <1>1, <1>3 DEF BreadthFirst, Near, VisitedRoute
<1>11. SimpleTo(current_path, Len(current_path))
  BY DEF BreadthFirst, SimplePaths
<1>12. SimplePaths'
  <2>1. ASSUME NEW i \in DOMAIN node_queue'
        PROVE  SimpleTo(node_queue[i], Len(node_queue[i]) - 1)'
    <3>1. CASE i \in DOMAIN node_queue
      BY <1>1, <1>7, <3>1 DEF BreadthFirst, SimplePaths, SimpleTo
    <3>2. CASE i = Len(node_queue) + 1
      <4>1. Len(path) - 1 = Len(current_path)
        BY <1>6
      <4> QED
        BY <1>1, <1>6, <1>7, <1>11, <3>2, <4>1 DEF SimpleTo
    <3> QED
      BY <1>8, <3>1, <3>2
  <2>2. SimpleTo(current_path, Len(current_path))'
    BY <1>1, <1>3, <1>11 DEF SimpleTo
  <2> QED
    BY <2>1, <2>2 DEF SimplePaths
<1>13. conn_id # INPUT_CONVEYOR_ID
  <2>1. IsRoute(links, current_path)
    BY <1>2, <1>3 DEF Searching, RoutesOnly
  <2>2. Len(current_path) >= 1
    BY <1>2, <1>3, EmptySeq DEF TypeOK
  <2>3. current_path[1] \in visited
    BY <1>6, <1>11, <2>2 DEF SimpleTo
  <2> QED
    BY <1>3, <2>1, <2>3 DEF IsRoute
<1>14. TargetNotQueued'
  <2> SUFFICES ASSUME NEW i \in DOMAIN node_queue'
               PROVE  /\ Node(node_queue'[i]) = target_conveyor =>
                            target_conveyor = INPUT_CONVEYOR_ID
                      /\ Node(node_queue'[i]) = INPUT_CONVEYOR_ID =>
                            Len(node_queue'[i]) = 1
    BY <1>3 DEF TargetNotQueued, Node
  <2>1. CASE i \in DOMAIN node_queue
    BY <1>7, <2>1 DEF BreadthFirst, TargetNotQueued
  <2>2. CASE i = Len(node_queue) + 1
    BY <1>1, <1>5, <1>7, <1>13, <2>2
  <2> QED
    BY <1>8, <2>1, <2>2
<1>15. ASSUME NEW d, NEW n, QueuedWithin(d, n)
       PROVE  QueuedWithin(d, n)'
  BY <1>7, <1>8, <1>15 DEF QueuedWithin, Node
<1>16. ASSUME NEW v \in Seq(Int), NEW c \in visited', VisitedRoute(v, c)',
              NEW d \in Neighbours(links', c)
       PROVE  \/ d \in visited'
              \/ QueuedWithin(d, Len(v) + 1)'
              \/ LinkAhead(c, d)' /\ Len(current_path') <= Len(v)
  <2>1. \/ d \in visited
        \/ QueuedWithin(d, Len(v) + 1)
        \/ LinkAhead(c, d) /\ Len(current_path) <= Len(v)
    BY <1>1, <1>3, <1>16 DEF BreadthFirst, FrontierByLevel, VisitedRoute
  <2>2. ASSUME LinkAhead(c, d), Len(current_path) <= Len(v), d # conn_id
        PROVE  LinkAhead(c, d)'
    <3>1. c \in DOMAIN links
      BY <1>1, <1>2, <1>16 DEF Searching, VisitedKnown
    <3> QED
      BY <1>1, <1>2, <2>2, <3>1, AheadLater
  <2>3. ASSUME Len(current_path) <= Len(v), d = conn_id
        PROVE  QueuedWithin(d, Len(v) + 1)'
    <3>1. Len(v) \in Nat
      OBVIOUS
    <3>2. Len(path) <= Len(v) + 1
      BY <1>6, <2>3, <3>1
    <3>3. Len(node_queue) + 1 \in DOMAIN node_queue'
      BY <1>7
    <3> QED
      BY <1>5, <1>7, <2>3, <3>2, <3>3 DEF QueuedWithin, Node
  <2> QED
    BY <1>1, <1>3, <1>15, <2>1, <2>2, <2>3
<1>17. FrontierByLevel'
  BY <1>1, <1>3, <1>15, <1>16 DEF BreadthFirst, FrontierByLevel
<1> QED
  BY <1>9, <1>10, <1>12, <1>14, <1>17 DEF BreadthFirst

------------------------------------------------------------------------------
(* The steps that return *)

(* The input conveyor itself is the target. *)
LEMMA ReturnCurrentShortest ==
    ASSUME SearchInv, BreadthFirst, IsFiniteSet(DOMAIN links), return_current
    PROVE  ReturnsShortest'
<1>1. TypeOK /\ Searching
  BY DEF SearchInv, return_current, Visit, Pop
<1>2. /\ Pop
      /\ Node(Head(node_queue)) = target_conveyor
      /\ result' = Head(node_queue)
      /\ UNCHANGED <<links, target_conveyor>>
  BY DEF return_current, Visit, Pop, Return, input
<1>3. PICK path \in Seq(Int) :
         /\ path = Head(node_queue)
         /\ IsRoute(links, path)
         /\ Len(path) = 1
         /\ Node(path) = target_conveyor
  BY <1>1, <1>2, PopTyped
     DEF BreadthFirst, TargetNotQueued, Searching, RoutesOnly
<1>4. ASSUME NEW w \in Seq(Int), IsRoute(links, w)
      PROVE  Len(path) <= Len(w)
  BY <1>3, <1>4, EmptySeq DEF IsRoute
<1>5. \A j, k \in 1 .. Len(path) : path[j] = path[k] => j = k
  BY <1>3
<1>6. links \in [DOMAIN links -> Seq(Int)] /\ target_conveyor \in DOMAIN links
  BY <1>1 DEF TypeOK
<1>7. path \in ShortestPaths(LinkedGraph, target_conveyor)
  BY <1>3, <1>4, <1>5, <1>6, IsShortest
<1>8. LinkedGraph' = LinkedGraph
  BY <1>2 DEF LinkedGraph
<1> QED
  BY <1>2, <1>3, <1>7, <1>8 DEF ReturnsShortest

(* A route to a target that was not visited leaves what is visited: the    *)
(* way on is queued, and then does not lead to the target yet, or is the   *)
(* connection that is looked at or another one of the same conveyor.       *)
LEMMA ReturnConnectedShortest ==
    ASSUME SearchInv, BreadthFirst, IsFiniteSet(DOMAIN links), return_connected
    PROVE  ReturnsShortest'
<1>1. /\ NextConnection
      /\ Followed
      /\ conn_id = target_conveyor
      /\ result' = Append(current_path, conn_id)
      /\ UNCHANGED <<visited, node_queue>>
  BY DEF return_connected, Return
<1>2. TypeOK /\ Searching
  BY <1>1 DEF SearchInv, NextConnection
<1>3. /\ UNCHANGED <<links, target_conveyor, current_path>>
      /\ current_path # <<>>
      /\ conn_id \in Int
      /\ target_conveyor \notin visited
  BY <1>1, <1>2, NextConnectionTyped DEF Followed
<1>4. PICK path \in Seq(Int) :
         /\ path = Append(current_path, conn_id)
         /\ IsRoute(links, path)
         /\ Node(path) = target_conveyor
  BY <1>1, <1>2, FollowedRoute
<1>5. /\ Len(current_path) \in Nat
      /\ Len(current_path) >= 1
      /\ Len(path) = Len(current_path) + 1
      /\ \A i \in 1 .. Len(current_path) : path[i] = current_path[i]
      /\ path[Len(path)] = target_conveyor
  <2>1. current_path \in Seq(Int)
    BY <1>2 DEF TypeOK
  <2>2. Len(current_path) >= 1
    BY <1>3, <2>1, EmptySeq
  <2> QED
    BY <1>1, <1>3, <1>4, <2>1, <2>2
<1>6. SimpleTo(current_path, Len(current_path))
  BY DEF BreadthFirst, SimplePaths
<1>7. ASSUME NEW j \in 1 .. Len(path), NEW k \in 1 .. Len(path),
             path[j] = path[k]
      PROVE  j = k
  <2>1. \A i \in 1 .. Len(path) :
           i \in 1 .. Len(current_path) \/ i = Len(path)
    <3>1. \A m \in Nat : \A i \in 1 .. m + 1 : i \in 1 .. m \/ i = m + 1
      OBVIOUS
    <3> QED
      BY <1>5, <3>1
  <2>2. \A i \in 1 .. Len(current_path) : path[i] \in visited
    BY <1>5, <1>6 DEF SimpleTo
  <2>3. CASE j = Len(path) \/ k = Len(path)
    BY <1>3, <1>5, <1>7, <2>1, <2>2, <2>3
  <2>4. CASE j \in 1 .. Len(current_path) /\ k \in 1 .. Len(current_path)
    BY <1>5, <1>6, <1>7, <2>4 DEF SimpleTo
  <2> QED
    BY <2>1, <2>3, <2>4
<1>8. INPUT_CONVEYOR_ID \in visited
  <2>1. IsRoute(links, current_path)
    BY <1>2, <1>3 DEF Searching, RoutesOnly
  <2>2. current_path[1] \in visited
    BY <1>5, <1>6 DEF SimpleTo
  <2> QED
    BY <2>1, <2>2 DEF IsRoute
<1>9. ASSUME NEW w \in Seq(Int), IsRoute(links, w), Node(w) = target_conveyor
      PROVE  Len(path) <= Len(w)
  <2>1. Len(w) \in Nat /\ Len(w) >= 1 /\ w[Len(w)] = target_conveyor
    BY <1>9, EmptySeq DEF IsRoute, Node
  <2>2. PICK m \in 1 .. Len(w) :
           /\ w[m] \notin visited
           /\ \/ QueuedWithin(w[m], m)
              \/ Len(current_path) <= m - 1
    <3>1. Len(w) \in 1 .. Len(w) /\ w[Len(w)] \notin visited
      BY <1>3, <2>1
    <3> QED
      BY <1>9, <3>1, RouteLeaves DEF BreadthFirst
  <2>3. CASE Len(current_path) <= m - 1
    BY <1>5, <2>1, <2>3
  <2>4. CASE QueuedWithin(w[m], m)
    <3>1. PICK i \in DOMAIN node_queue :
             Node(node_queue[i]) = w[m] /\ Len(node_queue[i]) <= m
      BY <2>4 DEF QueuedWithin
    <3>2. Len(current_path) <= m
      BY <1>2, <1>5, <2>1, <3>1, Lengths DEF BreadthFirst, Levels
    <3>3. m # Len(w)
      BY <1>3, <1>8, <2>1, <3>1 DEF BreadthFirst, TargetNotQueued
    <3> QED
      BY <1>5, <2>1, <3>2, <3>3
  <2> QED
    BY <2>2, <2>3, <2>4
<1>10. links \in [DOMAIN links -> Seq(Int)] /\ target_conveyor \in DOMAIN links
  BY <1>2 DEF TypeOK
<1>11. path \in ShortestPaths(LinkedGraph, target_conveyor)
  BY <1>4, <1>7, <1>9, <1>10, IsShortest
<1>12. LinkedGraph' = LinkedGraph
  BY <1>3 DEF LinkedGraph
<1> QED
  BY <1>1, <1>3, <1>4, <1>11, <1>12 DEF ReturnsShortest

LEMMA InitShortest ==
    ASSUME Init
    PROVE  ShortestInv
<1>1. /\ IsFiniteSet(DOMAIN links)
      /\ visited = {}
      /\ node_queue = <<<<INPUT_CONVEYOR_ID>>>>
      /\ current_path = <<>>
      /\ outcome = "none"
  BY LayoutsAssumption DEF Init
<1>2. PICK path : path = <<INPUT_CONVEYOR_ID>>
  OBVIOUS
<1>3. /\ Len(path) = 1
      /\ Node(path) = INPUT_CONVEYOR_ID
  BY <1>2 DEF Node
<1>4. /\ DOMAIN node_queue = {1}
      /\ node_queue[1] = path
      /\ Len(current_path) = 0
  <2>1. node_queue = <<path>>
    BY <1>1, <1>2
  <2>2. DOMAIN node_queue = 1 .. 1
    BY <2>1
  <2> QED
    BY <1>1, <2>1, <2>2, EmptySeq
<1>5. Levels /\ Near /\ FrontierByLevel
  BY <1>1, <1>3, <1>4 DEF Levels, Near, FrontierByLevel, QueuedWithin
<1>6. SimplePaths
  <2>1. \A p : SimpleTo(p, 0)
    BY DEF SimpleTo
  <2>2. Len(path) - 1 = 0
    BY <1>3
  <2> QED
    BY <1>4, <2>1, <2>2 DEF SimplePaths
<1>7. TargetNotQueued
  BY <1>3, <1>4 DEF TargetNotQueued
<1> QED
  BY <1>1, <1>5, <1>6, <1>7 DEF ShortestInv, BreadthFirst, ReturnsShortest

LEMMA NextShortest ==
    ASSUME SearchInv, ShortestInv, [Next]_vars
    PROVE  ShortestInv'
<1>1. CASE Next
  <2>1. outcome = "none" /\ UNCHANGED links
    BY <1>1 DEF Next, skip_visited, return_current, visit_unknown,
                visit_current, return_empty, skip_connection,
                return_connected, enqueue_connection, Visit, Pop,
                NextConnection, input
  <2>2. IsFiniteSet(DOMAIN links') /\ BreadthFirst /\ TypeOK
    BY <2>1 DEF ShortestInv, SearchInv
  <2>3. ASSUME skip_visited \/ skip_connection \/ enqueue_connection
                  \/ visit_current
        PROVE  BreadthFirst' /\ outcome' = "none"
    <3>1. outcome' = "none"
      BY <2>1, <2>3 DEF skip_visited, skip_connection, enqueue_connection,
                        visit_current
    <3> QED
      BY <2>2, <2>3, <3>1, SkipVisitedShortest, SkipConnectionShortest,
         EnqueueConnectionShortest, VisitCurrentShortest
  <2>4. ASSUME visit_unknown \/ return_empty
        PROVE  /\ outcome' # "none"
               /\ outcome' = "returned" => result' = <<>>
    BY <2>4 DEF visit_unknown, return_empty, Return
  <2>5. ASSUME return_current \/ return_connected
        PROVE  ReturnsShortest' /\ outcome' # "none"
    <3>1. outcome' # "none"
      BY <2>5 DEF return_current, return_connected, Return
    <3> QED
      BY <2>2, <2>5, <3>1, ReturnCurrentShortest, ReturnConnectedShortest
         DEF ShortestInv
  <2> QED
    BY <1>1, <2>2, <2>3, <2>4, <2>5 DEF Next, ShortestInv, ReturnsShortest
<1>2. CASE UNCHANGED vars
  <2>1. UNCHANGED <<links, target_conveyor, visited, node_queue, current_path,
                    location, outcome, result>>
    BY <1>2 DEF vars, input
  <2>2. BreadthFirst => BreadthFirst'
    BY <2>1 DEF BreadthFirst, Levels, Near, FrontierByLevel, SimplePaths,
                SimpleTo, TargetNotQueued, VisitedRoute, QueuedWithin, Node,
                LinkAhead, Ahead, current
  <2>3. ReturnsShortest => ReturnsShortest'
    BY <2>1 DEF ReturnsShortest, LinkedGraph
  <2> QED
    BY <2>1, <2>2, <2>3 DEF ShortestInv
<1> QED
  BY <1>1, <1>2

(* The invariant of a search by breadth: the queue is in the order of the  *)
(* lengths, and no route over what is visited is ahead of it.              *)
THEOREM ShortestInvHolds == Spec => []ShortestInv
<1>1. SearchInv /\ ShortestInv /\ [Next]_vars => ShortestInv'
  BY NextShortest
<1> QED
  BY <1>1, InitShortest, SearchInvHolds, PTL DEF Spec

(* The path that is returned is a shortest path from the input conveyor to *)
(* the target, in any layout, although the search returns at the first     *)
(* connection to the target and marks conveyors as visited late            *)
(* (ConveyorSystem.cpp:267-307).                                           *)
THEOREM ReturnsShortestHolds == Spec => []ReturnsShortest
<1>1. ShortestInv => ReturnsShortest
  BY DEF ShortestInv
<1> QED
  BY <1>1, ShortestInvHolds, PTL
===============================================================================
