---------------------------- MODULE ConveyorGraph -----------------------------
(***************************************************************************)
(* Paths over the conveyors, the reference against which the routing of    *)
(* ConveyorSystem.cpp is read.  A graph is a function from the configured  *)
(* conveyors to the set of conveyors each one is connected to.             *)
(***************************************************************************)
EXTENDS Naturals, Sequences, FiniteSets

INPUT_CONVEYOR_ID == 1    \* packages enter the plant here

(* The walks of n steps from the input conveyor that visit no conveyor     *)
(* twice.                                                                  *)
PathsOfLength(graph, n) ==
    {path \in [1 .. n + 1 -> DOMAIN graph] :
        /\ path[1] = INPUT_CONVEYOR_ID
        /\ \A k \in 1 .. n : path[k + 1] \in graph[path[k]]
        /\ \A j, k \in 1 .. n + 1 : path[j] = path[k] => j = k}

PathsTo(graph, target, n) ==
    {path \in PathsOfLength(graph, n) : path[n + 1] = target}

(* The shortest paths from the input conveyor to the target, none when it  *)
(* cannot be reached.                                                      *)
ShortestPaths(graph, target) ==
    IF INPUT_CONVEYOR_ID \notin DOMAIN graph THEN {}
    ELSE UNION {PathsTo(graph, target, n) :
                   n \in {m \in 0..Cardinality(DOMAIN graph) :
                            \A k \in 0..(m - 1) :
                                PathsTo(graph, target, k) = {}}}
===============================================================================
