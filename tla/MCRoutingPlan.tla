---------------------------- MODULE MCRoutingPlan -----------------------------
(***************************************************************************)
(* Instances of RoutingPlan for TLC: all the ways to link four conveyors,  *)
(* any of them but three perhaps not configured.                           *)
(***************************************************************************)
EXTENDS RoutingPlan

CONSTANTS
    Conveyors,    \* the conveyors that may be linked to
    Configured    \* sets of conveyors that may be configured

EMPTY_CONVEYOR_ID == -1
BOX_CONVEYOR_ID == -2

(* The connections of a conveyor in the order of the ids, or in reverse,   *)
(* around an empty location and a box.                                     *)
LinksTo(ids, before(_, _)) ==
    <<EMPTY_CONVEYOR_ID>> \o SetToSortSeq(ids, before) \o <<BOX_CONVEYOR_ID>>

AllLayouts ==
    UNION {{[c \in DOMAIN f |-> LinksTo(f[c], <)],
            [c \in DOMAIN f |-> LinksTo(f[c], >)]} :
           f \in UNION {{g \in [known -> SUBSET Conveyors] :
                            \A c \in known : c \notin g[c]} :
                        known \in Configured}}
===============================================================================
