---------------------------- MODULE MCANTServerSteps ----------------------------
(***************************************************************************)
(* Instances of ANTServerSteps for TLC: the input conveyor and another     *)
(* one.                                                                    *)
(***************************************************************************)
EXTENDS ANTServerSteps

MCConveyorId == {1, 2}

MCBoxAt == <<1, 2>>
===============================================================================
