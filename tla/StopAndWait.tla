------------------------------ MODULE StopAndWait ------------------------------
(***************************************************************************)
(* What the ANT server promises the processing thread: commands reach the  *)
(* plant one at a time and in order, each before the next one is begun.    *)
(***************************************************************************)
EXTENDS Sequences

CONSTANTS Command, None

VARIABLES
    queue,      \* the commands not begun yet
    current,    \* the command being sent, or None
    arrived     \* whether the current command has reached the plant

vars == <<queue, current, arrived>>

Init == queue = <<>> /\ current = None /\ arrived = FALSE

Enqueue(c) == queue' = Append(queue, c) /\ UNCHANGED <<current, arrived>>

Begin ==
    /\ current = None
    /\ queue # <<>>
    /\ current' = Head(queue)
    /\ queue' = Tail(queue)
    /\ UNCHANGED arrived

Arrive ==
    /\ current # None
    /\ arrived' = TRUE
    /\ UNCHANGED <<queue, current>>

Finish ==
    /\ current # None
    /\ arrived
    /\ current' = None
    /\ arrived' = FALSE
    /\ UNCHANGED queue

Next == (\E c \in Command : Enqueue(c)) \/ Begin \/ Arrive \/ Finish

Spec == Init /\ [][Next]_vars
===============================================================================
