------------------------------ MODULE FrameFifo -------------------------------
(***************************************************************************)
(* What framing.py promises of one direction of a connection, and what     *)
(* module Transport takes for granted: the receiver takes whole items in   *)
(* the order they were sent, and of an item broken off by the closing of   *)
(* the connection nothing.                                                 *)
(***************************************************************************)
EXTENDS Naturals

CONSTANT Size  \* items the sender has to send

VARIABLES
    put,     \* items sent, the one under way included
    took,    \* items the receiver has
    closed,  \* the sender's end is closed
    ending   \* what the receiver was told: nothing yet, the end, or a failure

vars == <<put, took, closed, ending>>

Init == put = 0 /\ took = 0 /\ closed = FALSE /\ ending = "none"

Put ==
    /\ ~closed
    /\ put < Size
    /\ put' = put + 1
    /\ UNCHANGED <<took, closed, ending>>

Take ==
    /\ ending = "none"
    /\ took < put
    /\ took' = took + 1
    /\ UNCHANGED <<put, closed, ending>>

\* The connection closes, and the last item may be broken off.
Close ==
    /\ ~closed
    /\ closed' = TRUE
    /\ put' \in {put, put - 1} \cap took..put
    /\ UNCHANGED <<took, ending>>

\* The receiver is told of the end only when it has taken everything.
End ==
    /\ ending = "none"
    /\ closed
    /\ took = put
    /\ ending' = "end"
    /\ UNCHANGED <<put, took, closed>>

\* A time-out, or a reset.
Fail ==
    /\ ending = "none"
    /\ ending' = "failed"
    /\ UNCHANGED <<put, took, closed>>

Next == Put \/ Take \/ Close \/ End \/ Fail

Spec == Init /\ [][Next]_vars
===============================================================================
