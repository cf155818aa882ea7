--------------------------------- MODULE Call ---------------------------------
(***************************************************************************)
(* A call of runClient as its caller sees it: it may ask its user once, it *)
(* succeeds only when the receiver is verified, and while it waits for the *)
(* user nothing but his answer, or the end of the process, moves it.       *)
(*                                                                         *)
(* Module Session implements it and module Bridge is built on it, so what  *)
(* the window is shown to do rests on what the protocol does.              *)
(***************************************************************************)

CONSTANT Callers

VARIABLES
    at,      \* where each call is: running, asking, verified, refused, returned, dead
    outcome  \* what it returned

Init ==
    /\ at = [t \in Callers |-> "running"]
    /\ outcome = [t \in Callers |-> "none"]

Moves(t, from, to) == at[t] = from /\ at' = [at EXCEPT ![t] = to]

Returns(t, from, r) ==
    /\ Moves(t, from, "returned")
    /\ outcome' = [outcome EXCEPT ![t] = r]

Ask(t) == Moves(t, "running", "asking") /\ UNCHANGED outcome

\* The answer, taken while the call waits for it.
Approved(t) == Moves(t, "asking", "verified") /\ UNCHANGED outcome
Rejected(t) == Moves(t, "asking", "refused") /\ UNCHANGED outcome

\* The receiver was verified before, or its verification is skipped.
Known(t) == Moves(t, "running", "verified") /\ UNCHANGED outcome

Succeed(t) == Returns(t, "verified", "success")
Fail(t) == \E from \in {"running", "verified", "refused"} : Returns(t, from, "failed")

\* The process of the calls in T ends.
Die(T) ==
    /\ \A t \in T : at[t] # "returned"
    /\ at' = [t \in Callers |-> IF t \in T THEN "dead" ELSE at[t]]
    /\ UNCHANGED outcome

Step(t) == Ask(t) \/ Approved(t) \/ Rejected(t) \/ Known(t) \/ Succeed(t) \/ Fail(t)

Next == (\E t \in Callers : Step(t)) \/ (\E T \in SUBSET Callers : Die(T))

Spec == Init /\ [][Next]_<<at, outcome>>
===============================================================================
