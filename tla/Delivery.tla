------------------------------- MODULE Delivery -------------------------------
(***************************************************************************)
(* What ASSP promises of each transmission, without the protocol: how a    *)
(* call of runClient ends on the sender's side, and what the receiver      *)
(* hands to its user.                                                      *)
(*                                                                         *)
(*   - A transmission is handed over at most once.                         *)
(*   - While the sender runs, and after it reported success, the receiver  *)
(*     hands over the whole payload or nothing.                            *)
(*   - A part of a payload appears only after the sender failed or died.   *)
(*   - A transmission its user refused hands over nothing and never        *)
(*     succeeds.                                                           *)
(*                                                                         *)
(* It does not promise that a success was delivered: the program has no    *)
(* acknowledgement.                                                        *)
(***************************************************************************)
EXTENDS Naturals

CONSTANTS
    Transmissions,
    Size           \* parts of a payload, a positive number

VARIABLES
    status,  \* what the sender knows: pending, success, failed, died
    got,     \* parts handed to the receiver's user (0: nothing)
    refused  \* transmissions whose user turned the receiver down

Init ==
    /\ status = [t \in Transmissions |-> "pending"]
    /\ got = [t \in Transmissions |-> 0]
    /\ refused = {}

Refuse(t) ==
    /\ status[t] = "pending"
    /\ got[t] = 0
    /\ refused' = refused \cup {t}
    /\ UNCHANGED <<status, got>>

Succeed(t) ==
    /\ status[t] = "pending"
    /\ t \notin refused
    /\ status' = [status EXCEPT ![t] = "success"]
    /\ UNCHANGED <<got, refused>>

\* The sender reports a failure only of what is not delivered yet.
Fail(t) ==
    /\ status[t] = "pending"
    /\ got[t] = 0
    /\ status' = [status EXCEPT ![t] = "failed"]
    /\ UNCHANGED <<got, refused>>

\* A process takes all its pending transmissions with it.
Die(T) ==
    /\ \A t \in T : status[t] = "pending"
    /\ status' = [t \in Transmissions |-> IF t \in T THEN "died" ELSE status[t]]
    /\ UNCHANGED <<got, refused>>

Deliver(t, n) ==
    /\ got[t] = 0
    /\ t \notin refused
    /\ status[t] \in {"pending", "success"} => n = Size
    /\ got' = [got EXCEPT ![t] = n]
    /\ UNCHANGED <<status, refused>>

Next ==
    \/ \E t \in Transmissions : Refuse(t) \/ Succeed(t) \/ Fail(t)
    \/ \E T \in SUBSET Transmissions : Die(T)
    \/ \E t \in Transmissions, n \in 1..Size : Deliver(t, n)

Spec == Init /\ [][Next]_<<status, got, refused>>
===============================================================================
