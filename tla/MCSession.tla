------------------------------ MODULE MCSession -------------------------------
(***************************************************************************)
(* Small instances of Session for TLC: two or three runs, of one sender    *)
(* process or of two, and a receiver that may be started twice.            *)
(***************************************************************************)
EXTENDS Session, TLC

CONSTANTS r1, r2, r3, a1, a2, f1

OneApp == [c \in Runs |-> a1]
TwoApps == [c \in Runs |-> IF c = r1 THEN a1 ELSE a2]

\* Files of one name; texts and a file; a text and an unknown type.
BothFiles == [c \in Runs |-> "file"]
TextAndFile == [c \in Runs |-> IF c = r2 THEN "file" ELSE "text"]
TextAndOther == (r1 :> "text") @@ (r2 :> "other")
SameName == [c \in Runs |-> f1]

\* Which signed or sealed parts arrive altered.
NoDamage == {}
HandshakesDamaged == {<<r2, "reply">>, <<r3, "hello">>}
VaultDamaged == {<<r1, "vault">>}
===============================================================================
