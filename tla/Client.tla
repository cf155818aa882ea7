-------------------------------- MODULE Client --------------------------------
(***************************************************************************)
(* The sender: runClient in src/communication/client.py.                   *)
(*                                                                         *)
(* A run belongs to one sender process, which keeps the fingerprints of    *)
(* the receivers its user has verified (src/crypto/known_servers.py).      *)
(* Several runs of a process may overlap: runClient takes no lock.         *)
(***************************************************************************)
EXTENDS Transport

CONSTANTS
    Apps,         \* sender processes
    AppOf,        \* the process of each run
    ClientSkips,  \* processes whose config has security.skipSasVerification
    HasPrompt     \* processes whose callers pass an askSas callback

ASSUME ClientAssumption ==
    /\ AppOf \in [Runs -> Apps]
    /\ ClientSkips \subseteq Apps
    /\ HasPrompt \subseteq Apps

VARIABLES
    cPc,      \* where each run is in runClient
    cIntact,  \* the reply frames read so far are what the receiver signed
    peer,     \* the receiver key read from the reply (0: none yet)
    trusted,  \* per process, the receiver keys in _trustedFingerprints
    verdict,  \* what the user answered to the run's SAS prompt
    sent,     \* chunks of the run handed to the socket
    result    \* what runClient returned

\* What the run and its process know, and all that the sender keeps.
facts == <<cIntact, peer, trusted, verdict>>
client == <<cPc, facts, sent, result>>

HelloAt == [hello1 |-> "identity", hello2 |-> "x25519", hello3 |-> "signature"]
ReplyAt == [reply1 |-> "identity", reply2 |-> "x25519", reply3 |-> "signature"]

\* The place after each send or receive that simply moves on.
ClientNext == [hello1 |-> "hello2", hello2 |-> "hello3", hello3 |-> "reply1",
               reply1 |-> "reply2", reply2 |-> "reply3", reply3 |-> "verify"]

ClientSending == {"hello1", "hello2", "hello3", "confirm", "approve", "refuse",
                  "vault", "stream"}
ClientPcs == ClientSending \cup
    {"idle", "reply1", "reply2", "reply3", "verify", "ask", "pin", "finish", "done", "dead"}
ClientEnded == {"done", "dead"}

ClientTypeOK ==
    /\ cPc \in [Runs -> ClientPcs]
    /\ cIntact \in [Runs -> BOOLEAN]
    /\ peer \in [Runs -> Nat]
    /\ trusted \in [Apps -> SUBSET Nat]
    /\ verdict \in [Runs -> {"none", "approved", "rejected"}]
    /\ sent \in [Runs -> 0..Chunks]
    /\ result \in [Runs -> {"none", "success", "failed"}]

ClientInit ==
    /\ cPc = [c \in Runs |-> "idle"]
    /\ cIntact = [c \in Runs |-> TRUE]
    /\ peer = [c \in Runs |-> 0]
    /\ trusted = [a \in Apps |-> {}]
    /\ verdict = [c \in Runs |-> "none"]
    /\ sent = [c \in Runs |-> 0]
    /\ result = [c \in Runs |-> "none"]

Goto(c, pc) == cPc' = [cPc EXCEPT ![c] = pc]
Moves(c, from, to) == cPc[c] = from /\ Goto(c, to)

\* return, and the finally clause that closes the socket.
Returns(c, r) ==
    /\ Goto(c, "done")
    /\ result' = [result EXCEPT ![c] = r]
    /\ cOpen' = [cOpen EXCEPT ![c] = FALSE]

\* It returns without having sent or learnt anything more.
Leaves(c, r) ==
    /\ Returns(c, r)
    /\ UNCHANGED <<listening, backlog, c2s, s2c, sOpen, facts, sent>>

-------------------------------------------------------------------------------

Connect(c) ==
    /\ Moves(c, "idle", "hello1")
    /\ CanConnect
    /\ backlog' = Append(backlog, c)
    /\ cOpen' = [cOpen EXCEPT ![c] = TRUE]
    /\ sOpen' = [sOpen EXCEPT ![c] = TRUE]
    /\ UNCHANGED <<listening, c2s, s2c, facts, sent, result>>

\* Nobody listens, the queue is full, the time-out, the name of the host.
ConnectFails(c) == cPc[c] = "idle" /\ Leaves(c, "failed")

\* The three frames of the handshake, the signature over the session key last.
SendHello(c) ==
    /\ cPc[c] \in DOMAIN HelloAt
    /\ LET kind == HelloAt[cPc[c]] IN
       ClientPuts(c, IF kind = "signature" THEN Guarded(c, "hello", kind) ELSE Item(kind, 0))
    /\ Goto(c, ClientNext[cPc[c]])
    /\ UNCHANGED <<cOpen, facts, sent, result>>

RecvReply(c) ==
    /\ cPc[c] \in DOMAIN ReplyAt
    /\ ClientTakes(c)
    /\ LET f == Head(s2c[c]) IN
       /\ peer' = [peer EXCEPT ![c] = IF cPc[c] = "reply1" THEN f.n ELSE @]
       /\ cIntact' = [cIntact EXCEPT ![c] = @ /\ f.kind = ReplyAt[cPc[c]] /\ f.intact]
    /\ Goto(c, ClientNext[cPc[c]])
    /\ UNCHANGED <<trusted, verdict, sent, result>>

\* verifySignature raises.
RefuseReply(c) == cPc[c] = "verify" /\ ~cIntact[c] /\ Leaves(c, "failed")

\* Mutant: a process that has verified one receiver trusts every other.
TrustsAny(c) == trusted[AppOf[c]] # {}

IsTrusted(c) == peer[c] \in trusted[AppOf[c]]

\* Mutant: the signature of the reply is not looked at.
AcceptUnchecked(c) ==
    /\ Moves(c, "verify", IF AppOf[c] \in ClientSkips \/ IsTrusted(c) THEN "confirm"
                          ELSE IF AppOf[c] \in HasPrompt THEN "ask" ELSE "refuse")
    /\ UNCHANGED <<net, facts, sent, result>>

\* The signature holds: derive the key and choose the branch of the SAS step.
\* Without an askSas callback the words count as not approved.
AcceptReply(c) ==
    /\ cIntact[c]
    /\ Moves(c, "verify", IF AppOf[c] \in ClientSkips \/ IsTrusted(c) THEN "confirm"
                          ELSE IF AppOf[c] \in HasPrompt THEN "ask" ELSE "refuse")
    /\ UNCHANGED <<net, facts, sent, result>>

\* The user answers whenever he likes: askSas blocks without a time-out.
UserAnswers(c, v) ==
    /\ Moves(c, "ask", IF v = "approved" THEN "approve" ELSE "refuse")
    /\ verdict' = [verdict EXCEPT ![c] = v]
    /\ UNCHANGED <<net, cIntact, peer, trusted, sent, result>>

\* The SAS step was skipped or the receiver is in the cache.
Confirm(c) ==
    /\ Moves(c, "confirm", "vault")
    /\ ClientPuts(c, Item("approve", 0))
    /\ UNCHANGED <<cOpen, facts, sent, result>>

\* The user approved: confirm, and only then remember the receiver, which may
\* by now have read the byte, or be gone.
Approve(c) ==
    /\ Moves(c, "approve", "pin")
    /\ ClientPuts(c, Item("approve", 0))
    /\ UNCHANGED <<cOpen, facts, sent, result>>

Pin(c) ==
    /\ Moves(c, "pin", "vault")
    /\ trusted' = [trusted EXCEPT ![AppOf[c]] = @ \cup {peer[c]}]
    /\ UNCHANGED <<net, cIntact, peer, verdict, sent, result>>

Refuse(c) ==
    /\ cPc[c] = "refuse"
    /\ ClientPuts(c, Item("reject", 0))
    /\ Returns(c, "failed")
    /\ UNCHANGED <<facts, sent>>

SendVault(c) ==
    /\ Moves(c, "vault", "stream")
    /\ ClientPuts(c, Guarded(c, "vault", "vault"))
    /\ UNCHANGED <<cOpen, facts, sent, result>>

\* Mutants: the loop makes one chunk too many; it stops one chunk early.
OneMore(c)  == sent[c] <= Chunks
OneLess(c)  == sent[c] < Chunks - 1

\* encryptStream has a chunk to yield.
HasChunk(c) == sent[c] < Chunks

SendChunk(c) ==
    /\ cPc[c] = "stream"
    /\ HasChunk(c)
    /\ ClientPuts(c, Item("chunk", sent[c] + 1))
    /\ sent' = [sent EXCEPT ![c] = @ + 1]
    /\ UNCHANGED <<cOpen, cPc, facts, result>>

SendEnd(c) ==
    /\ Moves(c, "stream", "finish")
    /\ ~HasChunk(c)
    /\ ClientPuts(c, Item("end", 0))
    /\ UNCHANGED <<cOpen, facts, sent, result>>

Finish(c) == cPc[c] = "finish" /\ Leaves(c, "success")

\* Mutant: askSas gives up, and the connection was lost meanwhile.
RecvFailsAsking(c) ==
    cPc[c] \in DOMAIN ReplyAt \cup {"ask"} /\ ClientRecvCanFail(c) /\ Leaves(c, "failed")

\* Any other exception in the try block: report failure, close.
ClientRecvFails(c) ==
    cPc[c] \in DOMAIN ReplyAt /\ ClientRecvCanFail(c) /\ Leaves(c, "failed")

ClientSendFails(c) ==
    cPc[c] \in ClientSending /\ ClientSendCanFail(c) /\ Leaves(c, "failed")

\* The process ends: the kernel closes the sockets of the runs it had.
AppExit(a) ==
    LET gone == {c \in Runs : AppOf[c] = a /\ cPc[c] \notin ClientEnded} IN
    /\ gone # {}
    /\ cPc' = [c \in Runs |-> IF c \in gone THEN "dead" ELSE cPc[c]]
    /\ cOpen' = [c \in Runs |-> cOpen[c] /\ c \notin gone]
    /\ UNCHANGED <<listening, backlog, c2s, s2c, sOpen, facts, sent, result>>

-------------------------------------------------------------------------------

\* What the run does by itself once it has started.
ClientWork(c) ==
    \/ SendHello(c) \/ RecvReply(c) \/ RefuseReply(c) \/ AcceptReply(c)
    \/ Confirm(c) \/ Approve(c) \/ Pin(c) \/ Refuse(c)
    \/ SendVault(c) \/ SendChunk(c) \/ SendEnd(c) \/ Finish(c)
    \/ ClientRecvFails(c) \/ ClientSendFails(c)

ClientEnv ==
    \/ \E c \in Runs : Connect(c) \/ ConnectFails(c)
    \/ \E c \in Runs, v \in {"approved", "rejected"} : UserAnswers(c, v)
    \/ \E a \in Apps : AppExit(a)
===============================================================================
