------------------------------- MODULE Session --------------------------------
(***************************************************************************)
(* The sender's runs and the receiver together, over the connections       *)
(* between them.                                                           *)
(***************************************************************************)
EXTENDS Client, Server

vars == <<net, client, server>>

Init == TransportInit /\ ClientInit /\ ServerInit

ServerStep == ServerWork /\ UNCHANGED client
ClientStep(c) == ClientWork(c) /\ UNCHANGED server

Next ==
    \/ \E c \in Runs : ClientStep(c)
    \/ ClientEnv /\ UNCHANGED server
    \/ ServerStep
    \/ ServerEnv /\ UNCHANGED client

Spec == Init /\ [][Next]_vars

(***************************************************************************)
(* Fairness.  The receiver is one thread that never waits without a        *)
(* time-out: recv and send have timeoutSeconds and accept one second.  A   *)
(* run, once connected, waits without a time-out only for its user.  When  *)
(* a user answers, runs are started, a process is stopped or restarted is  *)
(* outside the program and has no fairness.                                *)
(***************************************************************************)
Fairness == WF_vars(ServerStep) /\ \A c \in Runs : WF_vars(ClientStep(c))

FairSpec == Spec /\ Fairness

-------------------------------------------------------------------------------
(* Safety                                                                   *)

\* Every variable has the values the code gives it.
TypeOK == TransportTypeOK /\ ClientTypeOK /\ ServerTypeOK

\* What the receiver finds at the head of the connection when it next reads.
\* The confirmation is a bare byte between length-prefixed frames: one byte
\* read too few or too many and every later frame is misread.
Expected(pc) ==
    CASE pc = "hello1" -> {"identity"}
      [] pc = "hello2" -> {"x25519"}
      [] pc = "hello3" -> {"signature"}
      [] pc \in {"drain", "confirm"} -> {"approve", "reject"}
      [] pc = "vault" -> {"vault"}
      [] pc = "stream" -> {"chunk", "end"}
      [] OTHER -> Kinds

\* The receiver reads every item as what the sender sent it as, whichever
\* branch of the SAS step each side took (client.py:86-108, server.py:125-143),
\* and the chunks of a payload in order.
InStep ==
    sConn # NoRun /\ c2s[sConn] # <<>> =>
        LET f == Head(c2s[sConn]) IN
        /\ f.kind \in Expected(sPc)
        /\ sPc = "stream" /\ f.kind = "chunk" => f.n = Len(rcvd) + 1

\* A run of process a checked the signature of receiver k, and its user approved.
Vouched(a, k) == \E d \in Runs : /\ AppOf[d] = a
                                 /\ peer[d] = k
                                 /\ cIntact[d]
                                 /\ verdict[d] = "approved"

\* A run whose config asks for SAS sends its seed only to a receiver whose
\* signature it checked and whose key the user of the same process approved,
\* in this run or in an earlier one (client.py:75, 86-108).
VaultNeedsVerifiedPeer ==
    \A c \in Runs : cPc[c] \in {"vault", "stream", "finish"} /\ AppOf[c] \notin ClientSkips =>
        Vouched(AppOf[c], peer[c])

\* Nothing of a run that its user rejected, or whose signatures or sealed seed
\* arrived altered, reaches the receiver's user, not even when the receiver
\* ignores the confirmation byte (server.py:100-106, 125-131, 159-165).
RefusedNeverDelivered ==
    \A c \in Runs :
        /\ verdict[c] = "rejected" => delivered[c] = <<>> /\ sent[c] = 0
        /\ c \in {p[1] : p \in Damaged} => delivered[c] = <<>>

\* The receiver hands over a prefix of what the sender sent, in order, and all
\* of it when the sender reported success (server.py:172-179, client.py:149).
DeliveredIsPrefix ==
    \A c \in Runs : delivered[c] # <<>> =>
        /\ \A i \in 1..Len(delivered[c]) : delivered[c][i] = i
        /\ Len(delivered[c]) <= sent[c]
        /\ result[c] = "success" => Len(delivered[c]) = Chunks

\* A sender that the receiver remembers confirmed to this very start of it, whose
\* signature it had checked; and, unless its config skips SAS, a user of its process
\* had approved that key, whether or not the process came to remember it, or died
\* between the byte and that (server.py:137-143, client.py:75, 86-107).
SenderTrustIsEarned ==
    \A c \in sTrusted :
        /\ cIntact[c] /\ peer[c] = identity
        /\ AppOf[c] \in ClientSkips \/ Vouched(AppOf[c], identity)

\* A file the receiver reported as saved is lost only to a later payload that
\* gives the same name (server.py:189-197).
FileLostOnlyToNamesake ==
    \A c \in Runs : delivered[c] # <<>> /\ Meta[c] = "file" =>
        \/ disk[NameOf[c]] = c
        \/ \E d \in Runs \ {c} : /\ Meta[d] = "file"
                                 /\ NameOf[d] = NameOf[c]
                                 /\ sent[d] >= HeaderChunks

\* The system implements the contract of module Delivery.
Contract == INSTANCE Delivery WITH
    Transmissions <- Runs,
    Size <- Chunks,
    status <- [c \in Runs |-> IF cPc[c] = "dead" THEN "died"
                              ELSE IF result[c] = "none" THEN "pending" ELSE result[c]],
    got <- [c \in Runs |-> Len(delivered[c])],
    refused <- {c \in Runs : verdict[c] = "rejected"}
ContractSpec == Contract!Spec

\* A run is, for its caller, the call of module Call on which the window is built
\* (main.py:61-69): above all, nothing but the answer ends its wait for the user,
\* not even a receiver that has given up (client.py:86-108, 151-155).
AsCall(c) ==
    CASE cPc[c] = "ask" -> "asking"
      [] cPc[c] = "done" -> "returned"
      [] cPc[c] = "dead" -> "dead"
      [] cPc[c] \in {"confirm", "approve", "pin", "vault", "stream", "finish"} -> "verified"
      [] cPc[c] = "refuse" /\ verdict[c] = "rejected" -> "refused"
      [] OTHER -> "running"
CallOf == INSTANCE Call WITH
    Callers <- Runs,
    at <- [c \in Runs |-> AsCall(c)],
    outcome <- result
CallSpec == CallOf!Spec

-------------------------------------------------------------------------------
(* Liveness                                                                 *)

\* The receiver serves one connection at a time, and gives up every connection
\* in the end, so a silent or undecided sender cannot hold the others off for
\* ever (server.py:60-76, conn.settimeout in 84).
ConnectionEnds ==
    \A c \in Runs : sConn = c \/ (\E i \in 1..Len(backlog) : backlog[i] = c) ~> ~sOpen[c]

\* A connected run returns (or its process ends) unless it waits for its user, and
\* does so once he has answered: no receiver, gone or stuck, can hold it
\* (client.py:39, 49-155).
RunEnds == \A c \in Runs : cPc[c] # "idle" ~> cPc[c] \in ClientEnded \cup {"ask"}

-------------------------------------------------------------------------------
(* What the repository says and the program does not do                     *)

\* The window of the sender reports a finished run as a file received and saved
\* by the receiver (app.js:321-323); runClient reports success after its last
\* send, with no acknowledgement (client.py:145-149).
SuccessIsReceived == \A c \in Runs : result[c] = "success" ~> delivered[c] # <<>>

\* "Allows repeated connections from the same peer during a single run to skip the
\* SAS step" (known_servers.py:4-6), and the receiver has the branch for it
\* (server.py:129-131); but runClient makes the key that names it anew in every call
\* (client.py:36), so the receiver shows words to a process that it remembers.
RepeatSkipsSas == sPc = "confirm" => \A c \in sTrusted : AppOf[c] # AppOf[sConn]

\* The sentinel __END__ signals the end of the stream (Algorithm Workflow.md:516,
\* client.py:144); the receiver takes a closed connection for it (server.py:175).
OnlyEndEndsStream == \A c \in Runs : delivered[c] # <<>> => Len(delivered[c]) = Chunks
===============================================================================
