-------------------------------- MODULE Server --------------------------------
(***************************************************************************)
(* The receiver: runServer and handleConnection in                         *)
(* src/communication/server.py, one connection at a time in one thread.    *)
(*                                                                         *)
(* The sender generates an Ed25519 key in every call of runClient, so the  *)
(* fingerprint the receiver sees names the run.  The receiver generates    *)
(* its key once per start: the n-th start has key n.                       *)
(***************************************************************************)
EXTENDS Transport

CONSTANTS
    ServerSkips,   \* security.skipSasVerification in the receiver's config
    HeaderChunks,  \* chunks that hold the payload's length and JSON header
    Meta,          \* the type each run's metadata gives
    NameOf,        \* the file name each run's metadata gives, sanitised
    Names,
    NoChunkSize,   \* starts whose config has no crypto.maxChunkSize
    MaxStarts      \* bound of the model: times the receiver is started

ASSUME ServerAssumption ==
    /\ ServerSkips \in BOOLEAN
    /\ HeaderChunks \in 1..Chunks
    /\ Meta \in [Runs -> {"text", "file", "other"}]
    /\ NameOf \in [Runs -> Names]
    /\ MaxStarts \in Nat \ {0}
    /\ NoChunkSize \subseteq 1..MaxStarts

VARIABLES
    sPc,       \* where the receiver is in runServer and handleConnection
    sConn,     \* the run it serves, NoRun when it waits in accept()
    identity,  \* its Ed25519 key (0 before the first start)
    sTrusted,  \* the sender keys in its _trustedFingerprints
    sIntact,   \* the hello frames read so far are what the sender signed
    rcvd,      \* cipherChunks of the connection
    displayed, \* runs whose words it has shown
    delivered, \* the chunks of each run it handed to its user
    disk       \* the run whose payload each file holds (NoRun: none, or torn)

\* What the user gets, all but the place in the code, and everything.
outputs == <<displayed, delivered, disk>>
record == <<sConn, identity, sTrusted, sIntact, rcvd, outputs>>
server == <<sPc, record>>

\* The items the receiver expects at the places where it reads a frame.
ReadsAt == [hello1 |-> "identity", hello2 |-> "x25519", hello3 |-> "signature"]
WritesAt == [reply1 |-> "identity", reply2 |-> "x25519", reply3 |-> "signature"]
ServerNext == [hello1 |-> "hello2", hello2 |-> "hello3", hello3 |-> "verify",
               reply1 |-> "reply2", reply2 |-> "reply3", reply3 |-> "sas"]

ServerReading == DOMAIN ReadsAt \cup {"drain", "confirm", "vault", "stream"}
ServerBusy == ServerReading \cup DOMAIN WritesAt \cup {"verify", "sas", "decrypt", "save"}
ServerPcs == ServerBusy \cup {"down", "accept"}

ServerTypeOK ==
    /\ sPc \in ServerPcs
    /\ sConn \in Runs \cup {NoRun}
    /\ (sConn = NoRun) <=> (sPc \notin ServerBusy)
    /\ identity \in 0..MaxStarts
    /\ sTrusted \subseteq Runs
    /\ sIntact \in BOOLEAN
    /\ rcvd \in Seq(Nat)
    /\ displayed \subseteq Runs
    /\ delivered \in [Runs -> Seq(Nat)]
    /\ disk \in [Names -> Runs \cup {NoRun}]

ServerInit ==
    /\ sPc = "down"
    /\ sConn = NoRun
    /\ identity = 0
    /\ sTrusted = {}
    /\ sIntact = TRUE
    /\ rcvd = <<>>
    /\ displayed = {}
    /\ delivered = [c \in Runs |-> <<>>]
    /\ disk = [f \in Names |-> NoRun]

Steps(from, to) == sPc = from /\ sPc' = to

\* handleConnection ends, by return or by exception, and runServer closes
\* the connection and accepts again.
Hangup ==
    /\ sPc' = "accept"
    /\ sConn' = NoRun
    /\ sOpen' = [sOpen EXCEPT ![sConn] = FALSE]
    /\ rcvd' = <<>>
    /\ UNCHANGED <<listening, backlog, s2c, cOpen, identity, sIntact>>

\* It ends with nothing to show for it, at once or on the item it reads.
Drops == Hangup /\ UNCHANGED <<c2s, sTrusted, outputs>>
DropsItem ==
    /\ c2s' = [c2s EXCEPT ![sConn] = Tail(@)]
    /\ Hangup
    /\ UNCHANGED <<sTrusted, outputs>>

-------------------------------------------------------------------------------

Start ==
    /\ Steps("down", "accept")
    /\ identity < MaxStarts
    /\ listening' = TRUE
    /\ identity' = identity + 1
    /\ UNCHANGED <<backlog, c2s, s2c, cOpen, sOpen>>
    /\ UNCHANGED <<sConn, sTrusted, sIntact, rcvd, outputs>>

\* Ctrl-C or a crash: every socket of the process closes, queued connections
\* included, and the fingerprints it remembered are gone.
Stop ==
    /\ sPc # "down"
    /\ sPc' = "down"
    /\ sConn' = NoRun
    /\ sTrusted' = {}
    /\ rcvd' = <<>>
    /\ listening' = FALSE
    /\ backlog' = <<>>
    /\ sOpen' = [c \in Runs |-> FALSE]
    /\ UNCHANGED <<c2s, s2c, cOpen, identity, sIntact, outputs>>

Accept ==
    /\ Steps("accept", "hello1")
    /\ backlog # <<>>
    /\ sConn' = Head(backlog)
    /\ backlog' = Tail(backlog)
    /\ sIntact' = TRUE
    /\ UNCHANGED <<listening, c2s, s2c, cOpen, sOpen>>
    /\ UNCHANGED <<identity, sTrusted, rcvd, outputs>>

RecvHello ==
    /\ sPc \in DOMAIN ReadsAt
    /\ ServerTakes(sConn)
    /\ sIntact' = /\ sIntact
                  /\ Head(c2s[sConn]).kind = ReadsAt[sPc]
                  /\ Head(c2s[sConn]).intact
    /\ sPc' = ServerNext[sPc]
    /\ UNCHANGED <<sConn, identity, sTrusted, rcvd, outputs>>

AcceptHello == Steps("verify", "reply1") /\ sIntact /\ UNCHANGED <<net, record>>

\* deserializePublicKey or verifySignature raises.
RefuseHello == sPc = "verify" /\ ~sIntact /\ Drops

SendReply ==
    /\ sPc \in DOMAIN WritesAt
    /\ LET kind == WritesAt[sPc] IN
       ServerPuts(sConn,
          CASE kind = "identity"  -> Item(kind, identity)
            [] kind = "x25519"    -> Item(kind, 0)
            [] kind = "signature" -> Guarded(sConn, "reply", kind))
    /\ sPc' = ServerNext[sPc]
    /\ UNCHANGED record

-------------------------------------------------------------------------------

\* Mutants: the byte is not drained; the confirmation is not read.
SasThenUndrained == [unseen |-> "vault", shown |-> "confirm"]
SasThenUnread    == [unseen |-> "drain", shown |-> "vault"]

SasThen == [unseen |-> "drain", shown |-> "confirm"]

\* The words are not shown: by configuration, or for a sender in the cache.
SkipSas ==
    /\ Steps("sas", SasThen.unseen)
    /\ ServerSkips \/ sConn \in sTrusted
    /\ UNCHANGED <<net, record>>

ShowSas ==
    /\ Steps("sas", SasThen.shown)
    /\ ~ServerSkips
    /\ sConn \notin sTrusted
    /\ displayed' = displayed \cup {sConn}
    /\ UNCHANGED <<net, sConn, identity, sTrusted, sIntact, rcvd, delivered, disk>>

\* conn.recv(1) with its result ignored: any byte will do, and so will none.
DrainByte == Steps("drain", "vault") /\ ServerTakes(sConn) /\ UNCHANGED record
DrainEof == Steps("drain", "vault") /\ ServerAtEof(sConn) /\ UNCHANGED <<net, record>>

\* Mutant: the value of the byte is not looked at.
ApprovesAlways(f) == TRUE

Approves(f) == f.kind = "approve"

RecvConfirm ==
    /\ Steps("confirm", "vault")
    /\ ServerTakes(sConn)
    /\ Approves(Head(c2s[sConn]))
    /\ sTrusted' = sTrusted \cup {sConn}
    /\ UNCHANGED <<sConn, identity, sIntact, rcvd, outputs>>

RecvReject ==
    /\ sPc = "confirm"
    /\ c2s[sConn] # <<>>
    /\ ~Approves(Head(c2s[sConn]))
    /\ DropsItem

-------------------------------------------------------------------------------

\* Mutant: the tag is not checked.
OpensAnyVault(f) == f.kind = "vault"

\* VAULT_TOTAL_LEN and the AES-GCM tag are right.
OpensVault(f) == f.kind = "vault" /\ f.intact

\* StreamCipher gets config["crypto"]["maxChunkSize"], which may not be there.
CanDecrypt == identity \notin NoChunkSize

RecvVault ==
    /\ Steps("vault", "stream")
    /\ ServerTakes(sConn)
    /\ OpensVault(Head(c2s[sConn])) /\ CanDecrypt
    /\ UNCHANGED record

\* A vault that does not open, or the KeyError.
RefuseVault ==
    /\ sPc = "vault"
    /\ c2s[sConn] # <<>>
    /\ ~(OpensVault(Head(c2s[sConn])) /\ CanDecrypt)
    /\ DropsItem

RecvChunk ==
    /\ sPc = "stream"
    /\ ServerTakes(sConn)
    /\ Head(c2s[sConn]).kind # "end"
    /\ rcvd' = Append(rcvd, Head(c2s[sConn]).n)
    /\ UNCHANGED <<sPc, sConn, identity, sTrusted, sIntact, outputs>>

RecvEnd ==
    /\ Steps("stream", "decrypt")
    /\ ServerTakes(sConn)
    /\ Head(c2s[sConn]).kind = "end"
    /\ UNCHANGED record

\* recvFramed returns None: the loop ends as if __END__ had come.
StreamEof == Steps("stream", "decrypt") /\ ServerAtEof(sConn) /\ UNCHANGED <<net, record>>

\* Mutant: the file is opened before the header is read.
HeaderUnread == TRUE

\* decrypt and unpackPayload succeed once the header is whole: the rest of
\* the payload is whatever has arrived.
HeaderWhole == Len(rcvd) >= HeaderChunks

Delivers ==
    /\ delivered' = [delivered EXCEPT ![sConn] = rcvd]
    /\ Hangup
    /\ UNCHANGED <<c2s, sTrusted, displayed>>

DeliverText ==
    /\ sPc = "decrypt"
    /\ HeaderWhole
    /\ Meta[sConn] = "text"
    /\ Delivers
    /\ UNCHANGED disk

\* open(savePath, "wb") empties a file of the same name.
OpenFile ==
    /\ Steps("decrypt", "save")
    /\ HeaderWhole
    /\ Meta[sConn] = "file"
    /\ disk' = [disk EXCEPT ![NameOf[sConn]] = NoRun]
    /\ UNCHANGED <<net, sConn, identity, sTrusted, sIntact, rcvd, displayed, delivered>>

SaveFile ==
    /\ sPc = "save"
    /\ disk' = [disk EXCEPT ![NameOf[sConn]] = sConn]
    /\ Delivers

\* A broken payload, a type that is neither, or a disk that refuses the file.
DropPayload ==
    /\ sPc \in {"decrypt", "save"}
    /\ sPc = "decrypt" => ~HeaderWhole \/ Meta[sConn] # "text"
    /\ Drops

-------------------------------------------------------------------------------

\* recv raises (time-out, reset), or gives no item where one is needed.
ServerRecvFails ==
    /\ sPc \in ServerReading
    /\ \/ ServerTimesOut(sConn)
       \/ ServerReset(sConn)
       \/ sPc \notin {"drain", "stream"} /\ ServerAtEof(sConn)
    /\ Drops

\* sendall raises: the sender has closed its end.
ServerSendFails == sPc \in DOMAIN WritesAt /\ ~cOpen[sConn] /\ Drops

\* What the receiver does by itself while it runs.
ServerWork ==
    \/ Accept \/ RecvHello \/ AcceptHello \/ RefuseHello \/ SendReply
    \/ SkipSas \/ ShowSas \/ DrainByte \/ DrainEof \/ RecvConfirm \/ RecvReject
    \/ RecvVault \/ RefuseVault \/ RecvChunk \/ RecvEnd \/ StreamEof
    \/ DeliverText \/ OpenFile \/ SaveFile \/ DropPayload
    \/ ServerRecvFails \/ ServerSendFails

ServerEnv == Start \/ Stop
===============================================================================
