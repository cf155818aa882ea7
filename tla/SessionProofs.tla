---------------------------- MODULE SessionProofs -----------------------------
(***************************************************************************)
(* Theorems about module Session, for every set of runs and processes,     *)
(* every number of chunks, starts and queued connections, every damage and *)
(* every configuration of the two sides.                                   *)
(***************************************************************************)
EXTENDS Session, TLAPS

-------------------------------------------------------------------------------
(* Facts the provers need about the tables and about sequences.             *)

\* What either side sends is an item, whatever a fault does to it.
LEMMA ItemType ==
    ASSUME NEW kind \in Kinds
    PROVE  /\ \A n \in Nat : Item(kind, n) \in Items
           /\ \A c, part : Guarded(c, part, kind) \in Items
BY DEF Item, Guarded, Items

\* The tables of the sender's handshake hold steps and items that exist.
LEMMA ClientTables ==
    /\ DOMAIN HelloAt = {"hello1", "hello2", "hello3"}
    /\ DOMAIN ReplyAt = {"reply1", "reply2", "reply3"}
    /\ \A pc \in DOMAIN HelloAt : HelloAt[pc] \in Kinds
    /\ \A pc \in DOMAIN HelloAt \cup DOMAIN ReplyAt :
          ClientNext[pc] \in {"hello2", "hello3", "reply1", "reply2", "reply3", "verify"}
BY DEF HelloAt, ReplyAt, ClientNext, Kinds

\* So do the receiver's.
LEMMA ServerTables ==
    /\ DOMAIN ReadsAt = {"hello1", "hello2", "hello3"}
    /\ DOMAIN WritesAt = {"reply1", "reply2", "reply3"}
    /\ \A pc \in DOMAIN WritesAt : WritesAt[pc] \in {"identity", "x25519", "signature"}
    /\ \A pc \in DOMAIN ReadsAt \cup DOMAIN WritesAt :
          ServerNext[pc] \in {"hello2", "hello3", "verify", "reply2", "reply3", "sas"}
BY DEF ReadsAt, WritesAt, ServerNext, Kinds

\* For the sequences that a step empties.
LEMMA NothingIsSeq == ASSUME NEW S PROVE <<>> \in Seq(S)
OBVIOUS

\* The connections keep their types through each way of using them.
LEMMA PutsType ==
    ASSUME TransportTypeOK, NEW c \in Runs, NEW item \in Items
    PROVE  /\ ClientPuts(c, item) /\ cOpen' \in [Runs -> BOOLEAN] => TransportTypeOK'
           /\ ServerPuts(c, item) => TransportTypeOK'
<1>1. Append(c2s[c], item) \in Seq(Items) /\ Append(s2c[c], item) \in Seq(Items)
  BY DEF TransportTypeOK
<1>2. ASSUME ClientPuts(c, item), cOpen' \in [Runs -> BOOLEAN]
      PROVE  TransportTypeOK'
  BY <1>1, <1>2 DEF TransportTypeOK, ClientPuts
<1>3. ASSUME ServerPuts(c, item)
      PROVE  TransportTypeOK'
  BY <1>1, <1>3 DEF TransportTypeOK, ServerPuts
<1>4. QED
  BY <1>2, <1>3

\* What is read is an item.
LEMMA TakesType ==
    ASSUME TransportTypeOK, NEW c \in Runs
    PROVE  /\ ClientTakes(c) => TransportTypeOK' /\ Head(s2c[c]) \in Items
           /\ ServerTakes(c) => TransportTypeOK' /\ Head(c2s[c]) \in Items
<1>1. ASSUME ClientTakes(c)
      PROVE  TransportTypeOK' /\ Head(s2c[c]) \in Items
  <2>1. Head(s2c[c]) \in Items /\ Tail(s2c[c]) \in Seq(Items)
    BY <1>1 DEF TransportTypeOK, ClientTakes
  <2>2. QED
    BY <1>1, <2>1 DEF TransportTypeOK, ClientTakes
<1>2. ASSUME ServerTakes(c)
      PROVE  TransportTypeOK' /\ Head(c2s[c]) \in Items
  <2>1. Head(c2s[c]) \in Items /\ Tail(c2s[c]) \in Seq(Items)
    BY <1>2 DEF TransportTypeOK, ServerTakes
  <2>2. QED
    BY <1>2, <2>1 DEF TransportTypeOK, ServerTakes
<1>3. QED
  BY <1>1, <1>2

\* Every step of a run keeps the types of the sender and of the connections.
LEMMA ClientTypeStep ==
    ASSUME TransportTypeOK, ClientTypeOK, NEW c \in Runs, ClientWork(c)
    PROVE  TransportTypeOK' /\ ClientTypeOK'
<1> USE ClientAssumption, TransportAssumption DEF ClientTypeOK, Goto, Moves, facts
<1>1. CASE SendHello(c)
  <2>1. HelloAt[cPc[c]] \in Kinds /\ "signature" \in Kinds
    BY <1>1, ClientTables DEF SendHello, Kinds
  <2>2. PICK item \in Items : ClientPuts(c, item)
    BY <1>1, <2>1, ItemType DEF SendHello
  <2>3. cPc' \in [Runs -> ClientPcs]
    BY <1>1, ClientTables DEF SendHello, ClientPcs, ClientSending
  <2>4. QED
    BY <1>1, <2>2, <2>3, PutsType DEF SendHello, TransportTypeOK
<1>2. CASE RecvReply(c)
  <2>1. TransportTypeOK' /\ Head(s2c[c]) \in Items
    BY <1>2, TakesType DEF RecvReply
  <2>2. Head(s2c[c]).n \in Nat
    BY <2>1 DEF Items
  <2>3. cPc' \in [Runs -> ClientPcs]
    BY <1>2, ClientTables DEF RecvReply, ClientPcs, ClientSending
  <2>4. cIntact' \in [Runs -> BOOLEAN]
    BY <1>2 DEF RecvReply
  <2>5. QED
    BY <1>2, <2>1, <2>2, <2>3, <2>4 DEF RecvReply
<1>3. CASE RefuseReply(c) \/ Finish(c) \/ ClientRecvFails(c) \/ ClientSendFails(c)
  BY <1>3 DEF RefuseReply, Finish, ClientRecvFails, ClientSendFails, Leaves, Returns,
              TransportTypeOK, ClientPcs
<1>4. CASE AcceptReply(c)
  BY <1>4 DEF AcceptReply, TransportTypeOK, net, ClientPcs, ClientSending
<1>5. CASE Confirm(c) \/ Approve(c) \/ Refuse(c) \/ SendVault(c) \/ SendChunk(c) \/ SendEnd(c)
  <2>1. PICK item \in Items : ClientPuts(c, item)
    <3>1. /\ Item("approve", 0) \in Items
          /\ Item("reject", 0) \in Items
          /\ Guarded(c, "vault", "vault") \in Items
          /\ Item("chunk", sent[c] + 1) \in Items
          /\ Item("end", 0) \in Items
      BY ItemType DEF Kinds
    <3>2. QED
      BY <1>5, <3>1 DEF Confirm, Approve, Refuse, SendVault, SendChunk, SendEnd
  <2>2. TransportTypeOK'
    BY <1>5, <2>1, PutsType
    DEF Confirm, Approve, Refuse, SendVault, SendChunk, SendEnd, Returns, TransportTypeOK
  <2>3. CASE Confirm(c) \/ Approve(c) \/ Refuse(c)
    BY <2>2, <2>3 DEF Confirm, Approve, Refuse, Returns, ClientPcs, ClientSending
  <2>4. CASE SendVault(c) \/ SendChunk(c) \/ SendEnd(c)
    <3>1. CASE SendVault(c) \/ SendEnd(c)
      BY <2>2, <3>1 DEF SendVault, SendEnd, ClientPcs, ClientSending
    <3>2. CASE SendChunk(c)
      <4>1. sent[c] + 1 \in 0..Chunks
        BY <3>2 DEF SendChunk, HasChunk
      <4>2. QED
        BY <2>2, <3>2, <4>1 DEF SendChunk
    <3>3. QED
      BY <2>4, <3>1, <3>2
  <2>5. QED
    BY <1>5, <2>3, <2>4
<1>6. CASE Pin(c)
  <2>1. TransportTypeOK'
    BY <1>6 DEF Pin, net, TransportTypeOK
  <2>2. trusted' \in [Apps -> SUBSET Nat]
    BY <1>6 DEF Pin
  <2>3. QED
    BY <1>6, <2>1, <2>2 DEF Pin, ClientPcs, ClientSending
<1>7. QED
  BY <1>1, <1>2, <1>3, <1>4, <1>5, <1>6, ClientWork(c) DEF ClientWork

\* So do the users and the ends of processes.
LEMMA ClientEnvTypeStep ==
    ASSUME TransportTypeOK, ClientTypeOK, ClientEnv
    PROVE  TransportTypeOK' /\ ClientTypeOK'
<1> USE ClientAssumption DEF ClientTypeOK, TransportTypeOK, Goto, Moves, Leaves, Returns, facts
<1>1. ASSUME NEW c \in Runs, Connect(c) \/ ConnectFails(c)
      PROVE  TransportTypeOK' /\ ClientTypeOK'
  <2>1. Append(backlog, c) \in Seq(Runs)
    OBVIOUS
  <2>2. CASE Connect(c)
    BY <2>1, <2>2 DEF Connect, ClientPcs, ClientSending
  <2>3. CASE ConnectFails(c)
    BY <2>3 DEF ConnectFails, ClientPcs
  <2>4. QED
    BY <1>1, <2>2, <2>3
<1>2. ASSUME NEW c \in Runs, NEW v \in {"approved", "rejected"}, UserAnswers(c, v)
      PROVE  TransportTypeOK' /\ ClientTypeOK'
  BY <1>2 DEF UserAnswers, net, ClientPcs, ClientSending
<1>3. ASSUME NEW a \in Apps, AppExit(a)
      PROVE  TransportTypeOK' /\ ClientTypeOK'
  BY <1>3 DEF AppExit, ClientPcs
<1>4. QED
  BY <1>1, <1>2, <1>3, ClientEnv DEF ClientEnv

\* Closing the connection after a step that reads or not.
LEMMA HangupType ==
    ASSUME TransportTypeOK, ServerTypeOK, Hangup,
           c2s' \in [Runs -> Seq(Items)],
           UNCHANGED <<sTrusted, displayed>>,
           delivered' \in [Runs -> Seq(Nat)], disk' \in [Names -> Runs \cup {NoRun}]
    PROVE  TransportTypeOK' /\ ServerTypeOK'
<1>1. rcvd' \in Seq(Nat) /\ sPc' \notin ServerBusy
  BY NothingIsSeq, ServerTables DEF Hangup, ServerBusy, ServerReading
<1>2. sOpen' \in [Runs -> BOOLEAN]
  BY DEF Hangup, TransportTypeOK
<1>3. TransportTypeOK'
  BY <1>2 DEF Hangup, TransportTypeOK
<1>4. ServerTypeOK'
  BY <1>1 DEF Hangup, ServerTypeOK, ServerPcs
<1>5. QED
  BY <1>3, <1>4

\* Every step of the receiver keeps its types and those of the connections.
LEMMA ServerTypeStep ==
    ASSUME TransportTypeOK, ServerTypeOK, ServerWork
    PROVE  TransportTypeOK' /\ ServerTypeOK'
<1> USE TransportAssumption, ServerAssumption, ServerTables
    DEF ServerPcs, ServerBusy, ServerReading, Steps, record, outputs
<1>1. CASE Accept
  <2>1. Head(backlog) \in Runs /\ Tail(backlog) \in Seq(Runs)
    BY <1>1 DEF Accept, TransportTypeOK
  <2>2. QED
    BY <1>1, <2>1 DEF Accept, TransportTypeOK, ServerTypeOK
<1>2. CASE RecvHello \/ DrainByte \/ RecvConfirm \/ RecvVault \/ RecvChunk \/ RecvEnd
  <2>1. sConn \in Runs
    BY <1>2 DEF ServerTypeOK, RecvHello, DrainByte, RecvConfirm, RecvVault, RecvChunk, RecvEnd
  <2>2. TransportTypeOK' /\ Head(c2s[sConn]) \in Items
    BY <1>2, <2>1, TakesType
    DEF RecvHello, DrainByte, RecvConfirm, RecvVault, RecvChunk, RecvEnd
  <2>3. CASE RecvHello
    <3>1. sIntact' \in BOOLEAN
      BY <2>3 DEF RecvHello
    <3>2. QED
      BY <2>1, <2>2, <2>3, <3>1 DEF RecvHello, ServerTypeOK
  <2>4. CASE DrainByte \/ RecvConfirm \/ RecvVault \/ RecvEnd
    BY <2>1, <2>2, <2>4 DEF DrainByte, RecvConfirm, RecvVault, RecvEnd, ServerTypeOK
  <2>5. CASE RecvChunk
    <3>1. Append(rcvd, Head(c2s[sConn]).n) \in Seq(Nat)
      BY <2>2 DEF ServerTypeOK, Items
    <3>2. QED
      BY <2>1, <2>2, <2>5, <3>1 DEF RecvChunk, ServerTypeOK
  <2>6. QED
    BY <1>2, <2>3, <2>4, <2>5
<1>3. CASE SendReply
  <2>1. sConn \in Runs /\ identity \in Nat
    BY <1>3 DEF ServerTypeOK, SendReply
  <2>2. PICK item \in Items : ServerPuts(sConn, item)
    <3>1. WritesAt[sPc] \in {"identity", "x25519", "signature"}
      BY <1>3 DEF SendReply
    <3>2. {"identity", "x25519", "signature"} \subseteq Kinds
      BY DEF Kinds
    <3>3. QED
      BY <1>3, <2>1, <3>1, <3>2, ItemType DEF SendReply
  <2>3. TransportTypeOK'
    BY <2>1, <2>2, PutsType
  <2>4. QED
    BY <1>3, <2>1, <2>3 DEF SendReply, ServerTypeOK
<1>4. CASE AcceptHello \/ SkipSas \/ ShowSas \/ DrainEof \/ StreamEof
  <2>1. TransportTypeOK'
    BY <1>4 DEF AcceptHello, SkipSas, ShowSas, DrainEof, StreamEof, net, TransportTypeOK
  <2>2. QED
    BY <1>4, <2>1 DEF AcceptHello, SkipSas, ShowSas, SasThen, DrainEof, StreamEof, ServerTypeOK
<1>5. CASE OpenFile
  BY <1>5 DEF OpenFile, net, TransportTypeOK, ServerTypeOK
<1>6. CASE RecvReject \/ RefuseVault
  <2>1. sConn \in Runs
    BY <1>6 DEF ServerTypeOK, RecvReject, RefuseVault
  <2>2. Tail(c2s[sConn]) \in Seq(Items)
    BY <1>6, <2>1 DEF TransportTypeOK, RecvReject, RefuseVault
  <2>3. DropsItem
    BY <1>6 DEF RecvReject, RefuseVault
  <2>4. c2s' \in [Runs -> Seq(Items)]
    BY <2>2, <2>3 DEF TransportTypeOK, DropsItem
  <2>5. QED
    BY <2>3, <2>4, HangupType DEF ServerTypeOK, DropsItem
<1>7. CASE DeliverText \/ SaveFile
  <2>1. sConn \in Runs
    BY <1>7 DEF ServerTypeOK, DeliverText, SaveFile
  <2>2. /\ delivered' \in [Runs -> Seq(Nat)]
        /\ disk' \in [Names -> Runs \cup {NoRun}]
    <3>1. CASE DeliverText
      BY <2>1, <3>1 DEF ServerTypeOK, DeliverText, Delivers
    <3>2. CASE SaveFile
      BY <2>1, <3>2 DEF ServerTypeOK, SaveFile, Delivers
    <3>3. QED
      BY <1>7, <3>1, <3>2
  <2>3. /\ Hangup
        /\ UNCHANGED <<c2s, sTrusted, displayed>>
    BY <1>7 DEF DeliverText, SaveFile, Delivers
  <2>4. c2s' \in [Runs -> Seq(Items)]
    BY <2>3 DEF TransportTypeOK
  <2>5. QED
    BY <2>2, <2>3, <2>4, HangupType
<1>8. CASE RefuseHello \/ DropPayload \/ ServerRecvFails \/ ServerSendFails
  <2>1. Drops
    BY <1>8 DEF RefuseHello, DropPayload, ServerRecvFails, ServerSendFails
  <2>2. QED
    BY <2>1, HangupType DEF Drops, TransportTypeOK, ServerTypeOK
<1>9. QED
  BY <1>1, <1>2, <1>3, <1>4, <1>5, <1>6, <1>7, <1>8, ServerWork DEF ServerWork

\* The receiver may stop at any place and start again.
LEMMA ServerEnvTypeStep ==
    ASSUME TransportTypeOK, ServerTypeOK, ServerEnv
    PROVE  TransportTypeOK' /\ ServerTypeOK'
<1> USE TransportAssumption, ServerAssumption, ServerTables
    DEF TransportTypeOK, ServerTypeOK, ServerPcs, ServerBusy, ServerReading, Steps, outputs
<1>1. CASE Start
  BY <1>1 DEF Start
<1>2. CASE Stop
  BY <1>2, NothingIsSeq DEF Stop
<1>3. QED
  BY <1>1, <1>2, ServerEnv DEF ServerEnv

-------------------------------------------------------------------------------

\* Every variable of the system has, in every reachable state, a value of the
\* kind the code gives it; in particular the receiver serves a run exactly when
\* it is inside handleConnection, and no run sends more than its chunks.
THEOREM TypeCorrect == Spec => []TypeOK
<1>1. Init => TypeOK
  <2> SUFFICES ASSUME Init PROVE TypeOK
    OBVIOUS
  <2>1. TransportTypeOK
    BY NothingIsSeq DEF Init, TransportInit, TransportTypeOK
  <2>2. ClientTypeOK
    BY TransportAssumption DEF Init, ClientInit, ClientTypeOK, ClientPcs
  <2>3. ServerTypeOK
    BY NothingIsSeq, ServerAssumption, ServerTables
    DEF Init, ServerInit, ServerTypeOK, ServerPcs, ServerBusy, ServerReading
  <2>4. QED
    BY <2>1, <2>2, <2>3 DEF TypeOK
<1>2. TypeOK /\ [Next]_vars => TypeOK'
  <2> SUFFICES ASSUME TypeOK, [Next]_vars
               PROVE  TypeOK'
    OBVIOUS
  <2>1. UNCHANGED client => ClientTypeOK'
    BY DEF TypeOK, ClientTypeOK, client, facts
  <2>2. UNCHANGED server => ServerTypeOK'
    BY DEF TypeOK, ServerTypeOK, server, record, outputs
  <2>3. CASE \E c \in Runs : ClientStep(c)
    BY <2>2, <2>3, ClientTypeStep DEF TypeOK, ClientStep
  <2>4. CASE ClientEnv /\ UNCHANGED server
    BY <2>2, <2>4, ClientEnvTypeStep DEF TypeOK
  <2>5. CASE ServerStep
    BY <2>1, <2>5, ServerTypeStep DEF TypeOK, ServerStep
  <2>6. CASE ServerEnv /\ UNCHANGED client
    BY <2>1, <2>6, ServerEnvTypeStep DEF TypeOK
  <2>7. CASE UNCHANGED vars
    BY <2>1, <2>2, <2>7 DEF TypeOK, vars, net, TransportTypeOK
  <2>8. QED
    BY <2>3, <2>4, <2>5, <2>6, <2>7 DEF Next
<1>3. QED
  BY <1>1, <1>2, PTL DEF Spec

-------------------------------------------------------------------------------
(* The receiver never meets a sender it remembers.                          *)

Queued(c) == \E i \in 1..Len(backlog) : backlog[i] = c

\* The inductive invariant: a run is known, or served, or queued, only once it
\* has connected; a queued run is not known yet and is queued once; and the run
\* being served becomes known no sooner than its confirmation is read.
FreshSenders ==
    /\ \A c \in Runs : cPc[c] = "idle" => c \notin sTrusted /\ c # sConn /\ ~Queued(c)
    /\ \A c \in Runs : Queued(c) => c \notin sTrusted /\ c # sConn
    /\ \A i, j \in 1..Len(backlog) : backlog[i] = backlog[j] => i = j
    /\ sConn \in sTrusted => sPc \in {"vault", "stream", "decrypt", "save"}

\* A sender's own steps tell the receiver's cache and queue nothing.
LEMMA FreshClientStep ==
    ASSUME TypeOK, FreshSenders, NEW c \in Runs, ClientStep(c)
    PROVE  FreshSenders'
<1>1. UNCHANGED <<backlog, sTrusted, sConn, sPc>>
  BY DEF ClientStep, ClientWork, server, record, net, SendHello, RecvReply, RefuseReply, AcceptReply,
         Confirm, Approve, Pin, Refuse, SendVault, SendChunk, SendEnd, Finish,
         ClientRecvFails, ClientSendFails, ClientPuts, ClientTakes, Leaves, Returns, Moves
<1>2. \A d \in Runs : cPc'[d] = "idle" => cPc[d] = "idle"
  BY ClientTables
  DEF TypeOK, ClientTypeOK, ClientStep, ClientWork, SendHello, RecvReply, RefuseReply,
      AcceptReply, Confirm, Approve, Pin, Refuse, SendVault, SendChunk, SendEnd, Finish,
      ClientRecvFails, ClientSendFails, Leaves, Returns, Moves, Goto
<1>3. QED
  BY <1>1, <1>2 DEF FreshSenders, Queued

\* A run that connects comes from idle, so it was neither known nor queued.
LEMMA FreshClientEnvStep ==
    ASSUME TypeOK, FreshSenders, ClientEnv, UNCHANGED server
    PROVE  FreshSenders'
<1>1. UNCHANGED <<sTrusted, sConn, sPc>>
  BY DEF server, record
<1>2. ASSUME NEW c \in Runs, Connect(c)
      PROVE  FreshSenders'
  <2>1. /\ backlog \in Seq(Runs)
        /\ backlog' = Append(backlog, c)
        /\ c \notin sTrusted /\ c # sConn /\ ~Queued(c)
    BY <1>2 DEF Connect, Moves, FreshSenders, TypeOK, TransportTypeOK
  <2>2. \A d \in Runs : cPc'[d] = "idle" => cPc[d] = "idle" /\ d # c
    BY <1>2 DEF Connect, Moves, Goto, TypeOK, ClientTypeOK
  <2>3. \A d \in Runs : Queued(d)' <=> Queued(d) \/ d = c
    BY <2>1 DEF Queued
  <2>4. \A i, j \in 1..Len(backlog') : backlog'[i] = backlog'[j] => i = j
    BY <2>1 DEF FreshSenders, Queued
  <2>5. QED
    BY <1>1, <2>1, <2>2, <2>3, <2>4 DEF FreshSenders
<1>3. ASSUME NEW c \in Runs,
             ConnectFails(c) \/ \E v \in {"approved", "rejected"} : UserAnswers(c, v)
      PROVE  FreshSenders'
  <2>1. \A d \in Runs : cPc'[d] = "idle" => cPc[d] = "idle"
    BY <1>3 DEF ConnectFails, UserAnswers, Leaves, Returns, Moves, Goto, TypeOK, ClientTypeOK
  <2>2. QED
    BY <1>1, <1>3, <2>1 DEF ConnectFails, UserAnswers, Leaves, net, FreshSenders, Queued
<1>4. ASSUME NEW a \in Apps, AppExit(a)
      PROVE  FreshSenders'
  <2>1. \A d \in Runs : cPc'[d] = "idle" => cPc[d] = "idle"
    BY <1>4 DEF AppExit
  <2>2. QED
    BY <1>1, <1>4, <2>1 DEF AppExit, FreshSenders, Queued
<1>5. QED
  BY <1>2, <1>3, <1>4, ClientEnv DEF ClientEnv

\* The receiver remembers the run it serves, after it left the queue.
LEMMA FreshServerStep ==
    ASSUME TypeOK, FreshSenders, ServerStep \/ (ServerEnv /\ UNCHANGED client)
    PROVE  FreshSenders'
<1> USE TransportAssumption DEF Steps, record
<1>1. UNCHANGED cPc
  BY DEF ServerStep, client
<1>2. CASE Accept
  <2>1. backlog \in Seq(Runs) /\ backlog # <<>>
    BY <1>2 DEF Accept, TypeOK, TransportTypeOK
  <2>2. /\ Len(backlog') = Len(backlog) - 1
        /\ \A i \in 1..Len(backlog') : backlog'[i] = backlog[i + 1]
        /\ sConn' = backlog[1]
        /\ sConn' \in Runs
    BY <1>2, <2>1 DEF Accept
  <2>3. \A d \in Runs : Queued(d)' => Queued(d) /\ d # sConn'
    BY <2>1, <2>2 DEF Queued, FreshSenders
  <2>4. Queued(sConn')
    BY <2>1, <2>2 DEF Queued
  <2>5. \A i, j \in 1..Len(backlog') : backlog'[i] = backlog'[j] => i = j
    BY <2>1, <2>2 DEF FreshSenders
  <2>6. UNCHANGED sTrusted
    BY <1>2 DEF Accept
  <2>7. QED
    BY <1>1, <2>2, <2>3, <2>4, <2>5, <2>6 DEF FreshSenders
<1>3. CASE Stop
  BY <1>1, <1>3 DEF Stop, FreshSenders, Queued
<1>4. CASE RecvConfirm
  BY <1>1, <1>4 DEF RecvConfirm, ServerTakes, FreshSenders, Queued
<1>5. CASE Start \/ RecvHello \/ AcceptHello \/ SendReply \/ SkipSas \/ ShowSas \/ DrainByte
           \/ DrainEof \/ RecvVault \/ RecvChunk \/ RecvEnd \/ StreamEof \/ OpenFile
  <2>1. UNCHANGED <<backlog, sConn, sTrusted>>
    BY <1>5 DEF Start, RecvHello, AcceptHello, SendReply, SkipSas, ShowSas, DrainByte, DrainEof,
                RecvVault, RecvChunk, RecvEnd, StreamEof, OpenFile, ServerTakes, ServerPuts, net
  <2>2. sConn' \in sTrusted' => sPc' \in {"vault", "stream", "decrypt", "save"}
    BY <1>5, <2>1, ServerTables
    DEF Start, RecvHello, AcceptHello, SendReply, SkipSas, ShowSas, DrainByte, DrainEof,
        RecvVault, RecvChunk, RecvEnd, StreamEof, OpenFile, SasThen, FreshSenders
  <2>3. QED
    BY <1>1, <2>1, <2>2 DEF FreshSenders, Queued
<1>6. CASE RefuseHello \/ RecvReject \/ RefuseVault \/ DeliverText \/ SaveFile \/ DropPayload
           \/ ServerRecvFails \/ ServerSendFails
  <2>1. Hangup /\ UNCHANGED sTrusted
    BY <1>6 DEF RefuseHello, RecvReject, RefuseVault, DeliverText, SaveFile, DropPayload,
                ServerRecvFails, ServerSendFails, Drops, DropsItem, Delivers
  <2>2. QED
    BY <1>1, <2>1 DEF Hangup, FreshSenders, Queued, TypeOK, ServerTypeOK
<1>7. QED
  BY <1>2, <1>3, <1>4, <1>5, <1>6 DEF ServerStep, ServerWork, ServerEnv

\* Together, for all behaviours.
LEMMA SendersStayFresh == Spec => []FreshSenders
<1>1. Init => FreshSenders
  BY TransportAssumption
  DEF Init, TransportInit, ClientInit, ServerInit, FreshSenders, Queued
<1>2. TypeOK /\ FreshSenders /\ [Next]_vars => FreshSenders'
  <2> SUFFICES ASSUME TypeOK, FreshSenders, [Next]_vars
               PROVE  FreshSenders'
    OBVIOUS
  <2>1. CASE UNCHANGED vars
    BY <2>1 DEF vars, net, client, server, record, FreshSenders, Queued
  <2>2. QED
    BY <2>1, FreshClientStep, FreshClientEnvStep, FreshServerStep DEF Next
<1>3. QED
  BY <1>1, <1>2, TypeCorrect, PTL DEF Spec

-------------------------------------------------------------------------------
(* A seed goes only to a receiver that a user of the process verified.      *)

Unanswered == {"idle", "hello1", "hello2", "hello3", "reply1", "reply2", "reply3", "verify", "ask"}

\* The inductive invariant: past the signature check the reply is intact, an
\* answer stays what it is, and the cache holds only receivers vouched for.
TrustIsVouched ==
    /\ \A c \in Runs :
          cPc[c] \in {"confirm", "ask", "approve", "pin", "refuse", "vault", "stream", "finish"} =>
              cIntact[c]
    /\ \A c \in Runs : cPc[c] \in {"approve", "pin"} => verdict[c] = "approved"
    /\ \A c \in Runs : verdict[c] # "none" => cPc[c] \notin Unanswered
    /\ \A a \in Apps : \A k \in trusted[a] : Vouched(a, k)
    /\ \A c \in Runs :
          cPc[c] \in {"confirm", "vault", "stream", "finish"} /\ AppOf[c] \notin ClientSkips =>
              peer[c] \in trusted[AppOf[c]]

\* What a run vouched for once stays so: nothing it read or was told changes.
LEMMA VouchedStays ==
    ASSUME TypeOK, TrustIsVouched, NEW a, NEW k, Vouched(a, k),
           \A d \in Runs : cPc[d] \notin Unanswered =>
               UNCHANGED <<peer[d], cIntact[d], verdict[d]>>
    PROVE  Vouched(a, k)'
BY DEF Vouched, TrustIsVouched

\* A key enters a cache with the run that vouches for it (client.py:107).
LEMMA VouchedClientStep ==
    ASSUME TypeOK, TrustIsVouched, NEW c \in Runs, ClientWork(c)
    PROVE  TrustIsVouched'
<1> USE ClientAssumption, ClientTables DEF TypeOK, ClientTypeOK, Goto, Moves, facts
<1>1. CASE SendHello(c) \/ AcceptReply(c) \/ Confirm(c) \/ Approve(c) \/ SendVault(c)
           \/ SendChunk(c) \/ SendEnd(c)
  <2>1. UNCHANGED <<peer, cIntact, verdict, trusted>>
    BY <1>1 DEF SendHello, AcceptReply, Confirm, Approve, SendVault, SendChunk, SendEnd
  <2>2. \A a \in Apps : \A k \in trusted'[a] : Vouched(a, k)'
    BY <2>1, VouchedStays DEF TrustIsVouched
  <2>3. \A d \in Runs : d # c => cPc'[d] = cPc[d]
    BY <1>1 DEF SendHello, AcceptReply, Confirm, Approve, SendVault, SendChunk, SendEnd
  <2>4. CASE SendHello(c)
    <3>1. cPc'[c] \in {"hello2", "hello3", "reply1", "reply2", "reply3", "verify"}
      BY <2>4 DEF SendHello
    <3>2. verdict[c] = "none"
      BY <2>4 DEF SendHello, TrustIsVouched, Unanswered
    <3>3. QED
      BY <2>1, <2>2, <2>3, <3>1, <3>2 DEF TrustIsVouched
  <2>5. CASE AcceptReply(c)
    <3>1. verdict[c] = "none"
      BY <2>5 DEF AcceptReply, TrustIsVouched, Unanswered
    <3>2. QED
      BY <2>1, <2>2, <2>3, <2>5, <3>1 DEF AcceptReply, IsTrusted, TrustIsVouched
  <2>6. CASE Confirm(c) \/ Approve(c) \/ SendVault(c) \/ SendChunk(c) \/ SendEnd(c)
    BY <2>1, <2>2, <2>3, <2>6
    DEF Confirm, Approve, SendVault, SendChunk, SendEnd, TrustIsVouched, Unanswered
  <2>7. QED
    BY <1>1, <2>4, <2>5, <2>6
<1>2. CASE RecvReply(c)
  <2>1. cPc[c] \in Unanswered /\ cPc'[c] \in {"hello2", "hello3", "reply1", "reply2", "reply3", "verify"}
    BY <1>2 DEF RecvReply, Unanswered
  <2>2. /\ UNCHANGED <<verdict, trusted>>
        /\ \A d \in Runs : d # c => UNCHANGED <<cPc[d], peer[d], cIntact[d]>>
    BY <1>2 DEF RecvReply
  <2>3. \A a \in Apps : \A k \in trusted'[a] : Vouched(a, k)'
    BY <2>1, <2>2, VouchedStays DEF TrustIsVouched
  <2>4. QED
    BY <2>1, <2>2, <2>3 DEF TrustIsVouched
<1>3. CASE Pin(c)
  <2>1. /\ UNCHANGED <<peer, cIntact, verdict>>
        /\ trusted' = [trusted EXCEPT ![AppOf[c]] = @ \cup {peer[c]}]
        /\ cPc[c] = "pin"
        /\ cPc' = [cPc EXCEPT ![c] = "vault"]
    BY <1>3 DEF Pin
  <2>2. Vouched(AppOf[c], peer[c])'
    BY <2>1 DEF Vouched, TrustIsVouched
  <2>3. \A a \in Apps : \A k \in trusted[a] : Vouched(a, k)'
    BY <2>1, VouchedStays DEF TrustIsVouched
  <2>4. \A a \in Apps : \A k \in trusted'[a] : Vouched(a, k)'
    BY <2>1, <2>2, <2>3
  <2>5. QED
    BY <2>1, <2>4 DEF TrustIsVouched, Unanswered
<1>4. CASE RefuseReply(c) \/ Refuse(c) \/ Finish(c) \/ ClientRecvFails(c) \/ ClientSendFails(c)
  <2>1. UNCHANGED <<peer, cIntact, verdict, trusted>> /\ cPc' = [cPc EXCEPT ![c] = "done"]
    BY <1>4 DEF RefuseReply, Refuse, Finish, ClientRecvFails, ClientSendFails, Leaves, Returns
  <2>2. \A a \in Apps : \A k \in trusted'[a] : Vouched(a, k)'
    BY <2>1, VouchedStays DEF TrustIsVouched
  <2>3. QED
    BY <2>1, <2>2 DEF TrustIsVouched, Unanswered
<1>5. QED
  BY <1>1, <1>2, <1>3, <1>4, ClientWork(c) DEF ClientWork

\* A user answers a run that waits for it, and a process ends with all its runs.
LEMMA VouchedEnvStep ==
    ASSUME TypeOK, TrustIsVouched, ClientEnv
    PROVE  TrustIsVouched'
<1> USE ClientAssumption DEF TypeOK, ClientTypeOK, Goto, Moves, facts, Unanswered
<1>1. ASSUME NEW c \in Runs, NEW v \in {"approved", "rejected"}, UserAnswers(c, v)
      PROVE  TrustIsVouched'
  <2>1. /\ UNCHANGED <<peer, cIntact, trusted>>
        /\ \A d \in Runs : d # c => UNCHANGED <<cPc[d], verdict[d]>>
        /\ cPc[c] = "ask"
        /\ verdict'[c] = v
        /\ cPc'[c] = IF v = "approved" THEN "approve" ELSE "refuse"
    BY <1>1 DEF UserAnswers
  <2>2. \A a \in Apps : \A k \in trusted'[a] : Vouched(a, k)'
    BY <2>1, VouchedStays DEF TrustIsVouched
  <2>3. QED
    BY <2>1, <2>2 DEF TrustIsVouched
<1>2. ASSUME NEW c \in Runs, Connect(c) \/ ConnectFails(c)
      PROVE  TrustIsVouched'
  <2>1. UNCHANGED <<peer, cIntact, trusted, verdict>>
    BY <1>2 DEF Connect, ConnectFails, Leaves
  <2>2. \A a \in Apps : \A k \in trusted'[a] : Vouched(a, k)'
    BY <2>1, VouchedStays DEF TrustIsVouched
  <2>3. QED
    BY <1>2, <2>1, <2>2 DEF Connect, ConnectFails, Leaves, Returns, TrustIsVouched
<1>3. ASSUME NEW a \in Apps, AppExit(a)
      PROVE  TrustIsVouched'
  <2>1. UNCHANGED <<peer, cIntact, trusted, verdict>>
    BY <1>3 DEF AppExit
  <2>2. \A b \in Apps : \A k \in trusted'[b] : Vouched(b, k)'
    BY <2>1, VouchedStays DEF TrustIsVouched
  <2>3. QED
    BY <1>3, <2>1, <2>2 DEF AppExit, TrustIsVouched
<1>4. QED
  BY <1>1, <1>2, <1>3, ClientEnv DEF ClientEnv

\* The receiver does not touch the caches, so that they stay vouched for.
LEMMA TrustStaysVouched == Spec => []TrustIsVouched
<1>1. Init => TrustIsVouched
  BY ClientAssumption DEF Init, ClientInit, TrustIsVouched, Unanswered
<1>2. TypeOK /\ TrustIsVouched /\ [Next]_vars => TrustIsVouched'
  <2> SUFFICES ASSUME TypeOK, TrustIsVouched, [Next]_vars
               PROVE  TrustIsVouched'
    OBVIOUS
  <2>1. CASE UNCHANGED client
    BY <2>1 DEF client, facts, TrustIsVouched, Vouched
  <2>2. QED
    BY <2>1, VouchedClientStep, VouchedEnvStep DEF Next, ClientStep, ServerStep, vars
<1>3. QED
  BY <1>1, <1>2, TypeCorrect, PTL DEF Spec

\* Unless its config skips SAS, a run sends its sealed seed only to a receiver
\* whose signature some run of the same process checked and whose words the user
\* approved: a refusal, a time-out or an end of process never leaves a receiver
\* in the cache.
THEOREM SeedsGoToVerifiedPeers == Spec => []VaultNeedsVerifiedPeer
<1>1. TypeOK /\ TrustIsVouched => VaultNeedsVerifiedPeer
  BY ClientAssumption DEF TypeOK, ClientTypeOK, TrustIsVouched, Vouched, VaultNeedsVerifiedPeer
<1>2. QED
  BY <1>1, TypeCorrect, TrustStaysVouched, PTL

-------------------------------------------------------------------------------
(* A run is, for its caller, a call of module Call.                         *)

\* The steps of module Call, as they read in Session.
BarMoves(c, from, to) ==
    /\ AsCall(c) = from
    /\ \A d \in Runs : AsCall(d)' = IF d = c THEN to ELSE AsCall(d)

\* A step that moves one call, and returns or does not, is a step of module Call.
LEMMA CallStep ==
    ASSUME NEW c \in Runs, result \in [Runs -> {"none", "success", "failed"}],
           \/ /\ UNCHANGED result
              /\ \/ BarMoves(c, "running", "asking") \/ BarMoves(c, "running", "verified")
                 \/ BarMoves(c, "asking", "verified") \/ BarMoves(c, "asking", "refused")
           \/ /\ result' = [result EXCEPT ![c] = "success"]
              /\ BarMoves(c, "verified", "returned")
           \/ /\ result' = [result EXCEPT ![c] = "failed"]
              /\ \E from \in {"running", "verified", "refused"} : BarMoves(c, from, "returned")
    PROVE  CallOf!Next
<1> DEFINE at == [d \in Runs |-> AsCall(d)]
<1>1. ASSUME NEW from, NEW to, BarMoves(c, from, to)
      PROVE  at[c] = from /\ at' = [at EXCEPT ![c] = to]
  BY <1>1 DEF BarMoves
<1>2. CallOf!Step(c)
  BY <1>1 DEF CallOf!Step, CallOf!Ask, CallOf!Known, CallOf!Approved, CallOf!Rejected,
              CallOf!Succeed, CallOf!Fail, CallOf!Returns, CallOf!Moves
<1>3. QED
  BY <1>2 DEF CallOf!Next

\* Where a call is follows from its place and its user's answer.
LEMMA AsCallLocal ==
    ASSUME NEW c \in Runs, cPc'[c] = cPc[c], verdict'[c] = verdict[c]
    PROVE  AsCall(c)' = AsCall(c)
BY DEF AsCall

\* A step of a run is a step of its call, or none.
LEMMA ClientStepIsCall ==
    ASSUME TypeOK, TrustIsVouched, NEW c \in Runs, ClientWork(c)
    PROVE  CallOf!Next \/ (UNCHANGED result /\ \A d \in Runs : AsCall(d)' = AsCall(d))
<1> USE DEF Goto, Moves, TypeOK, ClientTypeOK, facts
<1>1. UNCHANGED verdict
  BY DEF ClientWork, SendHello, RecvReply, RefuseReply, AcceptReply, Confirm, Approve, Pin,
         Refuse, SendVault, SendChunk, SendEnd, Finish, ClientRecvFails, ClientSendFails, Leaves
<1>2. \A d \in Runs \ {c} : AsCall(d)' = AsCall(d)
  <2>1. \A d \in Runs \ {c} : cPc'[d] = cPc[d]
    BY DEF ClientWork, SendHello, RecvReply, RefuseReply, AcceptReply, Confirm, Approve, Pin,
           Refuse, SendVault, SendChunk, SendEnd, Finish, ClientRecvFails, ClientSendFails,
           Leaves, Returns
  <2>2. QED
    BY <1>1, <2>1, AsCallLocal
<1>3. CASE SendHello(c) \/ RecvReply(c) \/ Confirm(c) \/ Approve(c) \/ Pin(c) \/ SendVault(c)
           \/ SendChunk(c) \/ SendEnd(c)
  <2>1. UNCHANGED result
    BY <1>3 DEF SendHello, RecvReply, Confirm, Approve, Pin, SendVault, SendChunk, SendEnd
  <2>2. AsCall(c)' = AsCall(c)
    BY <1>1, <1>3, ClientTables
    DEF SendHello, RecvReply, Confirm, Approve, Pin, SendVault, SendChunk, SendEnd, AsCall
  <2>3. QED
    BY <1>2, <2>1, <2>2
<1>4. CASE AcceptReply(c)
  <2>1. UNCHANGED result /\ verdict[c] = "none" /\ AsCall(c) = "running"
    BY <1>4 DEF AcceptReply, TrustIsVouched, Unanswered, AsCall
  <2>2. AsCall(c)' \in {"running", "asking", "verified"}
    BY <1>1, <1>4, <2>1 DEF AcceptReply, AsCall
  <2>3. CASE AsCall(c)' = "running"
    BY <1>2, <2>1, <2>3
  <2>4. CASE AsCall(c)' \in {"asking", "verified"}
    BY <1>2, <2>1, <2>4, CallStep DEF BarMoves
  <2>5. QED
    BY <2>2, <2>3, <2>4
<1>5. CASE RefuseReply(c) \/ Refuse(c) \/ ClientRecvFails(c) \/ ClientSendFails(c)
  <2>1. result' = [result EXCEPT ![c] = "failed"] /\ AsCall(c)' = "returned"
    BY <1>5 DEF RefuseReply, Refuse, ClientRecvFails, ClientSendFails, Leaves, Returns, AsCall
  <2>2. AsCall(c) \in {"running", "verified", "refused"}
    BY <1>5, ClientTables
    DEF RefuseReply, Refuse, ClientRecvFails, ClientSendFails, ClientSending, AsCall
  <2>3. QED
    BY <1>2, <2>1, <2>2, CallStep DEF BarMoves
<1>6. CASE Finish(c)
  <2>1. result' = [result EXCEPT ![c] = "success"] /\ AsCall(c)' = "returned"
    BY <1>6 DEF Finish, Leaves, Returns, AsCall
  <2>2. AsCall(c) = "verified"
    BY <1>6 DEF Finish, AsCall
  <2>3. QED
    BY <1>2, <2>1, <2>2, CallStep DEF BarMoves
<1>7. QED
  BY <1>3, <1>4, <1>5, <1>6 DEF ClientWork

\* So is what its user or the end of its process does.
LEMMA ClientEnvIsCall ==
    ASSUME TypeOK, TrustIsVouched, ClientEnv
    PROVE  CallOf!Next \/ (UNCHANGED result /\ \A d \in Runs : AsCall(d)' = AsCall(d))
<1> USE DEF Goto, Moves, TypeOK, ClientTypeOK, facts
<1>1. ASSUME NEW c \in Runs, Connect(c)
      PROVE  UNCHANGED result /\ \A d \in Runs : AsCall(d)' = AsCall(d)
  <2>1. UNCHANGED <<result, verdict>> /\ \A d \in Runs \ {c} : cPc'[d] = cPc[d]
    BY <1>1 DEF Connect
  <2>2. AsCall(c)' = AsCall(c)
    BY <1>1, <2>1 DEF Connect, AsCall
  <2>3. QED
    BY <2>1, <2>2, AsCallLocal
<1>2. ASSUME NEW c \in Runs, ConnectFails(c)
      PROVE  CallOf!Next
  <2>1. \A d \in Runs \ {c} : AsCall(d)' = AsCall(d)
    BY <1>2, AsCallLocal DEF ConnectFails, Leaves, Returns
  <2>2. BarMoves(c, "running", "returned")
    BY <1>2, <2>1 DEF ConnectFails, Leaves, Returns, AsCall, BarMoves
  <2>3. QED
    BY <1>2, <2>2, CallStep DEF ConnectFails, Leaves, Returns
<1>3. ASSUME NEW c \in Runs, NEW v \in {"approved", "rejected"}, UserAnswers(c, v)
      PROVE  CallOf!Next
  <2>1. \A d \in Runs \ {c} : AsCall(d)' = AsCall(d)
    BY <1>3, AsCallLocal DEF UserAnswers
  <2>2. BarMoves(c, "asking", "verified") \/ BarMoves(c, "asking", "refused")
    BY <1>3, <2>1 DEF UserAnswers, AsCall, BarMoves
  <2>3. QED
    BY <1>3, <2>2, CallStep DEF UserAnswers
<1>4. ASSUME NEW a \in Apps, AppExit(a)
      PROVE  CallOf!Next
  <2> DEFINE gone == {c \in Runs : AppOf[c] = a /\ cPc[c] \notin ClientEnded}
             at == [c \in Runs |-> AsCall(c)]
  <2>1. UNCHANGED <<result, verdict>> /\ cPc' = [c \in Runs |-> IF c \in gone THEN "dead" ELSE cPc[c]]
    BY <1>4 DEF AppExit
  <2>2. \A c \in gone : at[c] # "returned"
    BY DEF AsCall, ClientEnded
  <2>3. \A c \in Runs : AsCall(c)' = IF c \in gone THEN "dead" ELSE AsCall(c)
    BY <2>1, AsCallLocal DEF AsCall
  <2>4. CallOf!Die(gone)
    BY <2>1, <2>2, <2>3 DEF CallOf!Die
  <2>5. QED
    BY <2>4 DEF CallOf!Next
<1>5. QED
  BY <1>1, <1>2, <1>3, <1>4, ClientEnv DEF ClientEnv

\* A run is a call of module Call: it asks at most once, succeeds only with a
\* receiver it verified, and no failure of the connection, no restart and no other
\* run takes its wait for the user from it (client.py:86-108, 151-155).
THEOREM RunsAreCalls == Spec => CallSpec
<1>1. Init => CallOf!Init
  BY DEF Init, ClientInit, AsCall, CallOf!Init
<1>2. TypeOK /\ TrustIsVouched /\ [Next]_vars
          => [CallOf!Next]_<<[c \in Runs |-> AsCall(c)], result>>
  <2> SUFFICES ASSUME TypeOK, TrustIsVouched, [Next]_vars
               PROVE  CallOf!Next \/ (UNCHANGED result /\ \A d \in Runs : AsCall(d)' = AsCall(d))
    OBVIOUS
  <2>1. CASE UNCHANGED client
    BY <2>1, AsCallLocal DEF client, facts
  <2>2. QED
    BY <2>1, ClientStepIsCall, ClientEnvIsCall DEF Next, ClientStep, ServerStep, vars
<1>3. QED
  BY <1>1, <1>2, TypeCorrect, TrustStaysVouched, PTL DEF Spec, CallSpec, CallOf!Spec
===============================================================================
