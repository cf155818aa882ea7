------------------------------ MODULE PipeProofs ------------------------------
(***************************************************************************)
(* What lies in a connection continues what the receiver has read and ends *)
(* with what its run has written; from this, that the receiver stays in    *)
(* step and hands over a prefix of what was sent.                          *)
(***************************************************************************)
EXTENDS SessionProofs

-------------------------------------------------------------------------------
(* The conversation of a run, item by item.                                 *)

LastItem == 6 + Chunks

KindAt(k) ==
    IF k = 1 THEN {"identity"} ELSE IF k = 2 THEN {"x25519"} ELSE IF k = 3 THEN {"signature"}
    ELSE IF k = 4 THEN {"approve", "reject"} ELSE IF k = 5 THEN {"vault"}
    ELSE IF k = LastItem THEN {"end"} ELSE {"chunk"}

\* Item f is one that run c may send as its k-th.
Placed(c, f, k) ==
    /\ f.kind \in KindAt(k)
    /\ f.kind = "chunk" => f.n = k - 5 /\ f.n <= sent[c]

\* How many items run c has written.
Written(c) ==
    IF cPc[c] = "hello1" THEN 0 ELSE IF cPc[c] = "hello2" THEN 1
    ELSE IF cPc[c] = "hello3" THEN 2 ELSE IF cPc[c] \in {"pin", "vault"} THEN 4
    ELSE IF cPc[c] = "stream" THEN 5 + sent[c]
    ELSE IF cPc[c] \in {"finish", "done"} THEN LastItem ELSE 3

\* The place of run c tells all that it has written.
Speaks(c) == cPc[c] \notin {"idle", "dead"} /\ (cPc[c] = "done" => result[c] = "success")

\* How many items the receiver has read of run c, which it serves or will serve.
ReadThere ==
    IF sPc = "hello1" THEN 0 ELSE IF sPc = "hello2" THEN 1 ELSE IF sPc = "hello3" THEN 2
    ELSE IF sPc = "vault" THEN 4 ELSE IF sPc = "stream" THEN 5 + Len(rcvd) ELSE 3
Read(c) == IF c = sConn THEN ReadThere ELSE 0

\* The receiver reads, or will read, what run c writes.
Heard(c) == Queued(c) \/ (c = sConn /\ sPc \notin {"decrypt", "save"})

PipeOf(c) ==
    Heard(c) => /\ \A i \in 1..Len(c2s[c]) : Placed(c, c2s[c][i], Read(c) + i)
                /\ Speaks(c) => Written(c) = Read(c) + Len(c2s[c])

\* The sender's end of a run under way is open; nothing is written before, and no
\* chunk before the seed.
Ends(c) ==
    /\ cPc[c] \notin ClientEnded \cup {"idle"} => cOpen[c]
    /\ cPc[c] = "idle" => c2s[c] = <<>>
    /\ cPc[c] \notin {"stream", "finish", "done", "dead"} => sent[c] = 0

\* The inductive invariant.
Pipe == 
    /\ \A c \in Runs : PipeOf(c) /\ Ends(c)
    /\ sPc \notin {"stream", "decrypt", "save"} => rcvd = <<>>

-------------------------------------------------------------------------------
(* Steps of the sender.                                                     *)

\* A step that writes nothing and says no more than before.
Keeps(c) ==
    /\ UNCHANGED c2s[c]
    /\ Speaks(c)' => Speaks(c) /\ Written(c)' = Written(c)

\* A step that writes the next item of the conversation.
Adds(c) ==
    /\ Speaks(c)
    /\ \E f \in Items, k \in {Written(c) + 1} : c2s'[c] = Append(c2s[c], f) /\ Placed(c, f, k)'
    /\ Speaks(c)' => Written(c)' = Written(c) + 1

\* An item in its place stays in it: what was sent grows.
LEMMA PlacedLater ==
    ASSUME NEW c \in Runs, NEW f \in Items, NEW k \in Nat, Placed(c, f, k),
           sent[c] \in Nat, sent'[c] \in Nat, sent'[c] >= sent[c]
    PROVE  Placed(c, f, k)'
<1>1. f.n \in Nat
  BY DEF Items
<1>2. QED
  BY <1>1 DEF Placed

\* What a step of one run does to its connection.
LEMMA RunWrites ==
    ASSUME TypeOK, TypeOK', NEW c \in Runs, UNCHANGED server, UNCHANGED Queued(c),
           Keeps(c) \/ Adds(c), sent'[c] >= sent[c], PipeOf(c)
    PROVE  PipeOf(c)'
<1> SUFFICES ASSUME Heard(c)'
             PROVE  /\ \A i \in 1..Len(c2s'[c]) : Placed(c, c2s[c][i], Read(c) + i)'
                    /\ Speaks(c)' => Written(c)' = Read(c)' + Len(c2s'[c])
  BY DEF PipeOf
<1>1. Heard(c) /\ Read(c)' = Read(c)
  BY DEF Heard, Read, ReadThere, server, record
<1>2. /\ c2s[c] \in Seq(Items) /\ c2s'[c] \in Seq(Items)
      /\ sent[c] \in Nat /\ sent'[c] \in Nat /\ Read(c) \in Nat
  BY DEF TypeOK, TransportTypeOK, ClientTypeOK, ServerTypeOK, Read, ReadThere
<1>3. \A i \in 1..Len(c2s[c]) : Placed(c, c2s[c][i], Read(c) + i)
  BY <1>1 DEF PipeOf
<1>4. CASE Keeps(c)
  <2>1. c2s'[c] = c2s[c] /\ (Speaks(c)' => Speaks(c) /\ Written(c)' = Written(c))
    BY <1>4 DEF Keeps
  <2>2. ASSUME NEW i \in 1..Len(c2s'[c])
        PROVE  Placed(c, c2s[c][i], Read(c) + i)'
    <3>1. Placed(c, c2s[c][i], Read(c) + i) /\ c2s[c][i] \in Items
      BY <1>2, <1>3, <2>1
    <3>2. PICK g \in Items, m \in Nat : g = c2s[c][i] /\ m = Read(c) + i
      BY <1>2, <2>1, <3>1
    <3>3. Placed(c, g, m)'
      BY <1>2, <3>1, <3>2, PlacedLater
    <3>4. g = c2s'[c][i] /\ m = Read(c)' + i
      BY <1>1, <2>1, <3>2
    <3>5. QED
      BY <3>3, <3>4
  <2>3. QED
    BY <1>1, <2>1, <2>2 DEF PipeOf
<1>5. CASE Adds(c)
  <2>1. Speaks(c) /\ Written(c) = Read(c) + Len(c2s[c])
    BY <1>1, <1>5 DEF Adds, PipeOf
  <2>2. PICK f \in Items, k \in {Written(c) + 1} : c2s'[c] = Append(c2s[c], f) /\ Placed(c, f, k)'
    BY <1>5 DEF Adds
  <2>3. /\ Len(c2s'[c]) = Len(c2s[c]) + 1
        /\ \A i \in 1..Len(c2s[c]) : c2s'[c][i] = c2s[c][i] /\ c2s[c][i] \in Items
        /\ c2s'[c][Len(c2s'[c])] = f
    BY <1>2, <2>2
  <2>4. ASSUME NEW i \in 1..Len(c2s'[c])
        PROVE  Placed(c, c2s[c][i], Read(c) + i)'
    <3>1. CASE i \in 1..Len(c2s[c])
      <4>1. Placed(c, c2s[c][i], Read(c) + i) /\ c2s[c][i] \in Items
        BY <1>3, <2>3, <3>1
      <4>2. c2s'[c][i] = c2s[c][i] /\ Read(c)' + i = Read(c) + i
        BY <1>1, <2>3, <3>1
      <4>3. PICK g \in Items, m \in Nat : g = c2s[c][i] /\ m = Read(c) + i
        BY <1>2, <3>1, <4>1
      <4>4. Placed(c, g, m)'
        BY <1>2, <4>1, <4>3, PlacedLater
      <4>5. g = c2s'[c][i] /\ m = Read(c)' + i
        BY <4>2, <4>3
      <4>6. QED
        BY <4>4, <4>5
    <3>2. CASE i = Len(c2s'[c])
      <4>1. k = Read(c)' + i
        BY <1>1, <1>2, <2>1, <2>3, <3>2
      <4>2. QED
        BY <2>2, <2>3, <3>2, <4>1
    <3>3. QED
      BY <1>2, <2>3, <3>1, <3>2
  <2>5. Speaks(c)' => Written(c)' = Read(c)' + Len(c2s'[c])
    <3>1. Speaks(c)' => Written(c)' = Written(c) + 1
      BY <1>5 DEF Adds
    <3>2. Len(c2s[c]) \in Nat
      BY <1>2
    <3>3. QED
      BY <1>1, <1>2, <2>1, <2>3, <3>1, <3>2
  <2>6. QED
    BY <2>4, <2>5
<1>6. QED
  BY <1>4, <1>5

\* A step touches no run but its own.
Alone(c) == \A d \in Runs \ {c} : UNCHANGED <<cPc[d], c2s[d], sent[d], result[d], cOpen[d]>>

LEMMA OthersKeep ==
    ASSUME TypeOK, TypeOK', NEW c \in Runs, NEW d \in Runs \ {c}, Alone(c), UNCHANGED server,
           UNCHANGED Queued(d), PipeOf(d), Ends(d)
    PROVE  PipeOf(d)' /\ Ends(d)'
<1>1. UNCHANGED <<cPc[d], c2s[d], sent[d], result[d], cOpen[d]>>
  BY DEF Alone
<1>2. Keeps(d)
  BY <1>1 DEF Keeps, Speaks, Written
<1>3. Ends(d)'
  BY <1>1 DEF Ends
<1>4. QED
  BY <1>1, <1>2, <1>3, RunWrites DEF TypeOK, ClientTypeOK

\* Every step of a run writes nothing, or the next item.
LEMMA ClientStepWrites ==
    ASSUME TypeOK, NEW c \in Runs, Ends(c), ClientWork(c)
    PROVE  /\ Alone(c)
           /\ UNCHANGED backlog
           /\ sent'[c] >= sent[c]
           /\ Ends(c)'
           /\ Keeps(c) \/ Adds(c)
<1> USE DEF Goto, Moves, TypeOK, ClientTypeOK, TransportTypeOK
<1>1. /\ Alone(c)
      /\ UNCHANGED backlog
  BY DEF ClientWork, SendHello, RecvReply, RefuseReply, AcceptReply, Confirm, Approve, Pin,
         Refuse, SendVault, SendChunk, SendEnd, Finish, ClientRecvFails, ClientSendFails,
         ClientPuts, ClientTakes, Leaves, Returns, net, Alone
<1>2. CASE RecvReply(c) \/ AcceptReply(c)
  <2>1. UNCHANGED <<c2s, sent, cOpen>>
    BY <1>2 DEF RecvReply, AcceptReply, ClientTakes, net
  <2>2. /\ cPc[c] \in {"reply1", "reply2", "reply3", "verify"}
        /\ cPc'[c] \in {"reply2", "reply3", "verify", "confirm", "ask", "refuse"}
    BY <1>2, ClientTables DEF RecvReply, AcceptReply, ReplyAt, ClientNext
  <2>3. Keeps(c)
    BY <2>1, <2>2 DEF Keeps, Speaks, Written
  <2>4. Ends(c)'
    BY <2>1, <2>2 DEF Ends, ClientEnded
  <2>5. QED
    BY <1>1, <2>1, <2>3, <2>4
<1>3. CASE RefuseReply(c) \/ ClientRecvFails(c) \/ ClientSendFails(c) \/ Finish(c)
  <2>1. UNCHANGED <<c2s, sent>> /\ cPc'[c] = "done"
    BY <1>3 DEF RefuseReply, ClientRecvFails, ClientSendFails, Finish, Leaves, Returns
  <2>2. cPc[c] = "finish" \/ result'[c] = "failed"
    BY <1>3 DEF RefuseReply, ClientRecvFails, ClientSendFails, Finish, Leaves, Returns
  <2>3. Keeps(c)
    BY <2>1, <2>2 DEF Keeps, Speaks, Written
  <2>4. Ends(c)'
    BY <2>1 DEF Ends, ClientEnded
  <2>5. QED
    BY <1>1, <2>1, <2>3, <2>4
<1>4. CASE SendHello(c)
  <2>1. PICK f \in Items :
           /\ f.kind = HelloAt[cPc[c]]
           /\ ClientPuts(c, f)
    BY <1>4, ItemType, ClientTables DEF SendHello, Item, Guarded, Kinds
  <2>2. /\ c2s'[c] = Append(c2s[c], f)
        /\ UNCHANGED <<sent, cOpen>>
        /\ <<cPc[c], cPc'[c], f.kind>> \in {<<"hello1", "hello2", "identity">>,
              <<"hello2", "hello3", "x25519">>, <<"hello3", "reply1", "signature">>}
    BY <1>4, <2>1, ClientTables DEF SendHello, ClientPuts, HelloAt, ClientNext
  <2>3. Placed(c, f, Written(c) + 1) /\ f.kind # "chunk"
    BY <2>2 DEF Placed, KindAt, Written
  <2>4. Adds(c)
    BY <2>2, <2>3 DEF Adds, Speaks, Written, Placed
  <2>5. QED
    BY <1>1, <2>2, <2>4 DEF Ends, ClientEnded
<1>5. CASE Confirm(c) \/ Approve(c) \/ Refuse(c) \/ SendVault(c)
  <2>1. PICK f \in Items :
           /\ f.kind = IF cPc[c] \in {"confirm", "approve"} THEN "approve"
                       ELSE IF cPc[c] = "refuse" THEN "reject" ELSE "vault"
           /\ ClientPuts(c, f)
    <3>1. Confirm(c) \/ Approve(c) =>
             ClientPuts(c, Item("approve", 0)) /\ cPc[c] \in {"confirm", "approve"}
      BY DEF Confirm, Approve
    <3>2. Refuse(c) => ClientPuts(c, Item("reject", 0)) /\ cPc[c] = "refuse"
      BY DEF Refuse
    <3>3. SendVault(c) => ClientPuts(c, Guarded(c, "vault", "vault")) /\ cPc[c] = "vault"
      BY DEF SendVault
    <3>4. QED
      BY <1>5, <3>1, <3>2, <3>3, ItemType DEF Item, Guarded, Kinds
  <2>2. /\ UNCHANGED sent
        /\ \/ cPc[c] = "confirm" /\ cPc'[c] = "vault" /\ UNCHANGED cOpen
           \/ cPc[c] = "approve" /\ cPc'[c] = "pin" /\ UNCHANGED cOpen
           \/ cPc[c] = "vault" /\ cPc'[c] = "stream" /\ UNCHANGED cOpen
           \/ cPc[c] = "refuse" /\ cPc'[c] = "done" /\ result'[c] = "failed"
    BY <1>5 DEF Confirm, Approve, Refuse, SendVault, Returns
  <2>3. c2s'[c] = Append(c2s[c], f) /\ sent[c] = 0
    BY <2>1, <2>2 DEF ClientPuts, Ends
  <2>4. Placed(c, f, Written(c) + 1) /\ f.kind # "chunk"
    BY <2>1, <2>2 DEF Placed, KindAt, Written
  <2>5. Adds(c)
    BY <2>2, <2>3, <2>4 DEF Adds, Speaks, Written, Placed
  <2>6. QED
    BY <1>1, <2>2, <2>3, <2>5 DEF Ends, ClientEnded
<1>6. CASE SendChunk(c) \/ SendEnd(c)
  <2>1. PICK f \in Items :
           /\ c2s'[c] = Append(c2s[c], f)
           /\ \/ /\ f.kind = "chunk" /\ f.n = sent[c] + 1
                 /\ sent[c] + 1 <= Chunks
                 /\ sent'[c] = sent[c] + 1
                 /\ cPc'[c] = "stream"
              \/ /\ f.kind = "end"
                 /\ sent[c] = Chunks
                 /\ UNCHANGED sent
                 /\ cPc'[c] = "finish"
    <3>1. CASE SendChunk(c)
      <4>1. sent[c] + 1 <= Chunks /\ sent'[c] = sent[c] + 1
        BY <3>1, TransportAssumption DEF SendChunk, HasChunk
      <4>2. Item("chunk", sent[c] + 1) \in Items
        BY ItemType DEF Kinds
      <4>3. QED
        BY <3>1, <4>1, <4>2 DEF SendChunk, ClientPuts, Item
    <3>2. CASE SendEnd(c)
      <4>1. sent[c] = Chunks
        BY <3>2, TransportAssumption DEF SendEnd, HasChunk
      <4>2. Item("end", 0) \in Items
        BY ItemType DEF Kinds
      <4>3. QED
        BY <3>2, <4>1, <4>2 DEF SendEnd, ClientPuts, Item
    <3>3. QED
      BY <1>6, <3>1, <3>2
  <2>2. cPc[c] = "stream" /\ UNCHANGED cOpen
    BY <1>6 DEF SendChunk, SendEnd
  <2>3. Written(c) + 1 = 6 + sent[c] /\ sent[c] \in 0..Chunks
    BY <2>2 DEF Written
  <2>4. ASSUME NEW k, k = 6 + sent[c] PROVE Placed(c, f, k)'
    <3>1. f.kind \in KindAt(k)
      BY <2>1, <2>3, <2>4, TransportAssumption DEF KindAt, LastItem
    <3>2. f.kind = "chunk" => f.n = k - 5 /\ f.n <= sent'[c]
      <4>1. f.kind = "chunk" => f.n = sent[c] + 1 /\ sent'[c] = sent[c] + 1
        BY <2>1
      <4>2. sent[c] \in Nat
        BY <2>3, TransportAssumption
      <4>3. QED
        BY <2>4, <4>1, <4>2
    <3>3. QED
      BY <3>1, <3>2 DEF Placed
  <2>5. Speaks(c) /\ (Speaks(c)' => Written(c)' = Written(c) + 1)
    BY <2>1, <2>2, <2>3 DEF Speaks, Written, LastItem
  <2>6. Adds(c)
    BY <2>1, <2>3, <2>4, <2>5 DEF Adds
  <2>7. QED
    BY <1>1, <2>1, <2>2, <2>3, <2>6 DEF Ends, ClientEnded
<1>7. CASE Pin(c)
  <2>1. UNCHANGED <<c2s, sent, cOpen>> /\ cPc[c] = "pin" /\ cPc'[c] = "vault"
    BY <1>7 DEF Pin, net
  <2>2. Keeps(c)
    BY <2>1 DEF Keeps, Speaks, Written
  <2>3. QED
    BY <1>1, <2>1, <2>2 DEF Ends, ClientEnded
<1>8. QED
  BY <1>2, <1>3, <1>4, <1>5, <1>6, <1>7 DEF ClientWork

\* The pipe stays whole through the steps of a run and of all around it.
LEMMA PipeClientStep ==
    ASSUME TypeOK, TypeOK', Pipe, NEW c \in Runs, ClientStep(c)
    PROVE  Pipe'
<1>1. /\ Alone(c) /\ UNCHANGED <<backlog, server>>
      /\ sent'[c] >= sent[c]
      /\ Ends(c)'
      /\ Keeps(c) \/ Adds(c)
  BY ClientStepWrites DEF ClientStep, Pipe
<1>2. \A d \in Runs : UNCHANGED Queued(d)
  BY <1>1 DEF Queued
<1>3. PipeOf(c)'
  BY <1>1, <1>2, RunWrites DEF Pipe
<1>4. \A d \in Runs \ {c} : PipeOf(d)' /\ Ends(d)'
  BY <1>1, <1>2, OthersKeep DEF Pipe
<1>5. QED
  BY <1>1, <1>3, <1>4 DEF Pipe, server, record

LEMMA PipeEnvStep ==
    ASSUME TypeOK, TypeOK', FreshSenders, Pipe, ClientEnv, UNCHANGED server
    PROVE  Pipe'
<1> USE DEF Goto, Moves
<1>1. UNCHANGED <<sPc, rcvd, sConn>>
  BY DEF server, record
<1>2. ASSUME NEW c \in Runs, Connect(c)
      PROVE  Pipe'
  <2>1. /\ Alone(c) /\ cPc[c] = "idle" /\ cPc'[c] = "hello1" /\ cOpen'[c]
        /\ UNCHANGED <<c2s, sent>>
    BY <1>2 DEF Connect, Alone, TypeOK, ClientTypeOK, TransportTypeOK
  <2>2. \A d \in Runs \ {c} : UNCHANGED Queued(d)
    BY <1>2 DEF Connect, Queued, TypeOK, TransportTypeOK
  <2>3. PipeOf(c)' /\ Ends(c)'
    <3>1. c2s'[c] = <<>> /\ c # sConn'
      BY <1>1, <2>1 DEF Pipe, Ends, FreshSenders
    <3>2. QED
      BY <2>1, <3>1 DEF PipeOf, Ends, Pipe, Read, Written, ClientEnded
  <2>4. QED
    BY <1>1, <2>1, <2>2, <2>3, OthersKeep DEF Pipe
<1>3. ASSUME NEW c \in Runs,
             ConnectFails(c) \/ \E v \in {"approved", "rejected"} : UserAnswers(c, v)
      PROVE  Pipe'
  <2>1. Alone(c) /\ UNCHANGED <<c2s, sent, backlog>>
    BY <1>3 DEF ConnectFails, UserAnswers, Leaves, Returns, net, Alone,
                TypeOK, ClientTypeOK, TransportTypeOK
  <2>2. Keeps(c) /\ Ends(c)'
    BY <1>3, <2>1
    DEF ConnectFails, UserAnswers, Leaves, Returns, net, Keeps, Speaks, Written, Ends, Pipe,
        ClientEnded, TypeOK, ClientTypeOK, TransportTypeOK
  <2>3. \A d \in Runs : UNCHANGED Queued(d)
    BY <2>1 DEF Queued
  <2>4. PipeOf(c)'
    BY <2>1, <2>2, <2>3, RunWrites DEF Pipe, TypeOK, ClientTypeOK
  <2>5. QED
    BY <1>1, <2>1, <2>2, <2>3, <2>4, OthersKeep DEF Pipe
<1>4. ASSUME NEW a \in Apps, AppExit(a)
      PROVE  Pipe'
  <2>1. UNCHANGED <<c2s, sent, backlog, result>>
    BY <1>4 DEF AppExit
  <2>2. \A d \in Runs : cPc'[d] = "dead" \/ UNCHANGED <<cPc[d], cOpen[d]>>
    BY <1>4 DEF AppExit, TypeOK, ClientTypeOK, TransportTypeOK
  <2>3. \A d \in Runs : Keeps(d) /\ Ends(d)'
    BY <2>1, <2>2 DEF Keeps, Speaks, Written, Ends, Pipe, ClientEnded
  <2>4. \A d \in Runs : UNCHANGED Queued(d)
    BY <2>1 DEF Queued
  <2>5. \A d \in Runs : PipeOf(d)'
    BY <2>1, <2>3, <2>4, RunWrites DEF Pipe, TypeOK, ClientTypeOK
  <2>6. QED
    BY <1>1, <2>3, <2>5 DEF Pipe
<1>5. QED
  BY <1>2, <1>3, <1>4, ClientEnv DEF ClientEnv

-------------------------------------------------------------------------------
(* Steps of the receiver.                                                   *)

\* It reads from no connection but the one it serves.
ReadsAlone == \A d \in Runs : d # sConn => UNCHANGED c2s[d]

LEMMA EndsStay ==
    ASSUME FreshSenders, UNCHANGED client, UNCHANGED cOpen, ReadsAlone,
           NEW d \in Runs, Ends(d)
    PROVE  Ends(d)'
<1>1. cPc[d] = "idle" => UNCHANGED c2s[d]
  BY DEF FreshSenders, ReadsAlone
<1>2. QED
  BY <1>1 DEF Ends, client

\* A step after which it hears fewer runs, each as far as before.
LEMMA PipeStays ==
    ASSUME FreshSenders, Pipe, UNCHANGED client, UNCHANGED cOpen, ReadsAlone,
           \A d \in Runs : Heard(d)' => Heard(d) /\ Read(d)' = Read(d) /\ UNCHANGED c2s[d],
           sPc' \notin {"stream", "decrypt", "save"} => rcvd' = <<>>
    PROVE  Pipe'
<1>1. ASSUME NEW d \in Runs
      PROVE  PipeOf(d)'
  <2> SUFFICES ASSUME Heard(d)'
               PROVE  /\ \A i \in 1..Len(c2s'[d]) : Placed(d, c2s[d][i], Read(d) + i)'
                      /\ Speaks(d)' => Written(d)' = Read(d)' + Len(c2s'[d])
    BY DEF PipeOf
  <2>1. Heard(d) /\ Read(d)' = Read(d) /\ c2s'[d] = c2s[d]
    OBVIOUS
  <2>2. UNCHANGED <<sent, Speaks(d), Written(d)>>
    BY DEF client, Speaks, Written
  <2>3. /\ \A i \in 1..Len(c2s[d]) : Placed(d, c2s[d][i], Read(d) + i)
        /\ Speaks(d) => Written(d) = Read(d) + Len(c2s[d])
    BY <2>1 DEF Pipe, PipeOf
  <2>4. QED
    BY <2>1, <2>2, <2>3 DEF Placed
<1>2. QED
  BY <1>1, EndsStay DEF Pipe

\* A step that reads the next item of the run it serves.
LEMMA PipeReads ==
    ASSUME TypeOK, TypeOK', FreshSenders, Pipe, UNCHANGED client, sConn \in Runs,
           ServerTakes(sConn), sConn' = sConn, sPc \notin {"decrypt", "save"},
           sPc' \in {"decrypt", "save"} \/ ReadThere' = ReadThere + 1,
           sPc' \notin {"stream", "decrypt", "save"} => rcvd' = <<>>
    PROVE  Pipe'
<1> DEFINE c == sConn
<1>1. /\ c2s[c] \in Seq(Items) /\ c2s[c] # <<>> /\ c2s'[c] = Tail(c2s[c])
      /\ ReadsAlone
      /\ UNCHANGED <<backlog, cOpen>>
  BY DEF ServerTakes, ReadsAlone, TypeOK, TransportTypeOK
<1>2. UNCHANGED sent /\ \A d \in Runs : UNCHANGED <<Speaks(d), Written(d), Queued(d)>>
  BY <1>1 DEF client, Speaks, Written, Queued
<1>3. ASSUME NEW d \in Runs, d # c
      PROVE  PipeOf(d)'
  <2>1. UNCHANGED <<Heard(d), Read(d), c2s[d]>>
    BY <1>1, <1>2, <1>3 DEF Heard, Read, ReadsAlone
  <2>2. PipeOf(d)
    BY DEF Pipe
  <2>3. QED
    BY <1>2, <2>1, <2>2 DEF PipeOf, Placed
<1>4. PipeOf(c)'
  <2> SUFFICES ASSUME Heard(c)'
               PROVE  /\ \A i \in 1..Len(c2s'[c]) : Placed(c, c2s[c][i], Read(c) + i)'
                      /\ Speaks(c)' => Written(c)' = Read(c)' + Len(c2s'[c])
    BY DEF PipeOf
  <2>1. ~Queued(c) /\ sPc' \notin {"decrypt", "save"}
    BY <1>2 DEF FreshSenders, Heard
  <2>2. Heard(c) /\ Read(c) \in Nat /\ Read(c)' = Read(c) + 1
    BY <2>1 DEF Heard, Read, ReadThere, TypeOK, ServerTypeOK
  <2>3. /\ \A i \in 1..Len(c2s[c]) : Placed(c, c2s[c][i], Read(c) + i)
        /\ Speaks(c) => Written(c) = Read(c) + Len(c2s[c])
    BY <2>2 DEF Pipe, PipeOf
  <2>4. /\ Len(c2s'[c]) = Len(c2s[c]) - 1
        /\ \A i \in 1..Len(c2s'[c]) : i + 1 \in 1..Len(c2s[c]) /\ c2s'[c][i] = c2s[c][i + 1]
    BY <1>1
  <2>5. ASSUME NEW i \in 1..Len(c2s'[c])
        PROVE  Placed(c, c2s[c][i], Read(c) + i)'
    <3>1. Placed(c, c2s[c][i + 1], Read(c) + (i + 1))
      BY <2>3, <2>4
    <3>2. c2s'[c][i] = c2s[c][i + 1]
      BY <2>4
    <3>3. Read(c)' + i = Read(c) + (i + 1)
      BY <2>2
    <3>4. QED
      BY <1>2, <3>1, <3>2, <3>3 DEF Placed
  <2>6. Len(c2s[c]) \in Nat
    BY <1>1
  <2>7. QED
    BY <1>2, <2>2, <2>3, <2>4, <2>5, <2>6
<1>5. QED
  BY <1>1, <1>3, <1>4, EndsStay DEF Pipe

\* A step that stays with the same run, at a place with as much read, or past reading.
LEMMA PipeWaits ==
    ASSUME FreshSenders, Pipe, UNCHANGED client,
           UNCHANGED <<cOpen, c2s, backlog, sConn, rcvd>>,
           sPc \notin {"decrypt", "save"}, sPc' # "stream",
           sPc' \in {"decrypt", "save"} \/ (sPc # "stream" /\ ReadThere' = ReadThere)
    PROVE  Pipe'
<1>1. \A d \in Runs : UNCHANGED Queued(d)
  BY DEF Queued
<1>2. \A d \in Runs : Heard(d)' => Heard(d) /\ Read(d)' = Read(d)
  BY <1>1 DEF Heard, Read, FreshSenders
<1>3. QED
  BY <1>2, PipeStays DEF ReadsAlone, Pipe

\* A step that ends the connection.
LEMMA PipeHangup ==
    ASSUME TypeOK, FreshSenders, Pipe, UNCHANGED client, Hangup, ReadsAlone
    PROVE  Pipe'
<1>1. \A d \in Runs : UNCHANGED Queued(d)
  BY DEF Queued, Hangup
<1>2. \A d \in Runs : Heard(d)' => Heard(d) /\ Read(d)' = Read(d) /\ UNCHANGED c2s[d]
  BY <1>1, TransportAssumption DEF Heard, Read, Hangup, FreshSenders, ReadsAlone
<1>3. QED
  BY <1>2, PipeStays DEF Hangup

LEMMA PipeServerStep ==
    ASSUME TypeOK, TypeOK', FreshSenders, Pipe, ServerWork, UNCHANGED client
    PROVE  Pipe'
<1> USE ServerTables, TransportAssumption DEF Steps, record, net
<1>1. CASE Accept
  <2>1. /\ backlog \in Seq(Runs) /\ backlog # <<>>
        /\ sConn = NoRun /\ rcvd = <<>>
        /\ sPc' = "hello1" /\ sConn' = Head(backlog)
        /\ backlog' = Tail(backlog)
        /\ UNCHANGED <<c2s, cOpen, rcvd>>
    BY <1>1 DEF Accept, TypeOK, TransportTypeOK, ServerTypeOK, Pipe, ServerBusy, ServerReading
  <2>2. Queued(sConn') /\ sConn' \in Runs
    BY <2>1 DEF Queued
  <2>3. \A d \in Runs : Queued(d)' => Queued(d)
    BY <2>1 DEF Queued
  <2>4. \A d \in Runs : Heard(d)' => Heard(d) /\ Read(d) = 0 /\ Read(d)' = 0
    BY <2>1, <2>2, <2>3 DEF Heard, Read, ReadThere
  <2>5. QED
    BY <2>1, <2>4, PipeStays DEF ReadsAlone
<1>2. CASE RecvHello \/ DrainByte \/ RecvConfirm \/ RecvVault \/ RecvEnd
  <2>1. ServerTakes(sConn) /\ UNCHANGED <<sConn, rcvd>> /\ sPc \notin {"decrypt", "save"}
    BY <1>2 DEF RecvHello, DrainByte, RecvConfirm, RecvVault, RecvEnd
  <2>2. sConn \in Runs
    BY <1>2 DEF RecvHello, DrainByte, RecvConfirm, RecvVault, RecvEnd, TypeOK, ServerTypeOK,
                ServerBusy, ServerReading
  <2>3. <<sPc, sPc'>> \in {<<"hello1", "hello2">>, <<"hello2", "hello3">>, <<"hello3", "verify">>,
                           <<"drain", "vault">>, <<"confirm", "vault">>, <<"vault", "stream">>,
                           <<"stream", "decrypt">>}
    <3>1. CASE RecvHello
      <4>1. sPc \in {"hello1", "hello2", "hello3"} /\ sPc' = ServerNext[sPc]
        BY <3>1 DEF RecvHello
      <4>2. QED
        BY <4>1 DEF ServerNext
    <3>2. CASE DrainByte \/ RecvConfirm \/ RecvVault \/ RecvEnd
      BY <3>2 DEF DrainByte, RecvConfirm, RecvVault, RecvEnd
    <3>3. QED
      BY <1>2, <3>1, <3>2
  <2>4. sPc' \in {"decrypt", "save"} \/ (ReadThere' = ReadThere + 1 /\ rcvd = <<>>)
    BY <2>1, <2>3 DEF ReadThere, Pipe
  <2>5. QED
    BY <2>1, <2>2, <2>3, <2>4, PipeReads
<1>3. CASE RecvChunk
  <2>1. /\ ServerTakes(sConn) /\ UNCHANGED <<sPc, sConn>> /\ sPc = "stream"
        /\ rcvd' = Append(rcvd, Head(c2s[sConn]).n)
        /\ sConn \in Runs /\ rcvd \in Seq(Nat)
    BY <1>3 DEF RecvChunk, TypeOK, ServerTypeOK, ServerBusy, ServerReading
  <2>2. ReadThere' = ReadThere + 1
    BY <2>1 DEF ReadThere
  <2>3. QED
    BY <2>1, <2>2, PipeReads
<1>4. CASE AcceptHello \/ SkipSas \/ ShowSas \/ SendReply \/ StreamEof
  <2>1. UNCHANGED <<cOpen, c2s, backlog, sConn, rcvd>>
    BY <1>4 DEF AcceptHello, SkipSas, ShowSas, SendReply, StreamEof, ServerPuts
  <2>2. \/ sPc = "stream" /\ sPc' = "decrypt"
        \/ /\ sPc \in {"verify", "sas", "reply1", "reply2", "reply3"}
           /\ sPc' \in {"reply1", "reply2", "reply3", "sas", "drain", "confirm"}
    BY <1>4
    DEF AcceptHello, SkipSas, ShowSas, SendReply, StreamEof, SasThen, WritesAt, ServerNext
  <2>3. QED
    BY <2>1, <2>2, PipeWaits DEF ReadThere
<1>5. CASE DrainEof
  <2>1. /\ sPc = "drain" /\ sPc' = "vault" /\ sConn \in Runs
        /\ c2s[sConn] = <<>> /\ ~cOpen[sConn]
        /\ UNCHANGED <<cOpen, c2s, backlog, sConn, rcvd>>
    BY <1>5 DEF DrainEof, ServerAtEof, TypeOK, ServerTypeOK, ServerBusy, ServerReading
  <2>2. ~Speaks(sConn)
    <3>1. cPc[sConn] \in ClientEnded
      BY <2>1 DEF Pipe, Ends, FreshSenders
    <3>2. Speaks(sConn) => Written(sConn) = Read(sConn) + Len(c2s[sConn])
      BY <2>1 DEF Pipe, PipeOf, Heard
    <3>3. Len(c2s[sConn]) = 0 /\ Read(sConn) = 3
      BY <2>1 DEF Read, ReadThere
    <3>4. Speaks(sConn) => Written(sConn) = LastItem
      BY <3>1 DEF Speaks, Written, ClientEnded
    <3>5. QED
      BY <3>2, <3>3, <3>4 DEF LastItem
  <2>3. ASSUME NEW d \in Runs PROVE PipeOf(d)'
    <3>1. CASE d = sConn
      BY <2>1, <2>2, <3>1 DEF PipeOf, Speaks, client
    <3>2. CASE d # sConn
      <4>1. UNCHANGED <<Heard(d), Read(d), c2s[d], sent, Speaks(d), Written(d)>>
        BY <2>1, <3>2 DEF Heard, Read, Queued, Speaks, Written, client
      <4>2. QED
        BY <4>1 DEF Pipe, PipeOf, Placed
    <3>3. QED
      BY <3>1, <3>2
  <2>4. QED
    BY <2>1, <2>3, EndsStay DEF Pipe, ReadsAlone
<1>6. CASE OpenFile
  <2>1. /\ sPc' = "save" /\ UNCHANGED <<cOpen, c2s, backlog, sConn>>
    BY <1>6 DEF OpenFile
  <2>2. \A d \in Runs : Heard(d)' => Heard(d) /\ Read(d)' = Read(d)
    BY <2>1 DEF Heard, Read, Queued, FreshSenders
  <2>3. QED
    BY <2>1, <2>2, PipeStays DEF ReadsAlone
<1>7. CASE RefuseHello \/ RecvReject \/ RefuseVault \/ DeliverText \/ SaveFile \/ DropPayload
           \/ ServerRecvFails \/ ServerSendFails
  <2>1. Hangup /\ (UNCHANGED c2s \/ c2s' = [c2s EXCEPT ![sConn] = Tail(@)])
    BY <1>7 DEF RefuseHello, RecvReject, RefuseVault, DeliverText, SaveFile, DropPayload,
                ServerRecvFails, ServerSendFails, Drops, DropsItem, Delivers
  <2>2. ReadsAlone
    BY <2>1 DEF ReadsAlone, TypeOK, TransportTypeOK
  <2>3. QED
    BY <2>1, <2>2, PipeHangup
<1>8. QED
  BY <1>1, <1>2, <1>3, <1>4, <1>5, <1>6, <1>7 DEF ServerWork

LEMMA PipeServerEnv ==
    ASSUME TypeOK, TypeOK', FreshSenders, Pipe, ServerEnv, UNCHANGED client
    PROVE  Pipe'
<1> USE DEF Steps
<1>1. CASE Start
  <2>1. UNCHANGED <<cOpen, c2s, backlog, sConn, rcvd>> /\ sConn = NoRun /\ sPc = "down"
    BY <1>1, ServerTables DEF Start, TypeOK, ServerTypeOK, ServerBusy, ServerReading
  <2>2. \A d \in Runs : Heard(d)' => Heard(d) /\ Read(d)' = Read(d)
    BY <2>1, TransportAssumption DEF Heard, Read, Queued
  <2>3. QED
    BY <2>1, <2>2, PipeStays DEF ReadsAlone, Pipe
<1>2. CASE Stop
  <2>1. \A d \in Runs : ~Heard(d)'
    BY <1>2, TransportAssumption DEF Stop, Heard, Queued
  <2>2. QED
    BY <1>2, <2>1, PipeStays DEF Stop, ReadsAlone
<1>3. QED
  BY <1>1, <1>2, ServerEnv DEF ServerEnv

LEMMA PipeStaysWhole == Spec => []Pipe
<1>1. Init => Pipe
  BY TransportAssumption
  DEF Init, TransportInit, ClientInit, ServerInit, Pipe, PipeOf, Ends, Heard, Queued
<1>2. TypeOK /\ TypeOK' /\ FreshSenders /\ Pipe /\ [Next]_vars => Pipe'
  <2> SUFFICES ASSUME TypeOK, TypeOK', FreshSenders, Pipe, [Next]_vars
               PROVE  Pipe'
    OBVIOUS
  <2>1. CASE UNCHANGED vars
    <3>1. \A d \in Runs : UNCHANGED <<Heard(d), Read(d)>>
      BY <2>1 DEF vars, net, server, record, Heard, Queued, Read, ReadThere
    <3>2. QED
      BY <2>1, <3>1, PipeStays DEF vars, net, server, record, ReadsAlone, Pipe
  <2>2. QED
    BY <2>1, PipeClientStep, PipeEnvStep, PipeServerStep, PipeServerEnv
    DEF Next, ServerStep
<1>3. QED
  BY <1>1, <1>2, TypeCorrect, SendersStayFresh, PTL DEF Spec

\* The receiver stays in step: the next item of the run it serves is always of the
\* kind that it reads next, and the next chunk the one after the last, whichever
\* branch of the SAS step each side took and however the two fail or restart
\* (client.py:86-108, server.py:125-143, 172-179).
THEOREM ReceiverStaysInStep == Spec => []InStep
<1>1. TypeOK /\ Pipe => InStep
  <2> SUFFICES ASSUME TypeOK, Pipe, sConn # NoRun, c2s[sConn] # <<>>
               PROVE  /\ c2s[sConn][1].kind \in Expected(sPc)
                      /\ sPc = "stream" /\ c2s[sConn][1].kind = "chunk" =>
                           c2s[sConn][1].n = Len(rcvd) + 1
    BY DEF InStep
  <2> DEFINE f == c2s[sConn][1]
  <2>1. sConn \in Runs /\ c2s[sConn] \in Seq(Items) /\ f \in Items /\ rcvd \in Seq(Nat)
    BY DEF TypeOK, TransportTypeOK, ServerTypeOK
  <2>2. CASE sPc \in {"decrypt", "save"}
    BY <2>1, <2>2 DEF Expected, Items
  <2>3. CASE sPc \notin {"decrypt", "save"}
    <3>1. Placed(sConn, f, ReadThere + 1)
      <4>1. 1 \in 1..Len(c2s[sConn])
        BY <2>1
      <4>2. QED
        BY <2>1, <2>3, <4>1 DEF Pipe, PipeOf, Heard, Read
    <3>2. CASE sPc = "stream"
      <4>1. ReadThere + 1 = 6 + Len(rcvd) /\ Len(rcvd) \in Nat
        BY <2>1, <3>2 DEF ReadThere
      <4>2. f.kind \in {"chunk", "end"}
        BY <3>1, <4>1 DEF Placed, KindAt
      <4>3. f.kind = "chunk" => f.n = Len(rcvd) + 1
        BY <3>1, <4>1 DEF Placed
      <4>4. QED
        BY <3>2, <4>2, <4>3 DEF Expected
    <3>3. CASE sPc \in {"hello1", "hello2", "hello3", "drain", "confirm", "vault"}
      BY <3>1, <3>3 DEF Placed, KindAt, ReadThere, Expected
    <3>4. CASE sPc \notin {"hello1", "hello2", "hello3", "drain", "confirm", "vault", "stream"}
      BY <2>1, <3>4 DEF Expected, Items
    <3>5. QED
      BY <3>2, <3>3, <3>4
  <2>4. QED
    BY <2>2, <2>3
<1>2. QED
  BY <1>1, TypeCorrect, PipeStaysWhole, PTL
===============================================================================
