---------------------------- MODULE DeliveryProofs ----------------------------
(***************************************************************************)
(* What the receiver hands over, that the system keeps the contract of     *)
(* module Delivery, and what becomes of the files, for every choice of the *)
(* constants.                                                              *)
(***************************************************************************)
EXTENDS PipeProofs

\* A sequence of chunks is a beginning of what run c sent.
Begins(c, s) == (\A i \in 1..Len(s) : s[i] = i) /\ Len(s) <= sent[c]

\* Run c has sent all it will, and if that was everything, n is all of it.
Over(c, n) ==
    /\ cPc[c] \in {"finish", "done", "dead"}
    /\ (cPc[c] = "finish" \/ result[c] = "success") => n = Chunks

\* What the receiver hands over of a run, it does once and after the run's last.
HandedOf(c) ==
    delivered[c] # <<>> => /\ Begins(c, delivered[c])
                           /\ Over(c, Len(delivered[c]))
                           /\ c # sConn /\ ~Queued(c)

\* A run refused by its user sends no chunk; a run has a result once it returned.
Settled(c) ==
    /\ verdict[c] = "rejected" => cPc[c] \in {"refuse", "done", "dead"} /\ sent[c] = 0
    /\ result[c] # "none" <=> cPc[c] = "done"

\* The inductive invariant.
Handed ==
    /\ \A c \in Runs : HandedOf(c) /\ Settled(c)
    /\ sConn # NoRun => Begins(sConn, rcvd)
    /\ sPc \in {"decrypt", "save"} => Over(sConn, Len(rcvd))
    /\ sPc = "save" => Len(rcvd) >= HeaderChunks

-------------------------------------------------------------------------------
(* Steps of the sender.                                                     *)

\* What was handed over stays a beginning, and stays all that it must be.
StaysOver(d) == sent'[d] >= sent[d] /\ \A n : Over(d, n) => Over(d, n)'

LEMMA SenderStaysOver ==
    ASSUME TypeOK, TypeOK', Pipe, TrustIsVouched, \A d \in Runs : Settled(d),
           (\E c \in Runs : ClientStep(c)) \/ ClientEnv
    PROVE  \A d \in Runs : StaysOver(d) /\ Settled(d)'
<1> USE DEF Goto, Moves, TypeOK, ClientTypeOK, facts
<1>1. ASSUME NEW c \in Runs, ClientWork(c)
      PROVE  \A d \in Runs : StaysOver(d) /\ Settled(d)'
  <2>1. Alone(c) /\ sent'[c] >= sent[c] /\ UNCHANGED verdict
    <3>1. UNCHANGED verdict
      BY <1>1 DEF ClientWork, SendHello, RecvReply, RefuseReply, AcceptReply, Confirm,
             Approve, Pin, Refuse, SendVault, SendChunk, SendEnd, Finish, ClientRecvFails,
             ClientSendFails, Leaves
    <3>2. QED
      BY <1>1, <3>1, ClientStepWrites DEF Pipe
  <2>2. \A d \in Runs \ {c} : StaysOver(d) /\ Settled(d)'
    BY <2>1 DEF Alone, StaysOver, Over, Settled
  <2>3. \A n : Over(c, n) => Over(c, n)'
    BY <1>1, ClientTables
    DEF Over, ClientWork, SendHello, RecvReply, RefuseReply, AcceptReply, Confirm, Approve, Pin,
        Refuse, SendVault, SendChunk, SendEnd, Finish, ClientRecvFails, ClientSendFails, Leaves,
        Returns, ClientSending
  <2>4. Settled(c)'
    <3>1. CASE cPc[c] = "refuse"
      BY <1>1, <2>1, <3>1, ClientTables
      DEF Settled, ClientWork, SendHello, RecvReply, RefuseReply, AcceptReply, Confirm,
          Approve, Pin, Refuse, SendVault, SendChunk, SendEnd, Finish, ClientRecvFails,
          ClientSendFails, Leaves, Returns, ClientSending
    <3>2. CASE cPc[c] # "refuse"
      <4>1. verdict[c] # "rejected" /\ result[c] = "none"
        BY <1>1, <3>2, ClientTables
        DEF Settled, ClientWork, SendHello, RecvReply, RefuseReply, AcceptReply, Confirm,
            Approve, Pin, Refuse, SendVault, SendChunk, SendEnd, Finish, ClientRecvFails,
            ClientSendFails, Leaves, Returns, ClientSending
      <4>2. (UNCHANGED result /\ cPc'[c] # "done") \/ (result'[c] # "none" /\ cPc'[c] = "done")
        BY <1>1, <4>1, ClientTables
        DEF ClientWork, SendHello, RecvReply, RefuseReply, AcceptReply, Confirm,
            Approve, Pin, Refuse, SendVault, SendChunk, SendEnd, Finish, ClientRecvFails,
            ClientSendFails, Leaves, Returns
      <4>3. QED
        BY <2>1, <4>1, <4>2 DEF Settled
    <3>3. QED
      BY <3>1, <3>2
  <2>5. QED
    BY <2>1, <2>2, <2>3, <2>4 DEF StaysOver
<1>2. ASSUME NEW c \in Runs,
             Connect(c) \/ ConnectFails(c) \/ \E v \in {"approved", "rejected"} : UserAnswers(c, v)
      PROVE  \A d \in Runs : StaysOver(d) /\ Settled(d)'
  <2>1. /\ UNCHANGED sent
        /\ \A d \in Runs \ {c} : UNCHANGED <<cPc[d], verdict[d], result[d]>>
        /\ cPc[c] \in {"idle", "ask"}
    BY <1>2 DEF Connect, ConnectFails, UserAnswers, Leaves, Returns
  <2>2. sent[c] = 0
    BY <2>1 DEF Pipe, Ends
  <2>3. Settled(c)'
    BY <1>2, <2>1, <2>2 DEF Connect, ConnectFails, UserAnswers, Leaves, Returns, Settled
  <2>4. QED
    BY <2>1, <2>3 DEF StaysOver, Over, Settled
<1>3. ASSUME NEW a \in Apps, AppExit(a)
      PROVE  \A d \in Runs : StaysOver(d) /\ Settled(d)'
  <2>1. /\ UNCHANGED <<sent, verdict, result>>
        /\ \A d \in Runs : cPc'[d] = cPc[d] \/ (cPc'[d] = "dead" /\ cPc[d] \notin ClientEnded)
    BY <1>3 DEF AppExit
  <2>2. QED
    BY <2>1 DEF StaysOver, Over, Settled, ClientEnded
<1>4. QED
  BY <1>1, <1>2, <1>3 DEF ClientStep, ClientEnv

LEMMA HandedClientStep ==
    ASSUME TypeOK, TypeOK', FreshSenders, Pipe, TrustIsVouched, Handed, UNCHANGED server,
           (\E c \in Runs : ClientStep(c)) \/ ClientEnv
    PROVE  Handed'
<1>1. \A d \in Runs : StaysOver(d) /\ Settled(d)'
  BY SenderStaysOver DEF Handed
<1>2. UNCHANGED <<sPc, sConn, rcvd, delivered>>
  BY DEF server, record, outputs
<1>3. \A d \in Runs : delivered[d] # <<>> /\ ~Queued(d) => ~Queued(d)'
  <2> SUFFICES ASSUME NEW d \in Runs, cPc[d] # "idle", ~Queued(d) PROVE ~Queued(d)'
    BY DEF Handed, HandedOf, Over
  <2>1. UNCHANGED backlog \/ \E c \in Runs : cPc[c] = "idle" /\ backlog' = Append(backlog, c)
    <3>1. ASSUME NEW c \in Runs, ClientWork(c) PROVE UNCHANGED backlog
      BY <3>1, ClientStepWrites DEF Pipe
    <3>2. QED
      BY <3>1 DEF ClientStep, ClientEnv, Connect, ConnectFails, UserAnswers, AppExit, Leaves, net,
                  Moves
  <2>2. backlog \in Seq(Runs)
    BY DEF TypeOK, TransportTypeOK
  <2>3. QED
    BY <2>1, <2>2 DEF Queued
<1>4. \A d \in Runs : Begins(d, rcvd) => Begins(d, rcvd)'
  BY <1>1, <1>2 DEF Begins, StaysOver, TypeOK, ClientTypeOK, ServerTypeOK
<1>5. \A d \in Runs : Begins(d, delivered[d]) => Begins(d, delivered[d])'
  BY <1>1, <1>2 DEF Begins, StaysOver, TypeOK, ClientTypeOK, ServerTypeOK
<1>6. \A d \in Runs : HandedOf(d)'
  BY <1>1, <1>2, <1>3, <1>5 DEF Handed, HandedOf, StaysOver
<1>7. /\ sConn' # NoRun => Begins(sConn, rcvd)'
      /\ sPc' \in {"decrypt", "save"} => Over(sConn, Len(rcvd))'
  BY <1>1, <1>2, <1>4, ServerTables
  DEF Handed, StaysOver, TypeOK, ServerTypeOK, ServerBusy, ServerReading
<1>8. QED
  BY <1>1, <1>2, <1>6, <1>7 DEF Handed

-------------------------------------------------------------------------------
(* Steps of the receiver.                                                   *)

\* A step that hands nothing over.
LEMMA NothingHanded ==
    ASSUME TypeOK, Handed, UNCHANGED client, UNCHANGED delivered,
           \A d \in Runs : Queued(d)' => Queued(d),
           sConn' \in {NoRun, sConn} \/ Queued(sConn'),
           sConn' # NoRun => Begins(sConn', rcvd'),
           sPc' \in {"decrypt", "save"} => Over(sConn', Len(rcvd')),
           sPc' = "save" => Len(rcvd') >= HeaderChunks
    PROVE  Handed'
<1>1. UNCHANGED <<sent, cPc, result, verdict>>
  BY DEF client, facts
<1>2. \A d \in Runs : Settled(d)'
  BY <1>1 DEF Handed, Settled
<1>3. ASSUME NEW d \in Runs PROVE HandedOf(d)'
  <2>1. delivered[d] # <<>> => d # sConn' /\ ~Queued(d)'
    BY TransportAssumption DEF Handed, HandedOf
  <2>2. QED
    BY <1>1, <2>1 DEF Handed, HandedOf, Begins, Over
<1>4. /\ sConn' # NoRun => Begins(sConn, rcvd)'
      /\ sPc' \in {"decrypt", "save"} => Over(sConn, Len(rcvd))'
  BY <1>1 DEF Begins, Over
<1>5. QED
  BY <1>2, <1>3, <1>4 DEF Handed

\* A step that closes the connection, having handed all it read over or nothing.
LEMMA HandedHangup ==
    ASSUME TypeOK, TypeOK', FreshSenders, Handed, UNCHANGED client, Hangup,
           \/ UNCHANGED delivered
           \/ /\ sPc \in {"decrypt", "save"}
              /\ delivered' = [delivered EXCEPT ![sConn] = rcvd]
    PROVE  Handed'
<1>1. /\ sPc' = "accept" /\ sConn' = NoRun
      /\ \A d \in Runs : UNCHANGED Queued(d)
      /\ UNCHANGED <<sent, cPc, result, verdict>>
  BY DEF Hangup, Queued, client, facts
<1>2. CASE UNCHANGED delivered
  BY <1>1, <1>2, NothingHanded
<1>3. CASE /\ sPc \in {"decrypt", "save"}
           /\ delivered' = [delivered EXCEPT ![sConn] = rcvd]
  <2>1. sConn \in Runs /\ ~Queued(sConn)
    BY <1>3 DEF TypeOK, ServerTypeOK, ServerBusy, FreshSenders
  <2>2. Begins(sConn, rcvd) /\ Over(sConn, Len(rcvd))
    BY <1>3, <2>1, TransportAssumption DEF Handed
  <2>3. ASSUME NEW d \in Runs PROVE HandedOf(d)'
    <3>1. d # sConn'
      BY <1>1, TransportAssumption
    <3>2. CASE d = sConn
      <4>1. delivered'[d] = rcvd
        BY <1>3, <3>2 DEF TypeOK, ServerTypeOK
      <4>2. QED
        BY <1>1, <2>1, <2>2, <3>1, <3>2, <4>1 DEF HandedOf, Begins, Over
    <3>3. CASE d # sConn
      <4>1. UNCHANGED delivered[d]
        BY <1>3, <3>3 DEF TypeOK, ServerTypeOK
      <4>2. QED
        BY <1>1, <3>1, <4>1 DEF Handed, HandedOf, Begins, Over
    <3>4. QED
      BY <3>2, <3>3
  <2>4. QED
    BY <1>1, <2>3 DEF Handed, Settled
<1>4. QED
  BY <1>2, <1>3

\* All that its run has sent or will send is read when the receiver stops reading.
LEMMA ReadAll ==
    ASSUME TypeOK, FreshSenders, Pipe, Handed, sPc = "stream", RecvEnd \/ StreamEof
    PROVE  Over(sConn, Len(rcvd))
<1> DEFINE c == sConn
<1>1. /\ c \in Runs /\ c2s[c] \in Seq(Items) /\ rcvd \in Seq(Nat) /\ sent[c] \in 0..Chunks
      /\ Len(rcvd) <= sent[c] /\ Chunks \in Nat /\ cPc[c] # "idle"
  BY TransportAssumption
  DEF TypeOK, ServerTypeOK, TransportTypeOK, ClientTypeOK, ServerBusy, ServerReading, Handed,
      Begins, FreshSenders
<1>2. /\ \A i \in 1..Len(c2s[c]) : Placed(c, c2s[c][i], 5 + Len(rcvd) + i)
      /\ Speaks(c) => Written(c) = 5 + Len(rcvd) + Len(c2s[c])
  BY <1>1 DEF Pipe, PipeOf, Heard, Read, ReadThere
<1>3. CASE RecvEnd
  <2>1. c2s[c] # <<>> /\ c2s[c][1].kind = "end"
    BY <1>1, <1>3 DEF RecvEnd, ServerTakes
  <2>2. 1 \in 1..Len(c2s[c])
    BY <1>1, <2>1
  <2>3. "end" \in KindAt(5 + Len(rcvd) + 1)
    BY <1>2, <2>1, <2>2 DEF Placed
  <2>4. 5 + Len(rcvd) + 1 = LastItem
    BY <2>3 DEF KindAt
  <2>5. Len(rcvd) = Chunks
    BY <1>1, <2>4 DEF LastItem
  <2>6. cPc[c] \in {"finish", "done", "dead"}
    <3> SUFFICES ASSUME cPc[c] \notin {"finish", "done", "dead"} PROVE FALSE
      OBVIOUS
    <3>1. Len(c2s[c]) \in Nat /\ Len(c2s[c]) >= 1
      BY <1>1, <2>2
    <3>2. Speaks(c) /\ Written(c) \in Nat /\ Written(c) <= 5 + Chunks
      BY <1>1 DEF Speaks, Written
    <3>3. Written(c) = 5 + Chunks + Len(c2s[c])
      BY <1>2, <2>5, <3>2
    <3>4. Chunks \in Nat
      BY <1>1
    <3>5. ASSUME NEW w \in Nat, NEW n \in Nat, n >= 1, w <= 5 + Chunks
          PROVE  w # 5 + Chunks + n
      BY <3>4, <3>5
    <3>6. QED
      BY <3>1, <3>2, <3>3, <3>5
  <2>7. QED
    BY <2>5, <2>6 DEF Over
<1>4. CASE StreamEof
  <2>1. c2s[c] = <<>> /\ ~cOpen[c]
    BY <1>4 DEF StreamEof, ServerAtEof
  <2>2. cPc[c] \in ClientEnded
    BY <1>1, <2>1 DEF Pipe, Ends
  <2>3. result[c] # "success"
    <3>1. ASSUME result[c] = "success" PROVE Speaks(c) /\ Written(c) = 6 + Chunks
      BY <1>1, <2>2, <3>1 DEF Handed, Settled, Speaks, Written, LastItem
    <3>2. Len(c2s[c]) = 0
      BY <2>1
    <3>3. QED
      BY <1>1, <1>2, <3>1, <3>2
  <2>4. QED
    BY <2>2, <2>3 DEF Over, ClientEnded
<1>5. QED
  BY <1>3, <1>4

LEMMA HandedServerStep ==
    ASSUME TypeOK, TypeOK', FreshSenders, Pipe, Handed, ServerWork, UNCHANGED client
    PROVE  Handed'
<1> USE ServerTables, TransportAssumption DEF Steps, record, net
<1>1. CASE Accept
  <2>1. /\ backlog \in Seq(Runs) /\ backlog # <<>>
        /\ sPc' = "hello1" /\ sConn' = Head(backlog)
        /\ backlog' = Tail(backlog)
        /\ rcvd' = <<>>
        /\ UNCHANGED delivered
    BY <1>1 DEF Accept, TypeOK, TransportTypeOK, Pipe, outputs
  <2>2. Queued(sConn') /\ \A d \in Runs : Queued(d)' => Queued(d)
    BY <2>1 DEF Queued
  <2>3. Begins(sConn', rcvd')
    <3>1. sConn' \in Runs
      BY <2>1
    <3>2. QED
      BY <2>1, <3>1 DEF Begins, TypeOK, ClientTypeOK
  <2>4. QED
    BY <2>1, <2>2, <2>3, NothingHanded
<1>2. CASE RecvHello \/ DrainByte \/ RecvConfirm \/ RecvVault \/ AcceptHello \/ SkipSas \/ ShowSas
           \/ SendReply \/ DrainEof
  <2>1. /\ UNCHANGED <<backlog, sConn, rcvd, delivered>>
        /\ sPc' \notin {"decrypt", "save"}
    BY <1>2 DEF RecvHello, DrainByte, RecvConfirm, RecvVault, AcceptHello, SkipSas, ShowSas,
                SasThen, SendReply, DrainEof, ServerTakes, ServerPuts, outputs
  <2>2. QED
    BY <2>1, NothingHanded DEF Queued, Handed
<1>3. CASE RecvChunk
  <2> DEFINE f == Head(c2s[sConn])
  <2>1. /\ sConn \in Runs /\ c2s[sConn] \in Seq(Items) /\ c2s[sConn] # <<>> /\ f = c2s[sConn][1]
        /\ rcvd \in Seq(Nat) /\ sPc = "stream" /\ sPc' = "stream"
        /\ rcvd' = Append(rcvd, f.n)
        /\ UNCHANGED <<backlog, sConn, delivered>>
    BY <1>3 DEF RecvChunk, ServerTakes, TypeOK, TransportTypeOK, ServerTypeOK, ServerBusy,
                ServerReading, outputs
  <2>2. Placed(sConn, f, 5 + Len(rcvd) + 1)
    <3>1. 1 \in 1..Len(c2s[sConn])
      BY <2>1
    <3>2. QED
      BY <2>1, <3>1 DEF Pipe, PipeOf, Heard, Read, ReadThere
  <2>3. f.kind = "chunk"
    <3>1. Len(rcvd) \in Nat /\ f.kind # "end"
      BY <1>3, <2>1 DEF RecvChunk
    <3>2. QED
      BY <2>2, <3>1 DEF Placed, KindAt
  <2>4. f.n = Len(rcvd) + 1 /\ f.n <= sent[sConn]
    BY <2>1, <2>2, <2>3 DEF Placed
  <2>5. Begins(sConn, rcvd)
    BY <2>1 DEF Handed
  <2>6. Begins(sConn', rcvd')
    BY <2>1, <2>4, <2>5 DEF Begins
  <2>7. QED
    BY <2>1, <2>6, NothingHanded DEF Queued
<1>4. CASE RecvEnd \/ StreamEof
  <2>1. /\ sPc = "stream" /\ sPc' = "decrypt"
        /\ UNCHANGED <<backlog, sConn, rcvd, delivered>>
    BY <1>4 DEF RecvEnd, StreamEof, ServerTakes, outputs
  <2>2. Over(sConn, Len(rcvd))
    BY <1>4, <2>1, ReadAll
  <2>3. QED
    BY <2>1, <2>2, NothingHanded DEF Queued, Handed
<1>5. CASE OpenFile
  <2>1. /\ sPc = "decrypt" /\ sPc' = "save" /\ Len(rcvd) >= HeaderChunks
        /\ UNCHANGED <<backlog, sConn, rcvd, delivered>>
    BY <1>5 DEF OpenFile, HeaderWhole
  <2>2. QED
    BY <2>1, NothingHanded DEF Queued, Handed
<1>6. CASE RefuseHello \/ RecvReject \/ RefuseVault \/ DropPayload \/ ServerRecvFails
           \/ ServerSendFails
  BY <1>6, HandedHangup
  DEF RefuseHello, RecvReject, RefuseVault, DropPayload, ServerRecvFails, ServerSendFails, Drops,
      DropsItem, outputs
<1>7. CASE DeliverText \/ SaveFile
  BY <1>7, HandedHangup DEF DeliverText, SaveFile, Delivers
<1>8. QED
  BY <1>1, <1>2, <1>3, <1>4, <1>5, <1>6, <1>7 DEF ServerWork

LEMMA HandedServerEnv ==
    ASSUME TypeOK, Handed, ServerEnv, UNCHANGED client
    PROVE  Handed'
<1>1. CASE Start
  BY <1>1, NothingHanded, ServerTables
  DEF Start, Steps, Queued, outputs, TypeOK, ServerTypeOK, ServerBusy, ServerReading
<1>2. CASE Stop
  BY <1>2, NothingHanded DEF Stop, Queued, outputs
<1>3. QED
  BY <1>1, <1>2, ServerEnv DEF ServerEnv

LEMMA HandedStays == Spec => []Handed
<1>1. Init => Handed
  BY TransportAssumption
  DEF Init, TransportInit, ClientInit, ServerInit, Handed, HandedOf, Settled
<1>2. TypeOK /\ TypeOK' /\ FreshSenders /\ Pipe /\ TrustIsVouched /\ Handed /\ [Next]_vars
          => Handed'
  <2> SUFFICES ASSUME TypeOK, TypeOK', FreshSenders, Pipe, TrustIsVouched, Handed, [Next]_vars
               PROVE  Handed'
    OBVIOUS
  <2>1. CASE UNCHANGED vars
    BY <2>1, NothingHanded DEF vars, net, server, record, outputs, Queued, Handed
  <2>2. QED
    BY <2>1, HandedClientStep, HandedServerStep, HandedServerEnv DEF Next, ClientStep, ServerStep
<1>3. QED
  BY <1>1, <1>2, TypeCorrect, SendersStayFresh, TrustStaysVouched, PipeStaysWhole, PTL DEF Spec

\* What reaches the receiver's user is a beginning of what was sent, in order, and
\* all of it when the sender reported success, however the two sides fail, restart
\* or overlap (server.py:172-197, client.py:145-149).
THEOREM DeliveriesAreBeginnings == Spec => []DeliveredIsPrefix
<1>1. Handed => DeliveredIsPrefix
  BY DEF Handed, HandedOf, Begins, Over, DeliveredIsPrefix
<1>2. QED
  BY <1>1, HandedStays, PTL

-------------------------------------------------------------------------------
(* The contract.                                                            *)

\* The state of module Delivery, as it reads in Session.
Status(c) == IF cPc[c] = "dead" THEN "died" ELSE IF result[c] = "none" THEN "pending" ELSE result[c]
Got(c) == Len(delivered[c])
Refused == {c \in Runs : verdict[c] = "rejected"}

StatusKeeps(d) == Status(d)' = Status(d)
GotKeeps == \A d \in Runs : Got(d)' = Got(d)

\* A step seen in one of the three, on one run.
LEMMA ContractStep ==
    ASSUME NEW c \in Runs,
           \/ /\ GotKeeps
              /\ \A d \in Runs : StatusKeeps(d)
              /\ Status(c) = "pending" /\ Got(c) = 0
              /\ Refused' = Refused \cup {c}
           \/ /\ GotKeeps /\ Refused' = Refused
              /\ \A d \in Runs \ {c} : StatusKeeps(d)
              /\ Status(c) = "pending" /\ Status(c)' = "success" /\ c \notin Refused
           \/ /\ GotKeeps /\ Refused' = Refused
              /\ \A d \in Runs \ {c} : StatusKeeps(d)
              /\ Status(c) = "pending" /\ Status(c)' = "failed" /\ Got(c) = 0
           \/ /\ Refused' = Refused
              /\ \A d \in Runs : StatusKeeps(d)
              /\ \A d \in Runs \ {c} : Got(d)' = Got(d)
              /\ Got(c) = 0 /\ c \notin Refused /\ Got(c)' \in 1..Chunks
              /\ Status(c) \in {"pending", "success"} => Got(c)' = Chunks
    PROVE  Contract!Next
<1> DEFINE status == [d \in Runs |-> Status(d)]
           got == [d \in Runs |-> Got(d)]
<1>1. \A to : (Status(c)' = to /\ \A d \in Runs \ {c} : StatusKeeps(d))
                 => status' = [status EXCEPT ![c] = to]
  BY DEF StatusKeeps
<1>2. (\A d \in Runs : StatusKeeps(d)) => status' = status
  BY DEF StatusKeeps
<1>3. GotKeeps => got' = got
  BY DEF GotKeeps
<1>4. \A n : (Got(c)' = n /\ \A d \in Runs \ {c} : Got(d)' = Got(d)) => got' = [got EXCEPT ![c] = n]
  OBVIOUS
<1>5. status[c] = Status(c) /\ got[c] = Got(c)
  OBVIOUS
<1> HIDE DEF status, got
<1>6. \/ /\ status[c] = "pending" /\ got[c] = 0
         /\ Refused' = Refused \cup {c} /\ status' = status /\ got' = got
      \/ /\ status[c] = "pending" /\ c \notin Refused
         /\ status' = [status EXCEPT ![c] = "success"]
         /\ got' = got /\ Refused' = Refused
      \/ /\ status[c] = "pending" /\ got[c] = 0
         /\ status' = [status EXCEPT ![c] = "failed"]
         /\ got' = got /\ Refused' = Refused
      \/ \E n \in 1..Chunks :
            /\ got[c] = 0 /\ c \notin Refused
            /\ status[c] \in {"pending", "success"} => n = Chunks
            /\ got' = [got EXCEPT ![c] = n]
            /\ status' = status /\ Refused' = Refused
  BY <1>1, <1>2, <1>3, <1>4, <1>5
<1>7. Contract!Refuse(c) \/ Contract!Succeed(c) \/ Contract!Fail(c)
      \/ \E n \in 1..Chunks : Contract!Deliver(c, n)
  BY <1>6 DEF Contract!Refuse, Contract!Succeed, Contract!Fail, Contract!Deliver, status, got,
              Status, Got, Refused
<1>8. QED
  BY <1>7 DEF Contract!Next

\* Nothing that the contract speaks of changes.
Unseen == GotKeeps /\ Refused' = Refused /\ \A d \in Runs : StatusKeeps(d)

LEMMA UnseenStep ==
    ASSUME UNCHANGED <<verdict, result>>, UNCHANGED cPc \/ \A d \in Runs : cPc'[d] # "dead" /\ cPc[d] # "dead",
           UNCHANGED delivered
    PROVE  Unseen
BY DEF Unseen, GotKeeps, Got, Refused, StatusKeeps, Status

\* What a run has been handed over of is past failing and refusing.
LEMMA HandedIsPast ==
    ASSUME TypeOK, Handed, NEW c \in Runs, cPc[c] \notin {"finish", "done", "dead"}
    PROVE  Got(c) = 0
<1>1. delivered[c] = <<>>
  BY DEF Handed, HandedOf, Over
<1>2. QED
  BY <1>1 DEF Got

LEMMA ContractClientStep ==
    ASSUME TypeOK, Handed, NEW c \in Runs, ClientWork(c), UNCHANGED server
    PROVE  Contract!Next \/ Unseen
<1> USE DEF Goto, Moves, TypeOK, ClientTypeOK, facts
<1>1. /\ UNCHANGED <<verdict, delivered>>
      /\ \A d \in Runs \ {c} : UNCHANGED <<cPc[d], result[d]>>
  BY DEF ClientWork, SendHello, RecvReply, RefuseReply, AcceptReply, Confirm, Approve, Pin,
         Refuse, SendVault, SendChunk, SendEnd, Finish, ClientRecvFails, ClientSendFails, Leaves,
         Returns, server, record, outputs
<1>2. GotKeeps /\ Refused' = Refused /\ \A d \in Runs \ {c} : StatusKeeps(d)
  BY <1>1 DEF GotKeeps, Got, Refused, StatusKeeps, Status
<1>3. CASE SendHello(c) \/ RecvReply(c) \/ AcceptReply(c) \/ Confirm(c) \/ Approve(c) \/ Pin(c)
           \/ SendVault(c) \/ SendChunk(c) \/ SendEnd(c)
  <2>1. result'[c] = result[c] /\ cPc[c] # "dead" /\ cPc'[c] # "dead"
    BY <1>3, ClientTables
    DEF SendHello, RecvReply, AcceptReply, Confirm, Approve, Pin, SendVault, SendChunk, SendEnd
  <2>2. QED
    BY <1>2, <2>1 DEF Unseen, StatusKeeps, Status
<1>4. CASE RefuseReply(c) \/ Refuse(c) \/ ClientRecvFails(c) \/ ClientSendFails(c)
  <2>1. /\ result'[c] = "failed" /\ cPc'[c] = "done"
        /\ cPc[c] \notin {"finish", "done", "dead"}
    BY <1>4, ClientTables
    DEF RefuseReply, Refuse, ClientRecvFails, ClientSendFails, ClientSending, Leaves, Returns
  <2>2. Status(c) = "pending" /\ Status(c)' = "failed"
    BY <2>1 DEF Status, Handed, Settled
  <2>3. Got(c) = 0
    BY <2>1, HandedIsPast
  <2>4. QED
    BY <1>2, <2>2, <2>3, ContractStep
<1>5. CASE Finish(c)
  <2>1. cPc[c] = "finish" /\ result'[c] = "success" /\ cPc'[c] = "done"
    BY <1>5 DEF Finish, Leaves, Returns
  <2>2. Status(c) = "pending" /\ Status(c)' = "success" /\ c \notin Refused
    BY <2>1 DEF Status, Handed, Settled, Refused
  <2>3. QED
    BY <1>2, <2>2, ContractStep
<1>6. QED
  BY <1>3, <1>4, <1>5 DEF ClientWork

LEMMA ContractEnvStep ==
    ASSUME TypeOK, Handed, ClientEnv, UNCHANGED server
    PROVE  Contract!Next \/ Unseen
<1> USE DEF Goto, Moves, TypeOK, ClientTypeOK, facts
<1>1. UNCHANGED delivered /\ GotKeeps
  BY DEF server, record, outputs, GotKeeps, Got
<1>2. ASSUME NEW c \in Runs, Connect(c) \/ UserAnswers(c, "approved")
      PROVE  Unseen
  <2>1. \A d \in Runs : result'[d] = result[d] /\ (cPc'[d] = cPc[d] \/ (cPc[d] # "dead" /\ cPc'[d] # "dead"))
    BY <1>2 DEF Connect, UserAnswers
  <2>2. Refused' = Refused
    BY <1>2 DEF Connect, UserAnswers, Handed, Settled, Refused
  <2>3. QED
    BY <1>1, <2>1, <2>2 DEF Unseen, StatusKeeps, Status
<1>3. ASSUME NEW c \in Runs, ConnectFails(c)
      PROVE  Contract!Next
  <2>1. /\ UNCHANGED verdict
        /\ \A d \in Runs \ {c} : UNCHANGED <<cPc[d], result[d]>>
        /\ cPc[c] = "idle" /\ cPc'[c] = "done" /\ result'[c] = "failed"
    BY <1>3 DEF ConnectFails, Leaves, Returns
  <2>2. Status(c) = "pending" /\ Status(c)' = "failed" /\ Got(c) = 0
    BY <2>1, HandedIsPast DEF Status, Handed, Settled
  <2>3. Refused' = Refused /\ \A d \in Runs \ {c} : StatusKeeps(d)
    BY <2>1 DEF Refused, StatusKeeps, Status
  <2>4. QED
    BY <1>1, <2>2, <2>3, ContractStep
<1>4. ASSUME NEW c \in Runs, UserAnswers(c, "rejected")
      PROVE  Contract!Next
  <2>1. /\ verdict' = [verdict EXCEPT ![c] = "rejected"]
        /\ UNCHANGED result
        /\ \A d \in Runs \ {c} : UNCHANGED cPc[d]
        /\ cPc[c] = "ask" /\ cPc'[c] = "refuse"
    BY <1>4 DEF UserAnswers
  <2>2. Status(c) = "pending" /\ Got(c) = 0
    BY <2>1, HandedIsPast DEF Status, Handed, Settled
  <2>3. Refused' = Refused \cup {c} /\ \A d \in Runs : StatusKeeps(d)
    BY <2>1 DEF Refused, StatusKeeps, Status
  <2>4. QED
    BY <1>1, <2>2, <2>3, ContractStep
<1>5. ASSUME NEW a \in Apps, AppExit(a)
      PROVE  Contract!Next
  <2> DEFINE gone == {c \in Runs : AppOf[c] = a /\ cPc[c] \notin ClientEnded}
  <2>1. /\ UNCHANGED <<verdict, result>>
        /\ cPc' = [c \in Runs |-> IF c \in gone THEN "dead" ELSE cPc[c]]
    BY <1>5 DEF AppExit
  <2>2. \A c \in gone : Status(c) = "pending"
    BY DEF Status, Handed, Settled, ClientEnded
  <2>3. \A c \in Runs : Status(c)' = IF c \in gone THEN "died" ELSE Status(c)
    BY <2>1 DEF Status
  <2>4. PICK T \in SUBSET Runs : T = gone
    OBVIOUS
  <2>5. Contract!Die(T)
    BY <1>1, <2>1, <2>2, <2>3, <2>4 DEF Contract!Die, Status
  <2>6. QED
    BY <2>5 DEF Contract!Next
<1>6. QED
  BY <1>2, <1>3, <1>4, <1>5 DEF ClientEnv

LEMMA ContractServerStep ==
    ASSUME TypeOK, Handed, ServerWork \/ ServerEnv, UNCHANGED client
    PROVE  Contract!Next \/ Unseen
<1>1. UNCHANGED <<cPc, verdict, result>> /\ Refused' = Refused /\ \A d \in Runs : StatusKeeps(d)
  BY DEF client, facts, Refused, StatusKeeps, Status
<1>2. CASE UNCHANGED delivered
  BY <1>1, <1>2, UnseenStep
<1>3. CASE DeliverText \/ SaveFile
  <2>1. /\ sPc \in {"decrypt", "save"} /\ sConn \in Runs
        /\ delivered' = [delivered EXCEPT ![sConn] = rcvd]
        /\ Len(rcvd) >= HeaderChunks
    BY <1>3 DEF DeliverText, SaveFile, Delivers, HeaderWhole, Handed, TypeOK, ServerTypeOK,
                ServerBusy
  <2>2. Begins(sConn, rcvd) /\ Over(sConn, Len(rcvd)) /\ delivered[sConn] = <<>>
    BY <2>1, TransportAssumption DEF Handed, HandedOf
  <2>3. Len(rcvd) \in 1..Chunks /\ sent[sConn] > 0
    BY <2>1, <2>2, ServerAssumption, TransportAssumption
    DEF Begins, TypeOK, ClientTypeOK, ServerTypeOK
  <2>4. /\ Got(sConn) = 0 /\ \A c : c = sConn => Got(c)' = Len(rcvd)
        /\ \A d \in Runs \ {sConn} : Got(d)' = Got(d)
    BY <2>1, <2>2 DEF Got, TypeOK, ServerTypeOK
  <2>5. sConn \notin Refused
    BY <2>1, <2>3 DEF Refused, Handed, Settled
  <2>6. Status(sConn) \in {"pending", "success"} => Len(rcvd) = Chunks
    BY <2>1, <2>2 DEF Status, Over, Handed, Settled, TypeOK, ClientTypeOK
  <2>7. PICK c \in Runs : c = sConn
    BY <2>1
  <2>8. QED
    BY <1>1, <2>3, <2>4, <2>5, <2>6, <2>7, ContractStep
<1>4. ServerWork \/ ServerEnv => UNCHANGED delivered \/ DeliverText \/ SaveFile
  BY DEF ServerWork, ServerEnv, Start, Stop, Accept, RecvHello, AcceptHello, RefuseHello, SendReply,
         SkipSas, ShowSas, DrainByte, DrainEof, RecvConfirm, RecvReject, RecvVault, RefuseVault,
         RecvChunk, RecvEnd, StreamEof, OpenFile, DropPayload, ServerRecvFails, ServerSendFails,
         Drops, DropsItem, record, outputs
<1>5. QED
  BY <1>2, <1>3, <1>4

\* The system keeps its contract: at most one delivery, whole or nothing while the
\* sender runs and after it succeeded, a part only after it failed or died, and
\* nothing of what its user refused.
THEOREM ContractIsKept == Spec => ContractSpec
<1>1. Init => Contract!Init
  BY DEF Init, ClientInit, ServerInit, Contract!Init
<1>2. TypeOK /\ Handed /\ [Next]_vars => Contract!Next \/ Unseen
  <2> SUFFICES ASSUME TypeOK, Handed, [Next]_vars PROVE Contract!Next \/ Unseen
    OBVIOUS
  <2>1. CASE UNCHANGED vars
    BY <2>1, UnseenStep DEF vars, client, facts, server, record, outputs
  <2>2. QED
    BY <2>1, ContractClientStep, ContractEnvStep, ContractServerStep
    DEF Next, ClientStep, ServerStep
<1>3. Unseen => UNCHANGED <<[c \in Runs |-> IF cPc[c] = "dead" THEN "died"
                              ELSE IF result[c] = "none" THEN "pending" ELSE result[c]],
                            [c \in Runs |-> Len(delivered[c])],
                            {c \in Runs : verdict[c] = "rejected"}>>
  BY DEF Unseen, GotKeeps, Got, StatusKeeps, Status, Refused
<1>4. QED
  BY <1>1, <1>2, <1>3, TypeCorrect, HandedStays, PTL DEF Spec, ContractSpec, Contract!Spec

-------------------------------------------------------------------------------
(* The files.                                                               *)

\* Run d sends another file of the name of that of run c, and has sent its header.
Replaces(d, c) ==
    /\ d # c
    /\ Meta[d] = "file"
    /\ NameOf[d] = NameOf[c]
    /\ sent[d] >= HeaderChunks

\* A file of run c is on the disk, or replaced.
KeptOf(c) ==
    delivered[c] # <<>> /\ Meta[c] = "file" =>
        disk[NameOf[c]] = c \/ \E d \in Runs : Replaces(d, c)

\* The inductive invariant.
Kept == 
    /\ \A c \in Runs : KeptOf(c)
    /\ sPc = "save" => Meta[sConn] = "file"

\* A step of the receiver that writes no file leaves the files as they are.
LEMMA KeptAside ==
    ASSUME TypeOK, Kept, UNCHANGED <<sent, disk>>,
           \A c \in Runs : Meta[c] = "file" => UNCHANGED delivered[c],
           sPc' = "save" => Meta[sConn'] = "file"
    PROVE  Kept'
<1>1. ASSUME NEW c \in Runs PROVE KeptOf(c)'
  <2>1. \A d \in Runs : Replaces(d, c) => Replaces(d, c)'
    BY DEF Replaces
  <2>2. QED
    BY <2>1 DEF Kept, KeptOf
<1>2. QED
  BY <1>1 DEF Kept

\* A step that opens or fills the file of the run being served.
LEMMA KeptWritten ==
    ASSUME TypeOK, Kept, Handed, UNCHANGED sent, sPc \in {"decrypt", "save"},
           Len(rcvd) >= HeaderChunks, Meta[sConn] = "file",
           NEW r \in {NoRun, sConn}, disk' = [disk EXCEPT ![NameOf[sConn]] = r],
           \A c \in Runs \ {sConn} : UNCHANGED delivered[c],
           delivered'[sConn] = delivered[sConn] \/ r = sConn,
           sPc' = "save" => sConn' = sConn
    PROVE  Kept'
<1>1. /\ sConn \in Runs /\ NameOf \in [Runs -> Names] /\ disk \in [Names -> Runs \cup {NoRun}]
      /\ sConn # NoRun
  BY ServerAssumption, TransportAssumption DEF TypeOK, ServerTypeOK, ServerBusy
<1>2. Len(rcvd) <= sent[sConn] /\ sent[sConn] \in Nat /\ Len(rcvd) \in Nat /\ HeaderChunks \in Nat
  BY <1>1, ServerAssumption, TransportAssumption
  DEF Handed, Begins, TypeOK, ClientTypeOK, ServerTypeOK
<1>3. delivered[sConn] = <<>>
  BY <1>1 DEF Handed, HandedOf
<1>4. ASSUME NEW c \in Runs PROVE KeptOf(c)'
  <2>1. CASE c = sConn
    BY <1>1, <1>3, <2>1 DEF KeptOf
  <2>2. CASE c # sConn /\ NameOf[c] = NameOf[sConn]
    <3>1. \E d \in Runs : Replaces(d, c)'
      <4>1. ASSUME NEW d \in Runs, d = sConn PROVE Replaces(d, c)'
        BY <1>2, <2>2, <4>1 DEF Replaces
      <4>2. QED
        BY <1>1, <4>1
    <3>2. QED
      BY <1>1, <3>1 DEF KeptOf
  <2>3. CASE NameOf[c] # NameOf[sConn]
    <3>1. c # sConn /\ disk'[NameOf[c]] = disk[NameOf[c]]
      BY <1>1, <2>3
    <3>2. \A d \in Runs : Replaces(d, c) => Replaces(d, c)'
      BY DEF Replaces
    <3>3. QED
      BY <3>1, <3>2 DEF Kept, KeptOf
  <2>4. QED
    BY <2>1, <2>2, <2>3
<1>5. QED
  BY <1>4 DEF Kept

LEMMA KeptServerStep ==
    ASSUME TypeOK, Handed, Kept, ServerWork, UNCHANGED client
    PROVE  Kept'
<1> USE DEF Steps, record, outputs
<1>0. UNCHANGED sent
  BY DEF client
<1>1. CASE OpenFile
  BY <1>0, <1>1, KeptWritten DEF OpenFile, HeaderWhole
<1>2. CASE SaveFile
  <2>1. sPc = "save" /\ Len(rcvd) >= HeaderChunks /\ Meta[sConn] = "file" /\ sConn \in Runs
    BY <1>2 DEF SaveFile, Handed, Kept, TypeOK, ServerTypeOK, ServerBusy
  <2>2. /\ disk' = [disk EXCEPT ![NameOf[sConn]] = sConn]
        /\ delivered' = [delivered EXCEPT ![sConn] = rcvd]
        /\ sPc' = "accept"
    BY <1>2 DEF SaveFile, Delivers, Hangup
  <2>3. \A c \in Runs \ {sConn} : UNCHANGED delivered[c]
    BY <2>2 DEF TypeOK, ServerTypeOK
  <2>4. QED
    BY <1>0, <2>1, <2>2, <2>3, KeptWritten
<1>3. CASE DeliverText
  <2>1. /\ delivered' = [delivered EXCEPT ![sConn] = rcvd] /\ UNCHANGED disk
        /\ Meta[sConn] = "text" /\ sPc' = "accept"
    BY <1>3 DEF DeliverText, Delivers, Hangup
  <2>2. \A c \in Runs : Meta[c] = "file" => UNCHANGED delivered[c]
    BY <2>1 DEF TypeOK, ServerTypeOK
  <2>3. QED
    BY <1>0, <2>1, <2>2, KeptAside
<1>4. CASE Accept \/ RecvHello \/ AcceptHello \/ RefuseHello \/ SendReply \/ SkipSas \/ ShowSas
           \/ DrainByte \/ DrainEof \/ RecvConfirm \/ RecvReject \/ RecvVault \/ RefuseVault
           \/ RecvChunk \/ RecvEnd \/ StreamEof \/ DropPayload \/ ServerRecvFails \/ ServerSendFails
  <2>1. UNCHANGED <<disk, delivered>> /\ sPc' # "save"
    BY <1>4, ServerTables
    DEF Accept, RecvHello, AcceptHello, RefuseHello, SendReply, SkipSas, ShowSas, SasThen,
        DrainByte, DrainEof, RecvConfirm, RecvReject, RecvVault, RefuseVault, RecvChunk, RecvEnd,
        StreamEof, DropPayload, ServerRecvFails, ServerSendFails, Drops, DropsItem, Hangup
  <2>2. QED
    BY <1>0, <2>1, KeptAside
<1>5. QED
  BY <1>1, <1>2, <1>3, <1>4 DEF ServerWork

LEMMA KeptOtherStep ==
    ASSUME TypeOK, TypeOK', Pipe, TrustIsVouched, Handed, Kept,
           \/ ((\E c \in Runs : ClientStep(c)) \/ ClientEnv) /\ UNCHANGED server
           \/ ServerEnv /\ UNCHANGED client
    PROVE  Kept'
<1>1. CASE ((\E c \in Runs : ClientStep(c)) \/ ClientEnv) /\ UNCHANGED server
  <2>1. \A d \in Runs : sent'[d] >= sent[d]
    BY <1>1, SenderStaysOver DEF Handed, StaysOver
  <2>2. \A c, d \in Runs : Replaces(d, c) => Replaces(d, c)'
    BY <2>1, ServerAssumption, TransportAssumption DEF Replaces, TypeOK, ClientTypeOK
  <2>3. QED
    BY <1>1, <2>2 DEF server, record, outputs, Kept, KeptOf
<1>2. CASE ServerEnv /\ UNCHANGED client
  <2>1. UNCHANGED <<sent, disk, delivered>> /\ sPc' # "save"
    BY <1>2 DEF ServerEnv, Start, Stop, Steps, outputs, client
  <2>2. QED
    BY <2>1, KeptAside
<1>3. QED
  BY <1>1, <1>2

LEMMA FilesAreKept == Spec => []Kept
<1>1. Init => Kept
  BY DEF Init, ServerInit, Kept, KeptOf
<1>2. TypeOK /\ TypeOK' /\ Pipe /\ TrustIsVouched /\ Handed /\ Kept /\ [Next]_vars => Kept'
  <2> SUFFICES ASSUME TypeOK, TypeOK', Pipe, TrustIsVouched, Handed, Kept, [Next]_vars
               PROVE  Kept'
    OBVIOUS
  <2>1. CASE UNCHANGED vars
    BY <2>1, KeptAside DEF vars, client, server, record, outputs, Kept
  <2>2. CASE ServerStep
    BY <2>2, KeptServerStep DEF ServerStep
  <2>3. QED
    BY <2>1, <2>2, KeptOtherStep DEF Next, ClientStep
<1>3. QED
  BY <1>1, <1>2, TypeCorrect, TrustStaysVouched, PipeStaysWhole, HandedStays, PTL DEF Spec

\* A saved file is lost only to another file of the same name, of which at least
\* the header was sent: not to a crash, a failed write of its own run, a text or a
\* broken payload (server.py:189-197).
THEOREM FilesAreLostToNamesakes == Spec => []FileLostOnlyToNamesake
<1>1. Kept => FileLostOnlyToNamesake
  BY DEF Kept, KeptOf, Replaces, FileLostOnlyToNamesake
<1>2. QED
  BY <1>1, FilesAreKept, PTL
===============================================================================
