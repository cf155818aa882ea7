----------------------------- MODULE TrustProofs ------------------------------
(***************************************************************************)
(* Whom the receiver remembers, and that nothing altered or refused reaches*)
(* its user, for every choice of the constants.                            *)
(***************************************************************************)
EXTENDS DeliveryProofs

-------------------------------------------------------------------------------
(* The key by which a run knows the receiver is that of the start that serves *)
(* or remembers it.                                                          *)

\* The receiver serves run c, or has its sender in the cache.
Known(c) == c = sConn \/ c \in sTrusted

\* The places of a run that has read who the receiver is.
Introduced == {"reply2", "reply3", "verify", "confirm", "ask", "approve", "pin", "refuse",
               "vault", "stream", "finish"}

\* The inductive invariant: nothing is written to a run before it is accepted, and
\* what a start of the receiver writes has the key of that start.
SameKey ==
    /\ sPc # "down" => identity # 0
    /\ sPc = "down" => sTrusted = {}
    /\ \A c \in Runs :
          /\ cPc[c] = "idle" \/ Queued(c) => s2c[c] = <<>> /\ peer[c] = 0
          /\ cPc[c] \in Introduced /\ cIntact[c] => peer[c] # 0
          /\ Known(c) /\ cIntact[c] => peer[c] \in {0, identity}
          /\ \A i \in 1..Len(s2c[c]) : s2c[c][i].kind = "identity" =>
                s2c[c][i].n # 0 /\ (Known(c) => s2c[c][i].n = identity)

\* A run learns the key from the frame that names it, if that frame is one.
LEMMA SameKeyClientStep ==
    ASSUME TypeOK, SameKey, NEW c \in Runs, ClientWork(c), UNCHANGED server
    PROVE  SameKey'
<1> USE DEF Goto, Moves, TypeOK, ClientTypeOK, facts
<1>1. UNCHANGED <<sPc, sConn, sTrusted, identity>>
  BY DEF server, record
<1>2. /\ UNCHANGED backlog
      /\ \A d \in Runs : cPc'[d] = "idle" => cPc[d] = "idle"
      /\ \A d \in Runs \ {c} : UNCHANGED cPc[d]
  BY ClientTables
  DEF ClientWork, SendHello, RecvReply, RefuseReply, AcceptReply, Confirm, Approve, Pin, Refuse,
      SendVault, SendChunk, SendEnd, Finish, ClientRecvFails, ClientSendFails, ClientPuts,
      ClientTakes, Leaves, Returns, net
<1>3. \A d \in Runs : (Queued(d)' <=> Queued(d)) /\ (Known(d)' <=> Known(d))
  BY <1>1, <1>2 DEF Queued, Known
<1>4. CASE RecvReply(c)
  <2>1. /\ s2c[c] \in Seq(Items) /\ s2c[c] # <<>>
        /\ s2c' = [s2c EXCEPT ![c] = Tail(@)]
        /\ cPc[c] \in {"reply1", "reply2", "reply3"}
    BY <1>4, ClientTables DEF RecvReply, ClientTakes, TransportTypeOK
  <2>2. /\ Head(s2c[c]) = s2c[c][1] /\ 1 \in 1..Len(s2c[c])
        /\ \A i \in 1..Len(Tail(s2c[c])) :
              i + 1 \in 1..Len(s2c[c]) /\ Tail(s2c[c])[i] = s2c[c][i + 1]
    BY <2>1
  <2>3. \A d \in Runs \ {c} : UNCHANGED <<s2c[d], peer[d], cIntact[d]>>
    BY <1>4, <2>1 DEF RecvReply, TransportTypeOK
  <2>4. s2c'[c] = Tail(s2c[c])
    BY <2>1 DEF TransportTypeOK
  <2>5. ~Queued(c) /\ cPc'[c] # "idle"
    BY <1>2, <2>1 DEF SameKey
  <2>6. \/ /\ cPc[c] = "reply1" /\ peer'[c] = Head(s2c[c]).n
           /\ cIntact'[c] => Head(s2c[c]).kind = "identity"
        \/ /\ cPc[c] \in Introduced /\ UNCHANGED peer[c]
           /\ cIntact'[c] => cIntact[c]
    <3>1. CASE cPc[c] = "reply1"
      <4>1. ReplyAt["reply1"] = "identity"
        BY DEF ReplyAt
      <4>2. peer'[c] = Head(s2c[c]).n
        BY <1>4, <3>1 DEF RecvReply
      <4>3. cIntact'[c] = (cIntact[c] /\ Head(s2c[c]).kind = ReplyAt[cPc[c]] /\ Head(s2c[c]).intact)
        BY <1>4 DEF RecvReply
      <4>4. QED
        BY <3>1, <4>1, <4>2, <4>3, Zenon
    <3>2. CASE cPc[c] # "reply1"
      <4>1. cIntact'[c] = (cIntact[c] /\ Head(s2c[c]).kind = ReplyAt[cPc[c]] /\ Head(s2c[c]).intact)
        BY <1>4 DEF RecvReply
      <4>2. cPc[c] \in Introduced /\ UNCHANGED peer[c]
        BY <1>4, <2>1, <3>2 DEF RecvReply, Introduced
      <4>3. QED
        BY <4>1, <4>2, Zenon
    <3>3. QED
      BY <3>1, <3>2
  <2>7. /\ cIntact'[c] => peer'[c] # 0
        /\ Known(c) /\ cIntact'[c] => peer'[c] \in {0, identity}
    BY <2>2, <2>6 DEF SameKey
  <2>8. \A i \in 1..Len(s2c'[c]) : s2c'[c][i].kind = "identity" =>
           s2c'[c][i].n # 0 /\ (Known(c) => s2c'[c][i].n = identity)
    BY <2>2, <2>4 DEF SameKey
  <2>9. QED
    BY <1>1, <1>2, <1>3, <2>3, <2>5, <2>7, <2>8 DEF SameKey
<1>5. CASE ~RecvReply(c)
  <2>1. /\ UNCHANGED <<s2c, peer, cIntact>>
        /\ cPc'[c] \in Introduced => cPc[c] \in Introduced
    BY <1>5, ClientTables
    DEF ClientWork, SendHello, RefuseReply, AcceptReply, Confirm, Approve, Pin, Refuse, SendVault,
        SendChunk, SendEnd, Finish, ClientRecvFails, ClientSendFails, ClientPuts, Leaves, Returns,
        net, Introduced, HelloAt, ClientNext
  <2>2. QED
    BY <1>1, <1>2, <1>3, <2>1 DEF SameKey
<1>6. QED
  BY <1>4, <1>5

\* A run that connects has read nothing yet.
LEMMA SameKeyEnvStep ==
    ASSUME TypeOK, SameKey, ClientEnv, UNCHANGED server
    PROVE  SameKey'
<1>1. UNCHANGED <<sPc, sConn, sTrusted, identity, s2c, peer, cIntact>>
  BY DEF server, record, ClientEnv, Connect, ConnectFails, UserAnswers, AppExit, Leaves, net, facts
<1>2. \A d \in Runs : /\ cPc'[d] = "idle" => cPc[d] = "idle"
                      /\ cPc'[d] \in Introduced => cPc[d] \in Introduced
  BY DEF ClientEnv, Connect, ConnectFails, UserAnswers, AppExit, Leaves, Returns, Moves, Goto,
         Introduced, TypeOK, ClientTypeOK
<1>3. \A d \in Runs : Queued(d)' => Queued(d) \/ cPc[d] = "idle"
  <2>1. UNCHANGED backlog \/ \E c \in Runs : cPc[c] = "idle" /\ backlog' = Append(backlog, c)
    BY DEF ClientEnv, Connect, ConnectFails, UserAnswers, AppExit, Leaves, net, Moves
  <2>2. backlog \in Seq(Runs)
    BY DEF TypeOK, TransportTypeOK
  <2>3. QED
    BY <2>1, <2>2 DEF Queued
<1>4. QED
  BY <1>1, <1>2, <1>3 DEF SameKey, Known

\* The receiver comes to a run from its queue, and to its cache from the run it serves.
LEMMA SameKeyServerStep ==
    ASSUME TypeOK, FreshSenders, SameKey, ServerWork \/ ServerEnv, UNCHANGED client
    PROVE  SameKey'
<1> USE ServerTables, TransportAssumption DEF Steps, record, outputs
<1>1. UNCHANGED <<cPc, cIntact, peer>>
  BY DEF client, facts
<1>2. sConn \in Runs \cup {NoRun} /\ sTrusted \subseteq Runs /\ (sPc = "down" => sConn = NoRun)
  BY DEF TypeOK, ServerTypeOK, ServerBusy, ServerReading
<1>3. CASE Accept
  <2>1. backlog \in Seq(Runs) /\ backlog # <<>>
    BY <1>3 DEF Accept, TypeOK, TransportTypeOK
  <2>2. \A d \in Runs : (Queued(d)' => Queued(d)) /\ (Known(d)' => Known(d) \/ Queued(d))
    BY <1>3, <2>1 DEF Accept, Queued, Known
  <2>3. UNCHANGED <<s2c, identity, sTrusted>> /\ sPc # "down" /\ sPc' # "down"
    BY <1>3 DEF Accept
  <2>4. QED
    BY <1>1, <2>2, <2>3 DEF SameKey
<1>4. CASE SendReply
  <2>1. /\ UNCHANGED <<backlog, sConn, sTrusted, identity>>
        /\ sPc # "down" /\ sPc' # "down" /\ sConn \in Runs
    BY <1>2, <1>4 DEF SendReply, ServerPuts, TypeOK, ServerTypeOK, ServerBusy
  <2>2. PICK f \in Items :
           /\ s2c' = [s2c EXCEPT ![sConn] = Append(@, f)]
           /\ f.kind = "identity" => f.n = identity
    <3>1. identity \in Nat /\ WritesAt[sPc] \in {"identity", "x25519", "signature"}
      BY <1>4, ServerAssumption DEF SendReply, TypeOK, ServerTypeOK
    <3>2. \/ ServerPuts(sConn, Item("identity", identity)) \/ ServerPuts(sConn, Item("x25519", 0))
          \/ ServerPuts(sConn, Guarded(sConn, "reply", "signature"))
      BY <1>4, <3>1 DEF SendReply
    <3>3. QED
      BY <3>1, <3>2, ItemType DEF ServerPuts, Item, Guarded, Kinds
  <2>3. \A d \in Runs : (Queued(d)' <=> Queued(d)) /\ (Known(d)' <=> Known(d))
    BY <2>1 DEF Queued, Known
  <2>4. cPc[sConn] # "idle" /\ ~Queued(sConn) /\ identity # 0
    BY <2>1 DEF FreshSenders, SameKey
  <2>5. \A d \in Runs \ {sConn} : UNCHANGED s2c[d]
    BY <2>2 DEF TypeOK, TransportTypeOK
  <2>6. \A i \in 1..Len(s2c'[sConn]) : s2c'[sConn][i].kind = "identity" =>
           s2c'[sConn][i].n # 0 /\ s2c'[sConn][i].n = identity
    <3> SUFFICES ASSUME NEW i \in 1..Len(s2c'[sConn]), s2c'[sConn][i].kind = "identity"
                 PROVE  s2c'[sConn][i].n # 0 /\ s2c'[sConn][i].n = identity
      OBVIOUS
    <3>1. s2c[sConn] \in Seq(Items) /\ s2c'[sConn] = Append(s2c[sConn], f)
      BY <2>1, <2>2 DEF TypeOK, TransportTypeOK
    <3>2. s2c'[sConn][i] = f \/ (i \in 1..Len(s2c[sConn]) /\ s2c'[sConn][i] = s2c[sConn][i])
      BY <3>1
    <3>3. QED
      BY <2>1, <2>2, <2>4, <3>2 DEF SameKey, Known
  <2>7. QED
    BY <1>1, <2>1, <2>3, <2>4, <2>5, <2>6 DEF SameKey
<1>5. CASE Start
  <2>1. /\ UNCHANGED <<backlog, s2c, sConn, sTrusted>> /\ sConn = NoRun /\ sTrusted = {}
        /\ identity' # 0
    BY <1>2, <1>5, ServerAssumption DEF Start, SameKey, TypeOK, ServerTypeOK
  <2>2. \A d \in Runs : (Queued(d)' <=> Queued(d)) /\ ~Known(d)'
    BY <2>1 DEF Queued, Known
  <2>3. QED
    BY <1>1, <1>5, <2>1, <2>2 DEF Start, SameKey
<1>6. CASE Stop
  <2>1. UNCHANGED <<s2c, identity>> /\ sPc' = "down" /\ sTrusted' = {}
    BY <1>6 DEF Stop
  <2>2. \A d \in Runs : ~Queued(d)' /\ ~Known(d)'
    BY <1>6 DEF Stop, Queued, Known
  <2>3. QED
    BY <1>1, <2>1, <2>2 DEF SameKey
<1>7. CASE ServerWork /\ ~Accept /\ ~SendReply
  <2>1. UNCHANGED <<backlog, s2c, identity>>
    BY <1>7 DEF ServerWork, RecvHello, AcceptHello, RefuseHello, SkipSas, ShowSas, DrainByte,
                DrainEof, RecvConfirm, RecvReject, RecvVault, RefuseVault, RecvChunk, RecvEnd,
                StreamEof, DeliverText, OpenFile, SaveFile, DropPayload, ServerRecvFails,
                ServerSendFails, ServerTakes, Drops, DropsItem, Delivers, Hangup, net
  <2>2. /\ sConn' = sConn \/ sConn' = NoRun
        /\ sTrusted' = sTrusted \/ sTrusted' = sTrusted \cup {sConn}
        /\ sPc # "down" /\ sPc' # "down"
    BY <1>7 DEF ServerWork, RecvHello, AcceptHello, RefuseHello, SkipSas, ShowSas, SasThen,
                DrainByte, DrainEof, RecvConfirm, RecvReject, RecvVault, RefuseVault, RecvChunk,
                RecvEnd, StreamEof, DeliverText, OpenFile, SaveFile, DropPayload, ServerRecvFails,
                ServerSendFails, ServerReading, Drops, DropsItem, Delivers, Hangup
  <2>3. \A d \in Runs : (Queued(d)' <=> Queued(d)) /\ (Known(d)' => Known(d))
    BY <2>1, <2>2 DEF Queued, Known
  <2>4. QED
    BY <1>1, <2>1, <2>2, <2>3 DEF SameKey
<1>8. QED
  BY <1>3, <1>4, <1>5, <1>6, <1>7 DEF ServerEnv

LEMMA KeyStaysSame == Spec => []SameKey
<1>1. Init => SameKey
  BY TransportAssumption
  DEF Init, TransportInit, ClientInit, ServerInit, SameKey, Known, Introduced, Queued
<1>2. TypeOK /\ FreshSenders /\ SameKey /\ [Next]_vars => SameKey'
  <2> SUFFICES ASSUME TypeOK, FreshSenders, SameKey, [Next]_vars
               PROVE  SameKey'
    OBVIOUS
  <2>1. CASE UNCHANGED vars
    BY <2>1 DEF vars, net, client, facts, server, record, SameKey, Known, Queued
  <2>2. QED
    BY <2>1, SameKeyClientStep, SameKeyEnvStep, SameKeyServerStep DEF Next, ClientStep, ServerStep
<1>3. QED
  BY <1>1, <1>2, TypeCorrect, SendersStayFresh, PTL DEF Spec

-------------------------------------------------------------------------------
(* What is on its way says no more than is true.                             *)

Undamaged(c, part) == <<c, part>> \notin Damaged

\* Run c has confirmed, having checked the receiver and, unless it skips SAS,
\* with a user's approval.
Confirmed(c) ==
    /\ cPc[c] \in {"pin", "vault", "stream", "finish", "done", "dead"}
    /\ cIntact[c] /\ peer[c] # 0
    /\ AppOf[c] \in ClientSkips \/ Vouched(AppOf[c], peer[c])

\* An item from run c says no more than is true of it; an item to it likewise.
True2s(c, f) ==
    /\ f.kind = "signature" /\ f.intact => Undamaged(c, "hello")
    /\ f.kind = "vault" /\ f.intact => Undamaged(c, "vault")
    /\ f.kind = "approve" => Confirmed(c)
True2c(c, f) == f.kind = "signature" /\ f.intact => Undamaged(c, "reply")

\* What is on its way is true, and what run c concluded from what it read.
TrueOf(c) ==
    /\ \A i \in 1..Len(c2s[c]) : True2s(c, c2s[c][i])
    /\ \A i \in 1..Len(s2c[c]) : True2c(c, s2c[c][i])
    /\ cPc[c] = "verify" /\ cIntact[c] => Undamaged(c, "reply")
    /\ cPc[c] \in {"confirm", "ask", "approve", "pin", "refuse", "vault", "stream", "finish"} =>
           Undamaged(c, "reply")
    /\ sent[c] > 0 => Undamaged(c, "reply")

\* The places of the receiver past the check of the sender's signature.
Checked == {"reply1", "reply2", "reply3", "sas", "drain", "confirm", "vault", "stream",
            "decrypt", "save"}

\* What the receiver concluded.
TrueThere ==
    /\ \A c \in sTrusted : Confirmed(c)
    /\ sPc = "verify" /\ sIntact => Undamaged(sConn, "hello")
    /\ sPc \in Checked => Undamaged(sConn, "hello")
    /\ sPc \in {"stream", "decrypt", "save"} => Undamaged(sConn, "vault")
    /\ \A c \in Runs : delivered[c] # <<>> => Undamaged(c, "hello") /\ Undamaged(c, "vault")

\* The inductive invariant.
AllTrue == (\A c \in Runs : TrueOf(c)) /\ TrueThere

-------------------------------------------------------------------------------
(* Steps of the sender.                                                     *)

\* Run d keeps what it confirmed.
StaysConfirmed(d) == Confirmed(d) => Confirmed(d)'

LEMMA ConfirmedStays ==
    ASSUME TypeOK, TrustIsVouched, (\E c \in Runs : ClientWork(c)) \/ ClientEnv
    PROVE  \A d \in Runs : StaysConfirmed(d)
<1> USE DEF Goto, Moves, TypeOK, ClientTypeOK, facts
<1>1. \A a, k : Vouched(a, k) => Vouched(a, k)'
  <2>1. \A d \in Runs : cPc[d] \notin Unanswered =>
            UNCHANGED <<peer[d], cIntact[d], verdict[d]>>
    BY ClientTables
    DEF ClientWork, SendHello, RecvReply, RefuseReply, AcceptReply, Confirm, Approve, Pin, Refuse,
        SendVault, SendChunk, SendEnd, Finish, ClientRecvFails, ClientSendFails, Leaves, ClientEnv,
        Connect, ConnectFails, UserAnswers, AppExit, Unanswered
  <2>2. QED
    BY <2>1, VouchedStays
<1>2. ASSUME NEW c \in Runs, ClientWork(c)
      PROVE  \A d \in Runs : StaysConfirmed(d)
  <2>1. \A d \in Runs \ {c} : UNCHANGED <<cPc[d], cIntact[d], peer[d]>>
    BY <1>2
    DEF ClientWork, SendHello, RecvReply, RefuseReply, AcceptReply, Confirm, Approve, Pin,
        Refuse, SendVault, SendChunk, SendEnd, Finish, ClientRecvFails, ClientSendFails, Leaves,
        Returns
  <2>2. cPc[c] \in {"pin", "vault", "stream", "finish", "done", "dead"} =>
           /\ UNCHANGED <<cIntact[c], peer[c]>>
           /\ cPc'[c] \in {"vault", "stream", "finish", "done", "dead"}
    BY <1>2, ClientTables
    DEF ClientWork, SendHello, RecvReply, RefuseReply, AcceptReply, Confirm, Approve, Pin,
        Refuse, SendVault, SendChunk, SendEnd, Finish, ClientRecvFails, ClientSendFails, Leaves,
        Returns
  <2>3. QED
    BY <1>1, <2>1, <2>2 DEF StaysConfirmed, Confirmed
<1>3. ASSUME ClientEnv
      PROVE  \A d \in Runs : StaysConfirmed(d)
  <2>1. UNCHANGED <<cIntact, peer>>
    BY <1>3 DEF ClientEnv, Connect, ConnectFails, UserAnswers, AppExit, Leaves
  <2>2. \A d \in Runs : cPc'[d] = cPc[d] \/ cPc'[d] = "dead" \/ cPc[d] \in {"idle", "ask"}
    BY <1>3 DEF ClientEnv, Connect, ConnectFails, UserAnswers, AppExit, Leaves, Returns
  <2>3. QED
    BY <1>1, <2>1, <2>2 DEF StaysConfirmed, Confirmed
<1>4. QED
  BY <1>2, <1>3

\* A run on which nothing is done but that it may confirm.
LEMMA OthersTrue ==
    ASSUME NEW d \in Runs, TrueOf(d), StaysConfirmed(d),
           UNCHANGED <<c2s[d], s2c[d], cIntact[d], sent[d]>>,
           cPc'[d] = cPc[d] \/ cPc'[d] \in {"done", "dead", "idle", "hello1"}
              \/ (cPc[d] = "ask" /\ cPc'[d] \in {"approve", "refuse"})
    PROVE  TrueOf(d)'
<1>1. \A i \in 1..Len(c2s'[d]) : True2s(d, c2s[d][i])'
  BY DEF TrueOf, True2s, StaysConfirmed, Undamaged
<1>2. \A i \in 1..Len(s2c'[d]) : True2c(d, s2c[d][i])'
  BY DEF TrueOf, True2c, Undamaged
<1>3. QED
  BY <1>1, <1>2 DEF TrueOf, Undamaged

\* What a run writes is true of it.
LEMMA WritesTrue ==
    ASSUME TypeOK, TypeOK', TrustIsVouched, SameKey, NEW c \in Runs, ClientWork(c), TrueOf(c),
           StaysConfirmed(c)
    PROVE  \A i \in 1..Len(c2s'[c]) : True2s(c, c2s[c][i])'
<1> USE DEF Goto, Moves
<1>1. c2s[c] \in Seq(Items)
  BY DEF TypeOK, TransportTypeOK
<1>2. \A i \in 1..Len(c2s[c]) : \A f : f = c2s[c][i] => True2s(c, f)'
  BY DEF TrueOf, True2s, StaysConfirmed, Undamaged
<1>3. CASE UNCHANGED c2s[c]
  BY <1>2, <1>3 DEF True2s
<1>4. ASSUME NEW f \in Items, c2s'[c] = Append(c2s[c], f), True2s(c, f)'
      PROVE  \A i \in 1..Len(c2s'[c]) : True2s(c, c2s[c][i])'
  <2> SUFFICES ASSUME NEW i \in 1..Len(c2s'[c]) PROVE True2s(c, c2s[c][i])'
    OBVIOUS
  <2>1. c2s'[c][i] = f \/ (i \in 1..Len(c2s[c]) /\ c2s'[c][i] = c2s[c][i])
    BY <1>1, <1>4
  <2>2. QED
    BY <1>2, <1>4, <2>1 DEF True2s
<1>5. CASE \E kind \in Kinds : \E n \in Nat :
             ClientPuts(c, Item(kind, n)) /\ kind \notin {"approve", "signature", "vault"}
  <2>1. PICK kind \in Kinds, n \in Nat :
           ClientPuts(c, Item(kind, n)) /\ kind \notin {"approve", "signature", "vault"}
    BY <1>5
  <2>2. /\ Item(kind, n) \in Items /\ Item(kind, n).kind = kind
        /\ c2s'[c] = Append(c2s[c], Item(kind, n))
    BY <2>1, ItemType DEF Item, ClientPuts, TypeOK, TransportTypeOK
  <2>3. PICK f \in Items : f = Item(kind, n)
    BY <2>2
  <2>4. QED
    BY <1>4, <2>1, <2>2, <2>3 DEF True2s
<1>6. CASE Confirm(c) \/ Approve(c)
  <2>1. PICK f \in Items : f.kind = "approve" /\ c2s'[c] = Append(c2s[c], f)
    BY <1>6, ItemType DEF Confirm, Approve, ClientPuts, Item, Kinds, TypeOK, TransportTypeOK
  <2>2. Confirmed(c)'
    <3>1. UNCHANGED <<peer, cIntact, verdict>> /\ cPc'[c] \in {"pin", "vault"}
      BY <1>6 DEF Confirm, Approve, facts, TypeOK, ClientTypeOK
    <3>2. cIntact[c] /\ peer[c] # 0
      BY <1>6 DEF Confirm, Approve, TrustIsVouched, SameKey, Introduced
    <3>3. AppOf[c] \in ClientSkips \/ Vouched(AppOf[c], peer[c])
      BY <1>6, <3>2, ClientAssumption
      DEF Confirm, Approve, TrustIsVouched, Vouched
    <3>4. QED
      BY <3>1, <3>2, <3>3 DEF Confirmed, Vouched
  <2>3. QED
    BY <1>4, <2>1, <2>2 DEF True2s
<1>7. CASE SendVault(c)
  <2>1. PICK f \in Items :
           /\ c2s'[c] = Append(c2s[c], f)
           /\ f.kind = "vault" /\ (f.intact <=> <<c, "vault">> \notin Damaged)
    BY <1>7, ItemType DEF SendVault, ClientPuts, Guarded, Kinds, TypeOK, TransportTypeOK
  <2>2. QED
    BY <1>4, <2>1 DEF True2s, Undamaged
<1>8. CASE SendHello(c)
  <2>1. CASE cPc[c] = "hello3"
    <3>1. ClientPuts(c, Guarded(c, "hello", "signature"))
      BY <1>8, <2>1 DEF SendHello, HelloAt
    <3>2. PICK f \in Items :
             /\ c2s'[c] = Append(c2s[c], f)
             /\ f.kind = "signature" /\ (f.intact <=> <<c, "hello">> \notin Damaged)
      BY <3>1, ItemType DEF ClientPuts, Guarded, Kinds, TypeOK, TransportTypeOK
    <3>3. QED
      BY <1>4, <3>2 DEF True2s, Undamaged
  <2>2. CASE cPc[c] # "hello3"
    <3>1. HelloAt[cPc[c]] \in {"identity", "x25519"}
      BY <1>8, <2>2, ClientTables DEF SendHello, HelloAt
    <3>2. QED
      BY <1>5, <1>8, <3>1 DEF SendHello, Kinds
  <2>3. QED
    BY <2>1, <2>2
<1>9. CASE Refuse(c) \/ SendChunk(c) \/ SendEnd(c)
  <2>1. sent[c] + 1 \in Nat
    BY DEF TypeOK, ClientTypeOK
  <2>2. QED
    BY <1>5, <1>9, <2>1 DEF Refuse, SendChunk, SendEnd, Kinds
<1>10. CASE RecvReply(c) \/ RefuseReply(c) \/ AcceptReply(c) \/ Pin(c) \/ Finish(c)
            \/ ClientRecvFails(c) \/ ClientSendFails(c)
  <2>1. UNCHANGED c2s[c]
    BY <1>10 DEF RecvReply, RefuseReply, AcceptReply, Pin, Finish, ClientRecvFails, ClientSendFails,
                 ClientTakes, Leaves, net
  <2>2. QED
    BY <1>3, <2>1
<1>11. QED
  BY <1>6, <1>7, <1>8, <1>9, <1>10 DEF ClientWork

\* What a run concludes from what it reads is true.
LEMMA ConcludesTrue ==
    ASSUME TypeOK, TypeOK', TrustIsVouched, SameKey, NEW c \in Runs, ClientWork(c), TrueOf(c),
           StaysConfirmed(c)
    PROVE  TrueOf(c)'
<1> USE DEF Goto, Moves, TypeOK, ClientTypeOK, facts
<1>1. s2c[c] \in Seq(Items)
  BY DEF TransportTypeOK
<1>2. \A i \in 1..Len(s2c'[c]) : True2c(c, s2c[c][i])'
  <2>1. UNCHANGED s2c[c] \/ (s2c[c] # <<>> /\ s2c'[c] = Tail(s2c[c]))
    BY DEF ClientWork, SendHello, RecvReply, RefuseReply, AcceptReply, Confirm, Approve, Pin,
           Refuse, SendVault, SendChunk, SendEnd, Finish, ClientRecvFails, ClientSendFails, Leaves,
           ClientPuts, ClientTakes, TransportTypeOK, net
  <2>2. CASE UNCHANGED s2c[c]
    BY <2>2 DEF TrueOf, True2c, Undamaged
  <2>3. CASE s2c[c] # <<>> /\ s2c'[c] = Tail(s2c[c])
    <3>1. \A i \in 1..Len(s2c'[c]) : i + 1 \in 1..Len(s2c[c]) /\ s2c'[c][i] = s2c[c][i + 1]
      BY <1>1, <2>3
    <3>2. QED
      BY <3>1 DEF TrueOf, True2c, Undamaged
  <2>4. QED
    BY <2>1, <2>2, <2>3
<1>3. CASE RecvReply(c)
  <2>1. /\ cPc[c] \in {"reply1", "reply2", "reply3"} /\ cPc'[c] \in {"reply2", "reply3", "verify"}
        /\ UNCHANGED sent
        /\ cPc'[c] = "verify" => cPc[c] = "reply3"
    BY <1>3, ClientTables DEF RecvReply, ClientNext
  <2>2. cPc[c] = "reply3" /\ cIntact'[c] => Undamaged(c, "reply")
    <3>1. s2c[c] # <<>> /\ Head(s2c[c]) = s2c[c][1] /\ 1 \in 1..Len(s2c[c])
      BY <1>1, <1>3 DEF RecvReply, ClientTakes
    <3>2. cPc[c] = "reply3" /\ cIntact'[c] => Head(s2c[c]).kind = "signature" /\ Head(s2c[c]).intact
      <4>1. cIntact' = [cIntact EXCEPT ![c] = /\ cIntact[c]
                                             /\ Head(s2c[c]).kind = ReplyAt[cPc[c]]
                                             /\ Head(s2c[c]).intact]
        BY <1>3 DEF RecvReply
      <4>2. cIntact'[c] = (/\ cIntact[c]
                           /\ Head(s2c[c]).kind = ReplyAt[cPc[c]]
                           /\ Head(s2c[c]).intact)
        BY <4>1, Zenon
      <4>3. ReplyAt["reply3"] = "signature"
        BY DEF ReplyAt
      <4>4. QED
        BY <4>2, <4>3, Zenon
    <3>3. QED
      BY <3>1, <3>2 DEF TrueOf, True2c
  <2>3. QED
    BY <1>2, <2>1, <2>2, WritesTrue DEF TrueOf, Undamaged
<1>4. CASE AcceptReply(c)
  <2>1. /\ cPc[c] = "verify" /\ cIntact[c] /\ cPc'[c] \in {"confirm", "ask", "refuse"}
        /\ UNCHANGED sent
    BY <1>4 DEF AcceptReply
  <2>2. QED
    BY <1>2, <2>1, WritesTrue DEF TrueOf, Undamaged
<1>5. CASE SendHello(c) \/ RefuseReply(c) \/ Refuse(c) \/ Finish(c) \/ ClientRecvFails(c)
           \/ ClientSendFails(c)
  <2>1. UNCHANGED sent /\ cPc'[c] \in {"hello2", "hello3", "reply1", "done"}
    BY <1>5, ClientTables
    DEF SendHello, ClientNext, RefuseReply, Refuse, Finish, ClientRecvFails, ClientSendFails,
        Leaves, Returns
  <2>2. QED
    BY <1>2, <2>1, WritesTrue DEF TrueOf, Undamaged
<1>6. CASE Confirm(c) \/ Approve(c) \/ Pin(c) \/ SendVault(c) \/ SendChunk(c) \/ SendEnd(c)
  <2>1. /\ cPc[c] \in {"confirm", "approve", "pin", "vault", "stream"}
        /\ cPc'[c] \in {"pin", "vault", "stream", "finish"}
    BY <1>6 DEF Confirm, Approve, Pin, SendVault, SendChunk, SendEnd
  <2>2. QED
    BY <1>2, <2>1, WritesTrue DEF TrueOf, Undamaged
<1>7. QED
  BY <1>3, <1>4, <1>5, <1>6 DEF ClientWork

LEMMA TrueClientStep ==
    ASSUME TypeOK, TypeOK', TrustIsVouched, SameKey, AllTrue, UNCHANGED server,
           (\E c \in Runs : ClientStep(c)) \/ ClientEnv
    PROVE  AllTrue'
<1>1. \A d \in Runs : StaysConfirmed(d)
  BY ConfirmedStays DEF ClientStep
<1>2. TrueThere'
  <2>1. UNCHANGED <<sTrusted, sPc, sIntact, sConn, delivered>>
    BY DEF server, record, outputs
  <2>2. sTrusted \subseteq Runs
    BY DEF TypeOK, ServerTypeOK
  <2>3. QED
    BY <1>1, <2>1, <2>2 DEF AllTrue, TrueThere, StaysConfirmed, Undamaged
<1>3. ASSUME NEW c \in Runs, ClientWork(c)
      PROVE  \A d \in Runs : TrueOf(d)'
  <2>1. TrueOf(c)'
    BY <1>1, <1>3, ConcludesTrue DEF AllTrue
  <2>2. ASSUME NEW d \in Runs \ {c} PROVE TrueOf(d)'
    <3>1. UNCHANGED cPc[d]
      BY <1>3
      DEF ClientWork, SendHello, RecvReply, RefuseReply, AcceptReply, Confirm, Approve, Pin,
          Refuse, SendVault, SendChunk, SendEnd, Finish, ClientRecvFails, ClientSendFails, Leaves,
          Returns, Moves, Goto, TypeOK, ClientTypeOK
    <3>2. UNCHANGED <<cIntact[d], sent[d]>>
      <4>1. UNCHANGED cIntact \/ cIntact' = [cIntact EXCEPT ![c] = cIntact'[c]]
        BY <1>3
        DEF ClientWork, SendHello, RecvReply, RefuseReply, AcceptReply, Confirm, Approve, Pin,
            Refuse, SendVault, SendChunk, SendEnd, Finish, ClientRecvFails, ClientSendFails,
            Leaves, facts, TypeOK, ClientTypeOK
      <4>2. UNCHANGED sent \/ sent' = [sent EXCEPT ![c] = sent'[c]]
        BY <1>3
        DEF ClientWork, SendHello, RecvReply, RefuseReply, AcceptReply, Confirm, Approve, Pin,
            Refuse, SendVault, SendChunk, SendEnd, Finish, ClientRecvFails, ClientSendFails,
            Leaves, facts, TypeOK, ClientTypeOK
      <4>3. QED
        BY <4>1, <4>2 DEF TypeOK, ClientTypeOK
    <3>3. UNCHANGED <<c2s[d], s2c[d]>>
      <4>1. UNCHANGED c2s \/ \E item : c2s' = [c2s EXCEPT ![c] = Append(@, item)]
        BY <1>3
        DEF ClientWork, SendHello, RecvReply, RefuseReply, AcceptReply, Confirm, Approve, Pin,
            Refuse, SendVault, SendChunk, SendEnd, Finish, ClientRecvFails, ClientSendFails,
            Leaves, ClientPuts, ClientTakes, net
      <4>2. UNCHANGED s2c \/ s2c' = [s2c EXCEPT ![c] = Tail(@)]
        BY <1>3
        DEF ClientWork, SendHello, RecvReply, RefuseReply, AcceptReply, Confirm, Approve, Pin,
            Refuse, SendVault, SendChunk, SendEnd, Finish, ClientRecvFails, ClientSendFails,
            Leaves, ClientPuts, ClientTakes, net
      <4>3. QED
        BY <4>1, <4>2 DEF TypeOK, TransportTypeOK
    <3>4. QED
      BY <1>1, <3>1, <3>2, <3>3, OthersTrue DEF AllTrue
  <2>3. QED
    BY <2>1, <2>2
<1>4. ASSUME ClientEnv
      PROVE  \A d \in Runs : TrueOf(d)'
  <2>1. UNCHANGED <<c2s, s2c, cIntact, sent>>
    BY <1>4 DEF ClientEnv, Connect, ConnectFails, UserAnswers, AppExit, Leaves, net, facts
  <2>2. \A d \in Runs : \/ cPc'[d] = cPc[d] \/ cPc'[d] \in {"done", "dead", "idle", "hello1"}
                        \/ (cPc[d] = "ask" /\ cPc'[d] \in {"approve", "refuse"})
    BY <1>4
    DEF ClientEnv, Connect, ConnectFails, UserAnswers, AppExit, Leaves, Returns, Moves, Goto,
        TypeOK, ClientTypeOK
  <2>3. QED
    BY <1>1, <2>1, <2>2, OthersTrue DEF AllTrue
<1>5. QED
  BY <1>2, <1>3, <1>4 DEF AllTrue, ClientStep

-------------------------------------------------------------------------------
(* Steps of the receiver.                                                   *)

\* What the receiver writes is true, and what it reads leaves the rest true.
LEMMA TrueOfServerStep ==
    ASSUME TypeOK, TypeOK', AllTrue, UNCHANGED client, ServerWork \/ ServerEnv, NEW d \in Runs
    PROVE  TrueOf(d)'
<1>1. UNCHANGED <<cPc, cIntact, sent>> /\ (Confirmed(d) => Confirmed(d)')
  BY DEF client, facts, Confirmed, Vouched
<1>2. c2s[d] \in Seq(Items) /\ s2c[d] \in Seq(Items)
  BY DEF TypeOK, TransportTypeOK
<1>3. UNCHANGED c2s[d] \/ (c2s[d] # <<>> /\ c2s'[d] = Tail(c2s[d]))
  <2>1. UNCHANGED c2s \/ (c2s[sConn] # <<>> /\ c2s' = [c2s EXCEPT ![sConn] = Tail(@)])
    BY DEF ServerWork, ServerEnv, Start, Stop, Accept, RecvHello, AcceptHello, RefuseHello,
           SendReply, SkipSas, ShowSas, DrainByte, DrainEof, RecvConfirm, RecvReject, RecvVault,
           RefuseVault, RecvChunk, RecvEnd, StreamEof, DeliverText, OpenFile, SaveFile,
           DropPayload, ServerRecvFails, ServerSendFails, ServerTakes, ServerPuts, Drops,
           DropsItem, Delivers, net
  <2>2. QED
    BY <2>1 DEF TypeOK, TransportTypeOK
<1>4. UNCHANGED s2c[d] \/ \E f \in Items : s2c'[d] = Append(s2c[d], f) /\ True2c(d, f)
  <2>1. UNCHANGED s2c \/ SendReply
    BY DEF ServerWork, ServerEnv, Start, Stop, Accept, RecvHello, AcceptHello, RefuseHello,
           SkipSas, ShowSas, DrainByte, DrainEof, RecvConfirm, RecvReject, RecvVault,
           RefuseVault, RecvChunk, RecvEnd, StreamEof, DeliverText, OpenFile, SaveFile,
           DropPayload, ServerRecvFails, ServerSendFails, ServerTakes, Drops, DropsItem,
           Delivers, Hangup, net
  <2>2. CASE SendReply /\ d = sConn
    <3>1. identity \in Nat /\ WritesAt[sPc] \in {"identity", "x25519", "signature"}
      BY <2>2, ServerTables, ServerAssumption DEF SendReply, TypeOK, ServerTypeOK
    <3>2. \/ \E n \in Nat, kind \in {"identity", "x25519"} : ServerPuts(d, Item(kind, n))
          \/ ServerPuts(d, Guarded(d, "reply", "signature"))
      BY <2>2, <3>1 DEF SendReply
    <3>3. CASE ServerPuts(d, Guarded(d, "reply", "signature"))
      <4>1. /\ Guarded(d, "reply", "signature") \in Items
            /\ True2c(d, Guarded(d, "reply", "signature"))
        BY ItemType DEF Guarded, True2c, Undamaged, Kinds
      <4>2. QED
        BY <3>3, <4>1 DEF ServerPuts, TypeOK, TransportTypeOK
    <3>4. CASE \E n \in Nat, kind \in {"identity", "x25519"} : ServerPuts(d, Item(kind, n))
      <4>1. PICK n \in Nat, kind \in {"identity", "x25519"} : ServerPuts(d, Item(kind, n))
        BY <3>4
      <4>2. Item(kind, n) \in Items /\ True2c(d, Item(kind, n))
        BY <4>1, ItemType DEF Item, True2c, Kinds
      <4>3. QED
        BY <4>1, <4>2 DEF ServerPuts, TypeOK, TransportTypeOK
    <3>5. QED
      BY <3>2, <3>3, <3>4
  <2>3. CASE SendReply /\ d # sConn
    BY <2>3 DEF SendReply, ServerPuts, TypeOK, TransportTypeOK
  <2>4. QED
    BY <2>1, <2>2, <2>3
<1>5. \A i \in 1..Len(c2s'[d]) : True2s(d, c2s[d][i])'
  <2>1. CASE UNCHANGED c2s[d]
    BY <1>1, <2>1 DEF AllTrue, TrueOf, True2s, Undamaged
  <2>2. CASE c2s[d] # <<>> /\ c2s'[d] = Tail(c2s[d])
    <3>1. \A i \in 1..Len(c2s'[d]) : i + 1 \in 1..Len(c2s[d]) /\ c2s'[d][i] = c2s[d][i + 1]
      BY <1>2, <2>2
    <3>2. QED
      BY <1>1, <3>1 DEF AllTrue, TrueOf, True2s, Undamaged
  <2>3. QED
    BY <1>3, <2>1, <2>2
<1>6. \A i \in 1..Len(s2c'[d]) : True2c(d, s2c[d][i])'
  <2>1. CASE UNCHANGED s2c[d]
    BY <2>1 DEF AllTrue, TrueOf, True2c, Undamaged
  <2>2. ASSUME NEW f \in Items, s2c'[d] = Append(s2c[d], f), True2c(d, f)
        PROVE  \A i \in 1..Len(s2c'[d]) : True2c(d, s2c[d][i])'
    <3> SUFFICES ASSUME NEW i \in 1..Len(s2c'[d]) PROVE True2c(d, s2c[d][i])'
      OBVIOUS
    <3>1. s2c'[d][i] = f \/ (i \in 1..Len(s2c[d]) /\ s2c'[d][i] = s2c[d][i])
      BY <1>2, <2>2
    <3>2. QED
      BY <2>2, <3>1 DEF AllTrue, TrueOf, True2c, Undamaged
  <2>3. QED
    BY <1>4, <2>1, <2>2
<1>7. QED
  BY <1>1, <1>5, <1>6 DEF AllTrue, TrueOf, Undamaged

\* What it says of the head of the connection it reads.
LEMMA HeadIsTrue ==
    ASSUME TypeOK, AllTrue, sConn \in Runs, c2s[sConn] # <<>>
    PROVE  True2s(sConn, Head(c2s[sConn]))
<1>1. c2s[sConn] \in Seq(Items)
  BY DEF TypeOK, TransportTypeOK
<1>2. Head(c2s[sConn]) = c2s[sConn][1] /\ 1 \in 1..Len(c2s[sConn])
  BY <1>1
<1>3. QED
  BY <1>2 DEF AllTrue, TrueOf

LEMMA TrueThereStep ==
    ASSUME TypeOK, TypeOK', AllTrue, UNCHANGED client, ServerWork \/ ServerEnv
    PROVE  TrueThere'
<1> USE ServerTables DEF Steps, record, outputs
<1>1. \A d \in Runs : Confirmed(d) => Confirmed(d)'
  BY DEF client, facts, Confirmed, Vouched
<1>2. sTrusted \subseteq Runs
  BY DEF TypeOK, ServerTypeOK
<1>3. sConn \in Runs \/ sPc \in {"down", "accept"}
  BY DEF TypeOK, ServerTypeOK, ServerPcs
<1>4. CASE Start \/ Stop \/ Accept
  <2>1. /\ sTrusted' \subseteq sTrusted /\ UNCHANGED delivered
        /\ sPc' \in {"accept", "down", "hello1"}
    BY <1>4 DEF Start, Stop, Accept
  <2>2. QED
    BY <1>1, <1>2, <2>1 DEF AllTrue, TrueThere, Checked, Undamaged
<1>5. CASE RecvHello
  <2>1. /\ sPc \in {"hello1", "hello2", "hello3"} /\ sConn \in Runs /\ c2s[sConn] # <<>>
        /\ sPc' \in {"hello2", "hello3", "verify"} /\ (sPc' = "verify" => sPc = "hello3")
        /\ UNCHANGED <<sConn, sTrusted, delivered>>
    BY <1>3, <1>5 DEF RecvHello, ServerTakes, ServerNext
  <2>2. sPc = "hello3" /\ sIntact' => Head(c2s[sConn]).kind = "signature" /\ Head(c2s[sConn]).intact
    <3>1. sIntact' = (/\ sIntact /\ Head(c2s[sConn]).kind = ReadsAt[sPc]
                      /\ Head(c2s[sConn]).intact)
      BY <1>5 DEF RecvHello
    <3>2. ReadsAt["hello3"] = "signature"
      BY DEF ReadsAt
    <3>3. QED
      BY <3>1, <3>2, Zenon
  <2>3. sPc' = "verify" /\ sIntact' => Undamaged(sConn, "hello")
    BY <2>1, <2>2, HeadIsTrue DEF True2s
  <2>4. QED
    BY <1>1, <1>2, <2>1, <2>3 DEF AllTrue, TrueThere, Checked, Undamaged
<1>6. CASE RecvVault
  <2>1. /\ sPc = "vault" /\ sPc' = "stream" /\ sConn \in Runs /\ c2s[sConn] # <<>>
        /\ OpensVault(Head(c2s[sConn]))
        /\ UNCHANGED <<sConn, sTrusted, delivered>>
    BY <1>3, <1>6 DEF RecvVault, ServerTakes
  <2>2. Undamaged(sConn, "vault")
    BY <2>1, HeadIsTrue DEF True2s, OpensVault
  <2>3. QED
    BY <1>1, <1>2, <2>1, <2>2 DEF AllTrue, TrueThere, Checked, Undamaged
<1>7. CASE RecvConfirm
  <2>1. /\ sPc = "confirm" /\ sPc' = "vault" /\ sConn \in Runs /\ c2s[sConn] # <<>>
        /\ Head(c2s[sConn]).kind = "approve"
        /\ sTrusted' = sTrusted \cup {sConn}
        /\ UNCHANGED <<sConn, delivered>>
    BY <1>3, <1>7 DEF RecvConfirm, ServerTakes, Approves
  <2>2. Confirmed(sConn)
    BY <2>1, HeadIsTrue DEF True2s
  <2>3. QED
    BY <1>1, <1>2, <2>1, <2>2 DEF AllTrue, TrueThere, Checked, Undamaged
<1>8. CASE AcceptHello
  BY <1>1, <1>2, <1>8 DEF AcceptHello, AllTrue, TrueThere, Checked, Undamaged
<1>9. CASE SendReply \/ SkipSas \/ ShowSas \/ DrainByte \/ DrainEof
  <2>1. /\ sPc \in Checked /\ sPc' \in Checked /\ sPc' \notin {"stream", "decrypt", "save"}
        /\ UNCHANGED <<sConn, sTrusted, delivered>>
    BY <1>9 DEF SendReply, ServerNext, SkipSas, ShowSas, SasThen, DrainByte, DrainEof, Checked
  <2>2. QED
    BY <1>1, <1>2, <2>1 DEF AllTrue, TrueThere, Checked, Undamaged
<1>10. CASE RecvChunk \/ RecvEnd \/ StreamEof \/ OpenFile
  <2>1. /\ sPc \in {"stream", "decrypt"} /\ sPc' \in {"stream", "decrypt", "save"}
        /\ UNCHANGED <<sConn, sTrusted, delivered>>
    BY <1>10 DEF RecvChunk, RecvEnd, StreamEof, OpenFile
  <2>2. QED
    BY <1>1, <1>2, <2>1 DEF AllTrue, TrueThere, Checked, Undamaged
<1>11. CASE RefuseHello \/ RecvReject \/ RefuseVault \/ DropPayload \/ ServerRecvFails
            \/ ServerSendFails
  <2>1. sPc' = "accept" /\ UNCHANGED <<sTrusted, delivered>>
    BY <1>11 DEF RefuseHello, RecvReject, RefuseVault, DropPayload, ServerRecvFails,
                 ServerSendFails, Drops, DropsItem, Hangup
  <2>2. QED
    BY <1>1, <1>2, <2>1 DEF AllTrue, TrueThere, Checked, Undamaged
<1>12. CASE DeliverText \/ SaveFile
  <2>1. /\ sPc \in {"decrypt", "save"} /\ sPc' = "accept" /\ UNCHANGED sTrusted
        /\ \A d \in Runs : d # sConn => UNCHANGED delivered[d]
    BY <1>12 DEF DeliverText, SaveFile, Delivers, Hangup, TypeOK, ServerTypeOK
  <2>2. Undamaged(sConn, "hello") /\ Undamaged(sConn, "vault")
    BY <2>1 DEF AllTrue, TrueThere, Checked
  <2>3. QED
    BY <1>1, <1>2, <2>1, <2>2 DEF AllTrue, TrueThere, Checked, Undamaged
<1>13. QED
  BY <1>4, <1>5, <1>6, <1>7, <1>8, <1>9, <1>10, <1>11, <1>12 DEF ServerWork, ServerEnv

LEMMA AllStaysTrue == Spec => []AllTrue
<1>1. Init => AllTrue
  BY DEF Init, TransportInit, ClientInit, ServerInit, AllTrue, TrueOf, TrueThere, Checked
<1>2. TypeOK /\ TypeOK' /\ TrustIsVouched /\ SameKey /\ AllTrue /\ [Next]_vars => AllTrue'
  <2> SUFFICES ASSUME TypeOK, TypeOK', TrustIsVouched, SameKey, AllTrue, [Next]_vars
               PROVE  AllTrue'
    OBVIOUS
  <2>1. CASE UNCHANGED vars
    <3>1. \A d \in Runs : StaysConfirmed(d)
      BY <2>1 DEF vars, client, facts, StaysConfirmed, Confirmed, Vouched
    <3>2. \A d \in Runs : TrueOf(d)'
      BY <2>1, <3>1, OthersTrue DEF vars, net, client, facts, AllTrue
    <3>3. TrueThere'
      BY <2>1, <3>1 DEF vars, server, record, outputs, AllTrue, TrueThere, StaysConfirmed,
                        Undamaged, TypeOK, ServerTypeOK
    <3>4. QED
      BY <3>2, <3>3 DEF AllTrue
  <2>2. CASE (ServerWork \/ ServerEnv) /\ UNCHANGED client
    BY <2>2, TrueOfServerStep, TrueThereStep DEF AllTrue
  <2>3. QED
    BY <2>1, <2>2, TrueClientStep DEF Next, ClientStep, ServerStep
<1>3. QED
  BY <1>1, <1>2, TypeCorrect, TrustStaysVouched, KeyStaysSame, PTL DEF Spec

\* The receiver remembers only senders that confirmed to this start of it after they
\* had checked its signature and, unless they skip SAS, with the approval of a user,
\* whether or not the sender has come to remember the receiver itself
\* (server.py:137-143, client.py:75-107).
THEOREM SendersEarnTrust == Spec => []SenderTrustIsEarned
<1>1. TypeOK /\ SameKey /\ AllTrue => SenderTrustIsEarned
  <2> SUFFICES ASSUME TypeOK, SameKey, AllTrue, NEW c \in sTrusted
               PROVE  /\ cIntact[c] /\ peer[c] = identity
                      /\ AppOf[c] \in ClientSkips \/ Vouched(AppOf[c], identity)
    BY DEF SenderTrustIsEarned
  <2>1. c \in Runs /\ Known(c)
    BY DEF TypeOK, ServerTypeOK, Known
  <2>2. Confirmed(c)
    BY DEF AllTrue, TrueThere
  <2>3. cIntact[c] /\ peer[c] = identity
    BY <2>1, <2>2 DEF Confirmed, SameKey
  <2>4. QED
    BY <2>2, <2>3 DEF Confirmed
<1>2. QED
  BY <1>1, TypeCorrect, KeyStaysSame, AllStaysTrue, PTL

\* Whatever the configurations and the order of events, nothing of a run that its
\* user rejected, or of which a signed or sealed part was altered, reaches the
\* receiver's user (server.py:100-106, 125-131, 159-165).
THEOREM NothingRefusedArrives == Spec => []RefusedNeverDelivered
<1>1. TypeOK /\ Handed /\ AllTrue => RefusedNeverDelivered
  <2> SUFFICES ASSUME TypeOK, Handed, AllTrue, NEW c \in Runs
               PROVE  /\ verdict[c] = "rejected" => delivered[c] = <<>> /\ sent[c] = 0
                      /\ c \in {p[1] : p \in Damaged} => delivered[c] = <<>>
    BY DEF RefusedNeverDelivered
  <2>1. delivered[c] # <<>> => sent[c] > 0
    <3>1. delivered[c] \in Seq(Nat) /\ sent[c] \in Nat
      BY DEF TypeOK, ClientTypeOK, ServerTypeOK
    <3>2. delivered[c] # <<>> => Len(delivered[c]) > 0 /\ Len(delivered[c]) <= sent[c]
      BY <3>1 DEF Handed, HandedOf, Begins
    <3>3. QED
      BY <3>1, <3>2
  <2>2. verdict[c] = "rejected" => delivered[c] = <<>> /\ sent[c] = 0
    BY <2>1 DEF Handed, Settled
  <2>3. ASSUME NEW p \in Damaged, p[1] = c, delivered[c] # <<>> PROVE FALSE
    <3>1. p = <<c, p[2]>> /\ p[2] \in {"hello", "reply", "vault"}
      BY <2>3, TransportAssumption
    <3>2. Undamaged(c, "hello") /\ Undamaged(c, "vault") /\ Undamaged(c, "reply")
      BY <2>1, <2>3 DEF AllTrue, TrueThere, TrueOf
    <3>3. QED
      BY <3>1, <3>2 DEF Undamaged
  <2>4. QED
    BY <2>2, <2>3
<1>2. QED
  BY <1>1, TypeCorrect, HandedStays, AllStaysTrue, PTL
===============================================================================
