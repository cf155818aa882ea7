------------------------------- MODULE TuiProofs -------------------------------
(***************************************************************************)
(* The window of the receiver lets it do nothing that Session does not,    *)
(* and the log it shows has a whole block for each connection, however far *)
(* it is behind.                                                           *)
(***************************************************************************)
EXTENDS Tui, SessionProofs, SequenceTheorems

\* A run whose words were shown has connected and was accepted, and is the one
\* being served for as long as its connection is held.
Shown ==
    /\ \A c \in Runs : c \in displayed => cPc[c] # "idle" /\ ~Queued(c)
    /\ \A c \in Runs : c \in displayed /\ sOpen[c] => c = sConn
    /\ sConn \in displayed => sPc \in {"confirm", "vault", "stream", "decrypt", "save"}

Messages == [type : Overridden, run : Runs]
TuiTypeOK == msgQueue \in Seq(Messages) /\ screen \in Seq(Messages)

\* What was posted last tells where the receiver is.
Last == log[Len(log)]
LastIsNow ==
    /\ sConn = NoRun => log = <<>> \/ Last.type = "closed"
    /\ sConn # NoRun => /\ log # <<>>
                        /\ Last = Message(IF sConn \in displayed THEN "sas" ELSE "connection",
                                         sConn)

\* The inductive invariant of the log.
Story == TuiTypeOK /\ BlocksAreWhole /\ LastIsNow

-------------------------------------------------------------------------------
(* The window and the receiver.                                             *)

\* The window adds nothing to what sender and receiver do: it reads a queue, and
\* when it ends the receiver ends as it may at any time (app.py:57-121).  Every
\* theorem about Session is therefore one about the receiver in its window.
THEOREM WindowOnlyWatches == TuiSpec => Spec
<1>1. TuiInit => Init
  BY DEF TuiInit
<1>2. [TuiNext]_<<vars, tui>> => [Next]_vars
  BY DEF TuiNext, ServeAndReport, Interface, PollQueue, RenderRaises, Quit, Next, ClientStep,
         ServerEnv
<1>3. QED
  BY <1>1, <1>2, PTL DEF TuiSpec, Spec

-------------------------------------------------------------------------------
(* Whose words were shown.                                                  *)

\* A run shows nothing, closes nothing of the receiver's, and starts once.
LEMMA ShownClientStep ==
    ASSUME TypeOK, Shown, NEW c \in Runs, ClientStep(c)
    PROVE  Shown'
<1>1. UNCHANGED <<backlog, sOpen, sPc, sConn, displayed>>
  BY DEF ClientStep, ClientWork, server, record, outputs, net, SendHello, RecvReply, RefuseReply,
         AcceptReply, Confirm, Approve, Pin, Refuse, SendVault, SendChunk, SendEnd, Finish,
         ClientRecvFails, ClientSendFails, ClientPuts, ClientTakes, Leaves, Returns, Moves
<1>2. \A d \in Runs : cPc'[d] = "idle" => cPc[d] = "idle"
  BY ClientTables
  DEF TypeOK, ClientTypeOK, ClientStep, ClientWork, SendHello, RecvReply, RefuseReply,
      AcceptReply, Confirm, Approve, Pin, Refuse, SendVault, SendChunk, SendEnd, Finish,
      ClientRecvFails, ClientSendFails, Leaves, Returns, Moves, Goto
<1>3. QED
  BY <1>1, <1>2 DEF Shown, Queued

\* A run that connects was idle, so no words of it were shown.
LEMMA ShownClientEnvStep ==
    ASSUME TypeOK, Shown, ClientEnv, UNCHANGED server
    PROVE  Shown'
<1>1. UNCHANGED <<sPc, sConn, displayed>>
  BY DEF server, record, outputs
<1>2. ASSUME NEW c \in Runs, Connect(c)
      PROVE  Shown'
  <2>1. /\ backlog \in Seq(Runs)
        /\ backlog' = Append(backlog, c)
        /\ c \notin displayed
        /\ \A d \in Runs \ {c} : sOpen'[d] = sOpen[d]
    BY <1>2 DEF Connect, Moves, Shown, TypeOK, TransportTypeOK
  <2>2. \A d \in Runs : cPc'[d] = "idle" => cPc[d] = "idle"
    BY <1>2 DEF Connect, Moves, Goto, TypeOK, ClientTypeOK
  <2>3. \A d \in Runs : Queued(d)' => Queued(d) \/ d = c
    BY <2>1 DEF Queued
  <2>4. QED
    BY <1>1, <2>1, <2>2, <2>3 DEF Shown
<1>3. ASSUME NEW c \in Runs,
             ConnectFails(c) \/ \E v \in {"approved", "rejected"} : UserAnswers(c, v)
      PROVE  Shown'
  <2>1. \A d \in Runs : cPc'[d] = "idle" => cPc[d] = "idle"
    BY <1>3 DEF ConnectFails, UserAnswers, Leaves, Returns, Moves, Goto, TypeOK, ClientTypeOK
  <2>2. QED
    BY <1>1, <1>3, <2>1 DEF ConnectFails, UserAnswers, Leaves, net, Shown, Queued
<1>4. ASSUME NEW a \in Apps, AppExit(a)
      PROVE  Shown'
  <2>1. \A d \in Runs : cPc'[d] = "idle" => cPc[d] = "idle"
    BY <1>4 DEF AppExit
  <2>2. QED
    BY <1>1, <1>4, <2>1 DEF AppExit, Shown, Queued
<1>5. QED
  BY <1>2, <1>3, <1>4, ClientEnv DEF ClientEnv

\* The receiver accepts only when it serves no connection.
LEMMA AcceptingServesNone == TypeOK /\ sPc = "accept" => sConn = NoRun
BY ServerTables DEF TypeOK, ServerTypeOK, ServerBusy, ServerReading

\* The receiver shows the words of the run it serves, which is not queued, and has
\* let go of it when it serves another.
LEMMA ShownServerStep ==
    ASSUME TypeOK, FreshSenders, Shown, ServerStep \/ (ServerEnv /\ UNCHANGED client)
    PROVE  Shown'
<1> USE TransportAssumption DEF Steps, record, outputs
<1>1. UNCHANGED cPc
  BY DEF ServerStep, client
<1>2. CASE Accept
  <2>1. backlog \in Seq(Runs) /\ backlog # <<>>
    BY <1>2 DEF Accept, TypeOK, TransportTypeOK
  <2>2. /\ Len(backlog') = Len(backlog) - 1
        /\ \A i \in 1..Len(backlog') : backlog'[i] = backlog[i + 1]
        /\ sConn' = backlog[1]
        /\ sConn' \in Runs
    BY <1>2, <2>1 DEF Accept
  <2>3. \A d \in Runs : Queued(d)' => Queued(d)
    BY <2>1, <2>2 DEF Queued
  <2>4. Queued(sConn')
    BY <2>1, <2>2 DEF Queued
  <2>5. UNCHANGED <<displayed, sOpen>> /\ sConn = NoRun
    <3>1. sPc = "accept" /\ UNCHANGED <<displayed, sOpen>>
      BY <1>2 DEF Accept
    <3>2. QED
      BY <3>1, AcceptingServesNone
  <2>6. QED
    BY <1>1, <2>2, <2>3, <2>4, <2>5 DEF Shown
<1>3. CASE Stop
  BY <1>1, <1>3 DEF Stop, Shown, Queued, TypeOK, ServerTypeOK
<1>4. CASE ShowSas
  <2>1. /\ sConn \in Runs
        /\ displayed' = displayed \cup {sConn} /\ sPc' = "confirm"
        /\ UNCHANGED <<backlog, sOpen, sConn>>
    BY <1>4 DEF ShowSas, net, SasThen, TypeOK, ServerTypeOK, ServerBusy
  <2>2. cPc[sConn] # "idle" /\ ~Queued(sConn)
    BY <2>1 DEF FreshSenders
  <2>3. QED
    BY <1>1, <2>1, <2>2 DEF Shown, Queued
<1>5. CASE Start \/ RecvHello \/ AcceptHello \/ SendReply \/ SkipSas \/ DrainByte \/ DrainEof
           \/ RecvConfirm \/ RecvVault \/ RecvChunk \/ RecvEnd \/ StreamEof \/ OpenFile
  <2>1. UNCHANGED <<backlog, sOpen, sConn, displayed>>
    BY <1>5 DEF Start, RecvHello, AcceptHello, SendReply, SkipSas, DrainByte, DrainEof, RecvConfirm,
                RecvVault, RecvChunk, RecvEnd, StreamEof, OpenFile, ServerTakes, ServerPuts, net
  <2>2. sConn' \in displayed' => sPc' \in {"confirm", "vault", "stream", "decrypt", "save"}
    BY <1>5, <2>1, ServerTables
    DEF Start, RecvHello, AcceptHello, SendReply, SkipSas, DrainByte, DrainEof, RecvConfirm,
        RecvVault, RecvChunk, RecvEnd, StreamEof, OpenFile, SasThen, Shown
  <2>3. QED
    BY <1>1, <2>1, <2>2 DEF Shown, Queued
<1>6. CASE RefuseHello \/ RecvReject \/ RefuseVault \/ DeliverText \/ SaveFile \/ DropPayload
           \/ ServerRecvFails \/ ServerSendFails
  <2>1. Hangup /\ UNCHANGED displayed
    BY <1>6 DEF RefuseHello, RecvReject, RefuseVault, DeliverText, SaveFile, DropPayload,
                ServerRecvFails, ServerSendFails, Drops, DropsItem, Delivers
  <2>2. \A c \in Runs : sOpen'[c] => sOpen[c] /\ c # sConn
    BY <2>1 DEF Hangup, TypeOK, TransportTypeOK
  <2>3. UNCHANGED backlog /\ sConn' = NoRun /\ displayed \subseteq Runs
    BY <2>1 DEF Hangup, TypeOK, ServerTypeOK
  <2>4. QED
    BY <1>1, <2>1, <2>2, <2>3 DEF Shown, Queued
<1>7. QED
  BY <1>2, <1>3, <1>4, <1>5, <1>6 DEF ServerStep, ServerWork, ServerEnv

\* Together, for all behaviours of the receiver.
LEMMA StaysShown == Spec => []Shown
<1>1. Init => Shown
  BY DEF Init, ServerInit, Shown
<1>2. TypeOK /\ FreshSenders /\ Shown /\ [Next]_vars => Shown'
  <2> SUFFICES ASSUME TypeOK, FreshSenders, Shown, [Next]_vars
               PROVE  Shown'
    OBVIOUS
  <2>1. CASE UNCHANGED vars
    BY <2>1 DEF vars, net, client, server, record, outputs, Shown, Queued
  <2>2. QED
    BY <2>1, ShownClientStep, ShownClientEnvStep, ShownServerStep DEF Next
<1>3. QED
  BY <1>1, <1>2, TypeCorrect, SendersStayFresh, PTL DEF Spec

-------------------------------------------------------------------------------
(* The log.                                                                 *)

\* The interface moves the oldest message from the queue to the screen.
LEMMA Moved ==
    ASSUME NEW S, NEW s \in Seq(S), NEW q \in Seq(S), q # <<>>
    PROVE  /\ Append(s, Head(q)) \in Seq(S) /\ Tail(q) \in Seq(S)
           /\ Append(s, Head(q)) \o Tail(q) = s \o q
<1>1. /\ Head(q) \in S /\ Head(q) = q[1]
      /\ Tail(q) \in Seq(S) /\ Len(Tail(q)) = Len(q) - 1
      /\ \A i \in 1..Len(q) - 1 : Tail(q)[i] = q[i + 1]
      /\ Len(q) \in Nat /\ Len(q) > 0
  OBVIOUS
<1>2. Append(s, Head(q)) = s \o <<Head(q)>> /\ <<Head(q)>> \in Seq(S)
  BY <1>1, AppendIsConcat
<1>3. (s \o <<Head(q)>>) \o Tail(q) = s \o (<<Head(q)>> \o Tail(q))
  BY <1>1, <1>2, ConcatAssociative
<1>4. <<Head(q)>> \o Tail(q) = q
  <2> DEFINE h == <<Head(q)>>
             t == Tail(q)
  <2>1. h \in Seq(S) /\ Len(h) = 1 /\ h[1] = q[1]
    BY <1>1
  <2>2. t \in Seq(S) /\ Len(t) = Len(q) - 1 /\ \A i \in 1..Len(q) - 1 : t[i] = q[i + 1]
    BY <1>1
  <2> HIDE DEF h, t
  <2>3. /\ h \o t \in Seq(S) /\ Len(h \o t) = Len(h) + Len(t)
        /\ \A i \in 1..Len(h) + Len(t) : (h \o t)[i] = IF i <= Len(h) THEN h[i] ELSE t[i - Len(h)]
    <3>1. h \in Seq(S) /\ t \in Seq(S)
      BY <2>1, <2>2
    <3>2. QED
      BY <3>1, ConcatProperties
  <2>4. Len(h \o t) = Len(q) /\ \A i \in 1..Len(q) : (h \o t)[i] = q[i]
    <3>1. Len(h) + Len(t) = Len(q)
      BY <1>1, <2>1, <2>2
    <3>2. ASSUME NEW i \in 1..Len(q) PROVE (h \o t)[i] = q[i]
      <4>1. CASE i = 1
        BY <2>1, <2>3, <3>1, <4>1
      <4>2. CASE i > 1
        <5>1. i - 1 \in 1..Len(q) - 1 /\ (i - 1) + 1 = i
          BY <1>1, <4>2
        <5>2. (h \o t)[i] = t[i - 1]
          BY <2>1, <2>3, <3>1, <4>2
        <5>3. t[i - 1] = q[i]
          BY <2>2, <5>1
        <5>4. QED
          BY <5>2, <5>3
      <4>3. i = 1 \/ i > 1
        BY <1>1
      <4>4. QED
        BY <4>1, <4>2, <4>3
    <3>3. QED
      BY <2>3, <3>1, <3>2
  <2>5. h \o t = q
    BY <2>3, <2>4, SeqEqual
  <2>6. QED
    BY <2>5 DEF h, t
<1>5. Append(s, Head(q)) \in Seq(S)
  BY <1>1
<1>6. QED
  BY <1>1, <1>2, <1>3, <1>4, <1>5

\* A log of whole blocks, and a message that may follow.
Whole(l) ==
    /\ l # <<>> => l[1].type = "connection"
    /\ \A i \in 1..Len(l) - 1 : Follows(l[i + 1], l[i])

\* Such a message keeps the blocks whole.
LEMMA WholeAppend ==
    ASSUME NEW S, NEW l \in Seq(S), NEW m \in S, Whole(l),
           l = <<>> => m.type = "connection",
           l # <<>> => Follows(m, l[Len(l)])
    PROVE  /\ Append(l, m) \in Seq(S) /\ Append(l, m) # <<>>
           /\ Append(l, m)[Len(Append(l, m))] = m
           /\ Whole(Append(l, m))
<1> DEFINE k == Append(l, m)
<1>1. /\ k \in Seq(S) /\ Len(k) = Len(l) + 1 /\ k[Len(l) + 1] = m
      /\ \A i \in 1..Len(l) : k[i] = l[i]
      /\ Len(l) \in Nat /\ (Len(l) = 0 <=> l = <<>>)
  OBVIOUS
<1> HIDE DEF k
<1>2. k # <<>>
  BY <1>1
<1>3. k[1].type = "connection"
  BY <1>1 DEF Whole
<1>4. ASSUME NEW i \in 1..Len(k) - 1
      PROVE  Follows(k[i + 1], k[i])
  <2>1. CASE i = Len(l)
    BY <1>1, <2>1
  <2>2. CASE i # Len(l)
    <3>1. i \in 1..Len(l) /\ i + 1 \in 1..Len(l) /\ i \in 1..Len(l) - 1
      BY <1>1, <2>2
    <3>2. QED
      BY <1>1, <3>1 DEF Whole
  <2>3. QED
    BY <2>1, <2>2
<1>5. Whole(k)
  BY <1>3, <1>4 DEF Whole
<1>6. QED
  BY <1>1, <1>2, <1>5 DEF k

\* What the receiver posts in a step, and what it does meanwhile.
Announces == /\ sConn = NoRun /\ sConn' \in Runs /\ sConn' \notin displayed /\ UNCHANGED displayed
             /\ Reported = <<Message("connection", sConn')>>
ShowsWords == /\ sConn \in Runs /\ sConn \notin displayed /\ UNCHANGED sConn
              /\ displayed' = displayed \cup {sConn}
              /\ Reported = <<Message("sas", sConn)>>
Closes == /\ sConn \in Runs /\ sConn' = NoRun
          /\ Outcome \in Outcomes
          /\ Reported = <<Message(Outcome, sConn), Message("closed", sConn)>>
SaysNothing == UNCHANGED <<sConn, displayed>> /\ Reported = <<>>

\* The two messages with which a connection may end, as Reported puts them together.
LEMMA TwoMessages ==
    ASSUME NEW p, NEW m
    PROVE  ((<<>> \o <<>>) \o <<p>>) \o <<m>> = <<p, m>>
<1>1. <<p>> \in Seq({p, m}) /\ <<m>> \in Seq({p, m}) /\ <<p, m>> \in Seq({p, m})
  OBVIOUS
<1>2. (<<>> \o <<>>) \o <<p>> = <<p>>
  BY <1>1, ConcatEmptySeq
<1>3. <<p>> \o <<m>> = <<p, m>>
  <2> DEFINE s == <<p>>
             t == <<m>>
             u == <<p, m>>
  <2>1. /\ s \in Seq({p, m}) /\ Len(s) = 1 /\ s[1] = p
        /\ t \in Seq({p, m}) /\ Len(t) = 1 /\ t[1] = m
        /\ u \in Seq({p, m}) /\ Len(u) = 2 /\ u[1] = p /\ u[2] = m
    BY <1>1
  <2> HIDE DEF s, t, u
  <2>2. /\ s \o t \in Seq({p, m}) /\ Len(s \o t) = Len(s) + Len(t)
        /\ \A i \in 1..Len(s) + Len(t) : (s \o t)[i] = IF i <= Len(s) THEN s[i] ELSE t[i - Len(s)]
    BY <2>1, ConcatProperties
  <2>3. s \o t = u
    <3>1. (s \o t)[1] = u[1] /\ (s \o t)[2] = u[2]
      BY <2>1, <2>2
    <3>2. Len(s \o t) = Len(u) /\ \A i \in 1..Len(u) : i = 1 \/ i = 2
      BY <2>1, <2>2
    <3>3. QED
      BY <2>1, <2>2, <3>1, <3>2, SeqEqual
  <2>4. QED
    BY <2>3 DEF s, t, u
<1>4. QED
  BY <1>2, <1>3

\* Every step of the receiver is one of these four.
LEMMA ReportedCases ==
    ASSUME TypeOK, Shown, ServerStep
    PROVE  Announces \/ ShowsWords \/ Closes \/ SaysNothing
<1> USE TransportAssumption DEF Steps, record, outputs, Says, Overridden
<1>1. CASE Accept
  <2>1. backlog \in Seq(Runs) /\ backlog # <<>>
    BY <1>1 DEF Accept, TypeOK, TransportTypeOK
  <2>2. sConn = NoRun
    BY <1>1, AcceptingServesNone DEF Accept
  <2>3. /\ sConn' \in Runs /\ sConn' # NoRun /\ UNCHANGED <<displayed, delivered>>
        /\ sConn' = backlog[1] /\ 1 \in 1..Len(backlog)
    BY <1>1, <2>1 DEF Accept
  <2>4. Reported = <<Message("connection", sConn')>>
    BY <2>2, <2>3 DEF Reported
  <2>5. sConn' \notin displayed
    BY <2>3 DEF Shown, Queued
  <2>6. QED
    BY <2>2, <2>3, <2>4, <2>5 DEF Announces
<1>2. CASE ShowSas
  <2>1. sConn \in Runs /\ sConn \notin displayed
    BY <1>2 DEF ShowSas, Shown, TypeOK, ServerTypeOK, ServerBusy
  <2>2. displayed' = displayed \cup {sConn} /\ UNCHANGED <<sConn, delivered>>
    BY <1>2 DEF ShowSas
  <2>3. displayed' # displayed /\ sConn # NoRun
    BY <2>1, <2>2
  <2>4. Reported = <<Message("sas", sConn)>>
    BY <2>2, <2>3 DEF Reported
  <2>5. QED
    BY <2>1, <2>2, <2>4 DEF ShowsWords
<1>3. CASE RefuseHello \/ RecvReject \/ RefuseVault \/ DeliverText \/ SaveFile \/ DropPayload
           \/ ServerRecvFails \/ ServerSendFails
  <2>1. Hangup /\ UNCHANGED displayed
    BY <1>3 DEF RefuseHello, RecvReject, RefuseVault, DeliverText, SaveFile, DropPayload,
                ServerRecvFails, ServerSendFails, Drops, DropsItem, Delivers
  <2>2. sPc \in ServerBusy
    BY <1>3, ServerTables
    DEF RefuseHello, RecvReject, RefuseVault, DeliverText, SaveFile, DropPayload,
        ServerRecvFails, ServerSendFails, ServerBusy, ServerReading
  <2>3. sConn \in Runs /\ sConn' = NoRun /\ sConn # NoRun
    BY <2>1, <2>2 DEF Hangup, TypeOK, ServerTypeOK
  <2>4. Outcome \in Outcomes
    BY DEF Outcome, Outcomes
  <2>5. Reported = ((<<>> \o <<>>) \o <<Message(Outcome, sConn)>>) \o <<Message("closed", sConn)>>
    BY <2>1, <2>3, <2>4 DEF Reported, Outcomes
  <2>6. QED
    BY <2>3, <2>4, <2>5, TwoMessages DEF Closes
<1>4. CASE RecvHello \/ AcceptHello \/ SendReply \/ SkipSas \/ DrainByte \/ DrainEof
           \/ RecvConfirm \/ RecvVault \/ RecvChunk \/ RecvEnd \/ StreamEof \/ OpenFile
  <2>1. UNCHANGED <<sConn, displayed, delivered>>
    BY <1>4 DEF RecvHello, AcceptHello, SendReply, SkipSas, DrainByte, DrainEof, RecvConfirm,
                RecvVault, RecvChunk, RecvEnd, StreamEof, OpenFile
  <2>2. Reported = <<>>
    BY <2>1 DEF Reported
  <2>3. QED
    BY <2>1, <2>2 DEF SaysNothing
<1>5. QED
  BY <1>1, <1>2, <1>3, <1>4 DEF ServerStep, ServerWork

\* The log grows by what is posted.
LEMMA LogGrows ==
    ASSUME TuiTypeOK, NEW r \in Seq(Messages), r = Reported, Puts(Reported), UNCHANGED screen
    PROVE  TuiTypeOK' /\ log \in Seq(Messages) /\ log' = log \o r
<1>1. msgQueue \in Seq(Messages) /\ screen \in Seq(Messages)
  BY DEF TuiTypeOK
<1>2. msgQueue' = msgQueue \o r
  BY DEF Puts
<1>3. TuiTypeOK'
  BY <1>1, <1>2 DEF TuiTypeOK
<1>4. (screen \o msgQueue) \o r = screen \o (msgQueue \o r)
  BY <1>1, ConcatAssociative
<1>5. QED
  BY <1>1, <1>2, <1>3, <1>4 DEF log

\* A message that may follow keeps the log whole, and is its last.
LEMMA LogAppend ==
    ASSUME NEW l \in Seq(Messages), NEW m \in Messages, Whole(l),
           l = <<>> => m.type = "connection",
           l # <<>> => Follows(m, l[Len(l)])
    PROVE  /\ l \o <<m>> \in Seq(Messages) /\ l \o <<m>> # <<>>
           /\ (l \o <<m>>)[Len(l \o <<m>>)] = m
           /\ Whole(l \o <<m>>)
<1>1. l \o <<m>> = Append(l, m)
  BY AppendIsConcat
<1>2. /\ Append(l, m) \in Seq(Messages) /\ Append(l, m) # <<>>
      /\ Append(l, m)[Len(Append(l, m))] = m
      /\ Whole(Append(l, m))
  BY WholeAppend
<1>3. QED
  BY <1>1, <1>2, Zenon

\* The story goes on, whatever the receiver does.
LEMMA StoryServes ==
    ASSUME TypeOK, Shown, Story, ServeAndReport
    PROVE  Story'
<1> USE TransportAssumption
<1>1. ServerStep /\ Puts(Reported) /\ UNCHANGED screen
  BY DEF ServeAndReport
<1>2. TuiTypeOK /\ Whole(log) /\ LastIsNow
  BY DEF Story, BlocksAreWhole, Whole
<1>3. log \in Seq(Messages)
  BY <1>2 DEF TuiTypeOK, log
<1>4. SUFFICES TuiTypeOK' /\ Whole(log') /\ LastIsNow'
  BY DEF Story, BlocksAreWhole, Whole
<1>5. CASE Announces
  <2> DEFINE m == Message("connection", sConn')
  <2>1. m \in Messages /\ m.type = "connection" /\ <<m>> \in Seq(Messages) /\ <<m>> = Reported
    BY <1>5 DEF Announces, Message, Messages, Overridden
  <2>2. TuiTypeOK' /\ log' = log \o <<m>>
    BY <1>1, <1>2, <2>1, LogGrows
  <2>3. log # <<>> => Follows(m, log[Len(log)])
    BY <1>2, <1>5, <2>1 DEF LastIsNow, Last, Announces, Follows
  <2> HIDE DEF m
  <2>4. Whole(log') /\ log' # <<>> /\ log'[Len(log')] = m
    BY <1>2, <1>3, <2>1, <2>2, <2>3, LogAppend
  <2>5. sConn' # NoRun /\ sConn' \notin displayed'
    BY <1>5 DEF Announces
  <2>6. QED
    BY <2>2, <2>4, <2>5 DEF LastIsNow, Last, m
<1>6. CASE ShowsWords
  <2> DEFINE m == Message("sas", sConn)
  <2>1. m \in Messages /\ <<m>> \in Seq(Messages) /\ <<m>> = Reported
    BY <1>6 DEF ShowsWords, Message, Messages, Overridden
  <2>2. TuiTypeOK' /\ log' = log \o <<m>>
    BY <1>1, <1>2, <2>1, LogGrows
  <2>3. log # <<>> /\ Follows(m, log[Len(log)])
    BY <1>2, <1>6 DEF LastIsNow, Last, ShowsWords, Follows, Message
  <2> HIDE DEF m
  <2>4. Whole(log') /\ log' # <<>> /\ log'[Len(log')] = m
    BY <1>2, <1>3, <2>1, <2>2, <2>3, LogAppend
  <2>5. sConn' = sConn /\ sConn # NoRun /\ sConn' \in displayed'
    BY <1>6 DEF ShowsWords
  <2>6. QED
    BY <2>2, <2>4, <2>5 DEF LastIsNow, Last, m
<1>7. CASE Closes
  <2> DEFINE p == Message(Outcome, sConn)
             m == Message("closed", sConn)
  <2>1. /\ p \in Messages /\ m \in Messages /\ <<p>> \in Seq(Messages) /\ <<m>> \in Seq(Messages)
        /\ sConn # NoRun /\ sConn' = NoRun /\ p.type \in Outcomes
    BY <1>7 DEF Closes, Message, Messages, Overridden, Outcomes
  <2>2. /\ log # <<>> /\ Follows(p, log[Len(log)]) /\ Follows(m, p) /\ m.type = "closed"
    BY <1>2, <2>1 DEF LastIsNow, Last, Follows, Message
  <2>3. Reported = <<p, m>>
    BY <1>7 DEF Closes
  <2>4. <<p, m>> \in Seq(Messages) /\ <<p, m>> = <<p>> \o <<m>>
    BY <2>1
  <2>5. TuiTypeOK' /\ log' = log \o (<<p>> \o <<m>>)
    BY <1>1, <1>2, <2>3, <2>4, LogGrows
  <2> HIDE DEF p, m
  <2>6. log' = (log \o <<p>>) \o <<m>>
    BY <1>3, <2>1, <2>5, ConcatAssociative
  <2> DEFINE l == log \o <<p>>
  <2>7. l \in Seq(Messages) /\ l # <<>> /\ l[Len(l)] = p /\ Whole(l)
    BY <1>2, <1>3, <2>1, <2>2, LogAppend
  <2> HIDE DEF l
  <2>8. Whole(l \o <<m>>) /\ l \o <<m>> # <<>> /\ (l \o <<m>>)[Len(l \o <<m>>)] = m
    BY <2>1, <2>2, <2>7, LogAppend
  <2>9. Whole(log') /\ log' # <<>> /\ log'[Len(log')] = m
    BY <2>6, <2>8 DEF l
  <2>10. QED
    BY <2>1, <2>2, <2>5, <2>9 DEF LastIsNow, Last
<1>8. CASE SaysNothing
  <2>1. <<>> \in Seq(Messages) /\ <<>> = Reported
    BY <1>8 DEF SaysNothing
  <2>2. TuiTypeOK' /\ log' = log \o <<>>
    BY <1>1, <1>2, <2>1, LogGrows
  <2>3. log' = log
    BY <1>3, <2>2, ConcatEmptySeq
  <2>4. QED
    BY <1>2, <1>8, <2>2, <2>3 DEF SaysNothing, LastIsNow, Last
<1>9. QED
  BY <1>1, <1>5, <1>6, <1>7, <1>8, ReportedCases

\* Nor does anything else disturb it.
LEMMA StoryAside ==
    ASSUME Story, log' = log, TuiTypeOK', UNCHANGED <<sConn, displayed>>
    PROVE  Story'
BY DEF Story, BlocksAreWhole, LastIsNow, Last

\* The poller takes a message from the queue to the screen (app.py).
LEMMA StoryPolls ==
    ASSUME Story, PollQueue
    PROVE  Story'
<1>1. msgQueue \in Seq(Messages) /\ screen \in Seq(Messages) /\ msgQueue # <<>>
  BY DEF Story, TuiTypeOK, PollQueue
<1>2. screen' = Append(screen, Head(msgQueue)) /\ msgQueue' = Tail(msgQueue)
  BY DEF PollQueue
<1>3. TuiTypeOK' /\ log' = log
  BY <1>1, <1>2, Moved DEF TuiTypeOK, log
<1>4. UNCHANGED <<sConn, displayed>>
  BY DEF PollQueue, vars, server, record, outputs
<1>5. QED
  BY <1>3, <1>4, StoryAside

\* A window that ends takes its queue and its log along.
LEMMA StoryQuits ==
    ASSUME Quit
    PROVE  Story'
<1>1. sConn' = NoRun /\ msgQueue' = <<>> /\ screen' = <<>>
  BY DEF Quit, Stop
<1>2. TuiTypeOK' /\ log' = <<>>
  <2>1. <<>> \in Seq(Messages) /\ <<>> \o <<>> = <<>>
    BY ConcatEmptySeq
  <2>2. QED
    BY <1>1, <2>1 DEF TuiTypeOK, log
<1>3. QED
  BY <1>1, <1>2 DEF Story, BlocksAreWhole, LastIsNow

\* The log tells the story of the connections, in all behaviours.
LEMMA StoryHolds == TuiSpec => []Story
<1>1. TuiInit => Story
  <2> SUFFICES ASSUME TuiInit PROVE Story
    OBVIOUS
  <2>1. sConn = NoRun /\ msgQueue = <<>> /\ screen = <<>>
    BY DEF TuiInit, Init, ServerInit
  <2>2. <<>> \in Seq(Messages) /\ <<>> \o <<>> = <<>>
    BY ConcatEmptySeq
  <2>3. TuiTypeOK /\ log = <<>>
    BY <2>1, <2>2 DEF TuiTypeOK, log
  <2>4. QED
    BY <2>1, <2>3 DEF Story, BlocksAreWhole, LastIsNow
<1>2. TypeOK /\ Shown /\ Story /\ [TuiNext]_<<vars, tui>> => Story'
  <2> SUFFICES ASSUME TypeOK, Shown, Story, [TuiNext]_<<vars, tui>>
               PROVE  Story'
    OBVIOUS
  <2>1. CASE UNCHANGED tui /\ UNCHANGED <<sConn, displayed>>
    <3>1. UNCHANGED <<msgQueue, screen>>
      BY <2>1 DEF tui
    <3>2. log' = log /\ TuiTypeOK'
      BY <3>1 DEF log, Story, TuiTypeOK
    <3>3. QED
      BY <2>1, <3>2, StoryAside
  <2>2. CASE UNCHANGED <<vars, tui>>
    BY <2>1, <2>2 DEF vars, server, record, outputs
  <2>3. CASE UNCHANGED server /\ UNCHANGED tui
    BY <2>1, <2>3 DEF server, record, outputs
  <2>4. CASE Start /\ UNCHANGED tui
    BY <2>1, <2>4 DEF Start, outputs
  <2>5. QED
    BY <2>2, <2>3, <2>4, StoryServes, StoryPolls, StoryQuits
    DEF TuiNext, ClientStep, Interface, RenderRaises
<1>3. QED
  BY <1>1, <1>2, WindowOnlyWatches, TypeCorrect, StaysShown, PTL DEF TuiSpec

\* The log, on screen and still queued, is a whole block for each connection,
\* whatever the senders do and however the window lags, closes or fails
\* (app.py:15-39, 76-121, server.py:68-76).
THEOREM BlocksStayWhole == TuiSpec => []BlocksAreWhole
<1>1. Story => BlocksAreWhole
  BY DEF Story
<1>2. QED
  BY <1>1, StoryHolds, PTL

\* While the receiver holds the connection of a run whose words it showed, nothing
\* was posted after them: a user who compares finds his own (server.py:60-76, 134,
\* client.py:93-98).
THEOREM WordsStayCurrent == TuiSpec => []WordsAreCurrent
<1>1. Shown /\ Story => WordsAreCurrent
  <2> SUFFICES ASSUME Shown, Story, NEW c \in Runs, sOpen[c], c \in displayed
               PROVE  LastWords(c)
    BY DEF WordsAreCurrent
  <2>1. sConn = c /\ sConn # NoRun
    BY TransportAssumption DEF Shown
  <2>2. log # <<>> /\ log[Len(log)] = Message("sas", c) /\ log \in Seq(Messages)
    BY <2>1 DEF Story, LastIsNow, Last, TuiTypeOK, log
  <2>3. Len(log) \in 1..Len(log) /\ \A j \in Len(log) + 1..Len(log) : FALSE
    BY <2>2
  <2>4. QED
    BY <2>2, <2>3 DEF LastWords
<1>2. QED
  BY <1>1, StoryHolds, StaysShown, WindowOnlyWatches, PTL
===============================================================================
