------------------------------- MODULE GuiProofs -------------------------------
(***************************************************************************)
(* The window has one transmission under way, its questions are answered   *)
(* by clicks on their own words, and its status line is true, for any      *)
(* number of transmissions and overlapping polls.                          *)
(***************************************************************************)
EXTENDS Gui, FiniteSetTheorems, TLAPS

\* The timer that progressPoller holds is one of those that run.
TimersRun == poller => timers > 0

\* A transmission that the window has not started has no thread.
Unstarted == \A t \in Tx : jsPc[t] = "idle" => pyPc[t] = "idle"

\* A thread at work is of the transmission that the window has under way.
Busy == \A t \in Tx : pyPc[t] \notin PyRest => t = current /\ isTransmitting

\* So is a call whose return will still end it.
Decides(t) == Kind[t] = "text" \/ pyPc[t] \in {"called", "cancelled", "raised"}
Awaited ==
    \A t \in Tx : jsPc[t] = "awaiting" /\ Decides(t) => t = current /\ isTransmitting

\* An event on its way tells where the transmission under way still is.
IsNews(e) ==
    /\ e.tx = current
    /\ isTransmitting
    /\ \/ e.stage = "ask" /\ pyPc[current] = "asking"
       \/ e.stage = Ending(current) /\ pyPc[current] = "done" /\ Kind[current] # "text"
News ==
    /\ \A i \in 1..Len(progressQ) : IsNews(progressQ[i])
    /\ \A p \in Polls : \A i \in 1..Len(got[p]) : IsNews(got[p][i])

\* Events are on their way in one place only, and one at a time.
NoneTaken == \A p \in Polls : got[p] = <<>>
Single ==
    /\ progressQ # <<>> => Len(progressQ) = 1 /\ NoneTaken
    /\ \A p, q \in Polls : got[p] # <<>> /\ got[q] # <<>> => p = q

\* A question goes from the event to the dialog, the click and the queue of
\* answers, and is in one of these places only.
Asking == current \in Tx /\ pyPc[current] = "asking" /\ progressQ = <<>> /\ NoneTaken
Question ==
    /\ modal # NoTx => modal = current /\ Asking /\ clicks = {} /\ sasQ = <<>>
    /\ clicks # {} => Asking /\ sasQ = <<>>
    /\ \A a, b \in clicks : a = b /\ a.tx = current
    /\ sasQ # <<>> => Asking /\ Len(sasQ) = 1 /\ Head(sasQ).tx = current

\* A call has no result before it returns.
Unended == {"idle", "called", "cancelled", "raised", "worker", "running", "asking",
            "verified", "refused"}
NoResult == \A t \in Tx : pyPc[t] \in Unended => outcome[t] = "none"

\* The inductive invariant.
Window ==
    /\ Unstarted /\ Busy /\ Awaited
    /\ News /\ Single /\ Question
    /\ NoResult /\ AnswerIsOnes /\ StatusIsTrue

-------------------------------------------------------------------------------
(* Types.                                                                   *)

LEMMA RunClientTypes ==
    ASSUME BridgeTypeOK, NEW t \in Tx, ClientCall(t)
    PROVE  BridgeTypeOK'
<1> USE DEF BridgeTypeOK, Moves, PyPcs, PyRest, counts, Run!Moves
<1>1. CASE TakeAnswer(t)
  <2>1. sasQ \in Seq(Answers) /\ sasQ # <<>> /\ Head(sasQ) \in Answers /\ Tail(sasQ) \in Seq(Answers)
    BY <1>1 DEF TakeAnswer
  <2>2. Head(sasQ).tx \in Tx
    BY <2>1 DEF Answers
  <2>3. Run!Approved(t) \/ Run!Rejected(t)
    BY <1>1 DEF TakeAnswer
  <2>4. pyPc' \in [Tx -> PyPcs] /\ UNCHANGED outcome
    BY <2>3 DEF Run!Approved, Run!Rejected
  <2>5. QED
    BY <1>1, <2>1, <2>2, <2>4 DEF TakeAnswer
<1>2. CASE AskSas(t)
  <2>1. Event(t, "ask") \in Events
    BY DEF Event, Events, Stages
  <2>2. progressQ' \in Seq(Events)
    BY <1>2, <2>1 DEF AskSas, Reports
  <2>3. QED
    BY <1>2, <2>2 DEF AskSas, Run!Ask
<1>3. CASE KnownReceiver(t)
  BY <1>3 DEF KnownReceiver, Run!Known
<1>4. CASE RunEnds(t)
  BY <1>4 DEF RunEnds, Run!Succeed, Run!Fail, Run!Returns
<1>5. CASE RunRaises(t)
  BY <1>5 DEF RunRaises, Moves, Results, PyRest
<1>6. QED
  BY <1>1, <1>2, <1>3, <1>4, <1>5 DEF ClientCall

\* The statistics count up, and a line of the history is put in front.
LEMMA StatisticsTypes ==
    ASSUME BridgeTypeOK, NEW t \in Tx, Statistics(t)
    PROVE  BridgeTypeOK'
<1> USE DEF BridgeTypeOK, Moves, PyPcs, PyRest
<1>1. ASSUME NEW id \in Nat, NEW s \in {"Success", "Failed", "Error"}
      PROVE  Entry(t, id, s) \o history \in Seq(Entries)
  <2>1. [id |-> id, tx |-> t, status |-> s] \in Entries
    BY DEF Entries
  <2>2. QED
    BY <2>1 DEF Entry
<1>2. CASE Count(t)
  BY <1>2 DEF Count
<1>3. CASE ListSuccess(t)
  BY <1>1, <1>3 DEF ListSuccess
<1>4. CASE ListFailure(t)
  <2>1. history' \in Seq(Entries)
    BY <1>1, <1>4 DEF ListFailure
  <2>2. QED
    BY <1>4, <2>1 DEF ListFailure
<1>5. CASE Raised(t)
  <2>1. total' \in Nat
    BY <1>5 DEF Raised
  <2>2. history' \in Seq(Entries)
    BY <1>1, <1>5, <2>1 DEF Raised
  <2>3. QED
    BY <1>5, <2>1, <2>2 DEF Raised
<1>6. QED
  BY <1>2, <1>3, <1>4, <1>5 DEF Statistics

\* Each step of a transmission's thread keeps the types.
LEMMA ThreadTypes ==
    ASSUME BridgeTypeOK, NEW t \in Tx, BridgeWork(t)
    PROVE  BridgeTypeOK'
<1> USE DEF BridgeTypeOK, Moves, PyPcs, PyRest, Results, counts
<1>1. CASE BeginText(t)
  BY <1>1 DEF BeginText
<1>2. CASE ReturnText(t)
  <2>1. \E to \in {"raising", "done"} : Moves(t, "listed", to)
    BY <1>2 DEF ReturnText
  <2>2. QED
    BY <1>2, <2>1 DEF ReturnText
<1>3. CASE BeginWorker(t) \/ EncodeRaises(t) \/ ReadPayload(t) \/ ReadRaises(t)
           \/ SelectAndSendFile(t)
  <2>1. pyPc' \in [Tx -> PyPcs]
    BY <1>3 DEF BeginWorker, EncodeRaises, ReadPayload, ReadRaises, SelectAndSendFile, CancelFile,
                FileUnreadable
  <2>2. /\ UNCHANGED <<outcome, heard, total, failed, history>>
        /\ progressQ' = <<>> \/ UNCHANGED progressQ
        /\ sasQ' = <<>> \/ UNCHANGED sasQ
    BY <1>3 DEF BeginWorker, EncodeRaises, ReadPayload, ReadRaises, SelectAndSendFile, CancelFile,
                FileUnreadable
  <2>3. progressQ' \in Seq(Events) /\ sasQ' \in Seq(Answers)
    <3>1. <<>> \in Seq(Events) /\ <<>> \in Seq(Answers)
      OBVIOUS
    <3>2. progressQ \in Seq(Events) /\ sasQ \in Seq(Answers)
      OBVIOUS
    <3> HIDE DEF BridgeTypeOK
    <3>3. QED
      BY <2>2, <3>1, <3>2
  <2>4. QED
    BY <2>1, <2>2, <2>3
<1>4. CASE Complete(t)
  <2>1. Event(t, Ending(t)) \in Events
    BY DEF Event, Events, Stages, Ending
  <2>2. progressQ' \in Seq(Events)
    BY <1>4, <2>1 DEF Complete, Reports
  <2>3. QED
    BY <1>4, <2>2 DEF Complete
<1>5. QED
  BY <1>1, <1>2, <1>3, <1>4, RunClientTypes, StatisticsTypes DEF BridgeWork, RunTransmission, Worker

\* clearInterval stops at most the timer that is stored (app.js).
LEMMA StopsTypes ==
    ASSUME poller \in BOOLEAN, timers \in Nat, TimersRun, StopsTimer
    PROVE  poller' \in BOOLEAN /\ timers' \in Nat /\ TimersRun'
<1>1. ~poller' /\ poller' \in BOOLEAN
  BY DEF StopsTimer
<1>2. timers' \in Nat
  <2>1. CASE poller
    <3>1. timers > 0 /\ timers' = timers - 1
      BY <2>1 DEF StopsTimer, TimersRun
    <3>2. QED
      BY <3>1
  <2>2. CASE ~poller
    BY <2>2 DEF StopsTimer
  <2>3. QED
    BY <2>1, <2>2
<1>3. QED
  BY <1>1, <1>2 DEF TimersRun

\* setInterval starts one more.
LEMMA SetsTypes ==
    ASSUME timers \in Nat, SetsTimer
    PROVE  poller' \in BOOLEAN /\ timers' \in Nat /\ TimersRun'
<1>1. poller' \in BOOLEAN
  BY DEF SetsTimer
<1>2. timers' \in Nat /\ timers' > 0
  BY DEF SetsTimer
<1>3. QED
  BY <1>1, <1>2 DEF TimersRun

\* What a step of the window leaves of the bridge.
LEMMA KeepsBridge ==
    ASSUME BridgeTypeOK, UNCHANGED bridge
    PROVE  BridgeTypeOK'
BY DEF BridgeTypeOK, bridge, Results, counts

\* The calls of the window into the bridge, and their returns.
LEMMA CallTypes ==
    ASSUME TypeOK, TimersRun, NEW t \in Tx, Start(t) \/ Resume(t)
    PROVE  TypeOK' /\ TimersRun'
<1> USE DEF TypeOK, timer, dialog
<1>1. CASE Start(t)
  <2>1. BridgeTypeOK'
    BY <1>1 DEF Start, Begins, BridgeTypeOK, Results, counts, PyPcs
  <2>2. poller' \in BOOLEAN /\ timers' \in Nat /\ TimersRun'
    <3>1. SetsTimer \/ UNCHANGED timer
      BY <1>1 DEF Start, Begins
    <3>2. QED
      BY <3>1, SetsTypes DEF TimersRun
  <2>3. QED
    BY <1>1, <2>1, <2>2 DEF Start, Begins
<1>2. CASE Resume(t)
  <2>1. UNCHANGED bridge /\ (SetsTimer \/ StopsTimer \/ UNCHANGED timer)
    BY <1>2 DEF Resume, StartPolling, FileCancelled, CallRaised, TextReturned
  <2>2. BridgeTypeOK'
    BY <2>1, KeepsBridge
  <2>3. poller' \in BOOLEAN /\ timers' \in Nat /\ TimersRun'
    BY <2>1, SetsTypes, StopsTypes DEF TimersRun
  <2>4. /\ UNCHANGED <<poll, got, modal, clicks, current>>
        /\ jsPc' \in [Tx -> {"idle", "awaiting", "over"}]
        /\ isTransmitting' \in {FALSE, isTransmitting}
        /\ status' \in {"Standby", "Transmitted", "Failed", status}
    BY <1>2 DEF Resume, Resumes, StartPolling, FileCancelled, CallRaised, TextReturned
  <2>5. QED
    BY <2>2, <2>3, <2>4
<1>3. QED
  BY <1>1, <1>2

\* A poll on its way, and the events it brings.
LEMMA PollTypes ==
    ASSUME TypeOK, TimersRun, NEW p \in Polls, Polling(p)
    PROVE  TypeOK' /\ TimersRun'
<1> USE DEF TypeOK, timer, dialog
<1>1. CASE Tick(p) \/ PollReturns(p)
  <2>1. /\ UNCHANGED <<bridge, jsPc, isTransmitting, poller, timers, got, modal, clicks, status, current>>
        /\ poll' \in [Polls -> {"free", "taking", "back"}]
    BY <1>1 DEF Tick, PollReturns
  <2>2. QED
    BY <2>1, KeepsBridge DEF TimersRun
<1>2. CASE TakeEvent(p)
  <2>1. progressQ \in Seq(Events) /\ progressQ # <<>>
    BY <1>2 DEF TakeEvent, BridgeTypeOK
  <2>2. Head(progressQ) \in Events /\ progressQ' \in Seq(Events)
    BY <1>2, <2>1 DEF TakeEvent
  <2>3. got' \in [Polls -> Seq(Events)]
    BY <1>2, <2>2 DEF TakeEvent
  <2>4. BridgeTypeOK'
    BY <1>2, <2>2 DEF TakeEvent, BridgeTypeOK, Results, counts
  <2>5. UNCHANGED <<jsPc, isTransmitting, poller, timers, poll, modal, clicks, status, current>>
    BY <1>2 DEF TakeEvent
  <2>6. QED
    BY <2>3, <2>4, <2>5 DEF TimersRun
<1>3. CASE HandleEvents(p)
  <2>1. \A e \in EventsOf(p) : e \in Events
    BY DEF EventsOf
  <2>2. Asked(p) \subseteq Tx
    BY <2>1 DEF Asked, Events
  <2>3. modal' \in Tx \cup {NoTx}
    <3>1. modal' = modal \/ modal' \in Asked(p)
      BY <1>3 DEF HandleEvents
    <3>2. QED
      BY <2>2, <3>1
  <2>4. StopsTimer \/ UNCHANGED timer
    BY <1>3 DEF HandleEvents
  <2>5. poller' \in BOOLEAN /\ timers' \in Nat /\ TimersRun'
    BY <2>4, StopsTypes DEF TimersRun
  <2>6. /\ UNCHANGED <<bridge, jsPc, clicks, current>>
        /\ poll' \in [Polls -> {"free", "taking", "back"}]
        /\ got' \in [Polls -> Seq(Events)]
    BY <1>3 DEF HandleEvents
  <2>7. /\ isTransmitting' \in BOOLEAN
        /\ status' \in {"Standby", "Transmitting", "Transmitted", "Failed"}
    <3>1. (isTransmitting' = FALSE /\ status' \in {"Transmitted", "Failed"})
              \/ UNCHANGED <<isTransmitting, status>>
      BY <1>3 DEF HandleEvents
    <3>2. QED
      BY <3>1
  <2>8. QED
    BY <2>3, <2>5, <2>6, <2>7, KeepsBridge
<1>4. QED
  BY <1>1, <1>2, <1>3 DEF Polling

\* The dialog and its click.
LEMMA DialogTypes ==
    ASSUME TypeOK, TimersRun,
           (\E approved \in BOOLEAN : ClickSas(approved)) \/ \E answer \in Answers : SubmitSas(answer)
    PROVE  TypeOK' /\ TimersRun'
<1> USE DEF TypeOK, timer
<1>1. ASSUME NEW approved \in BOOLEAN, ClickSas(approved) PROVE TypeOK' /\ TimersRun'
  <2>1. [tx |-> modal, approved |-> approved] \in Answers
    BY <1>1 DEF ClickSas, Answers
  <2>2. clicks' \subseteq Answers /\ modal' = NoTx /\ status' \in {status, "Failed"}
    BY <1>1, <2>1 DEF ClickSas, Clicked
  <2>3. UNCHANGED <<bridge, jsPc, isTransmitting, poller, timers, poll, got, current>>
    BY <1>1 DEF ClickSas, Clicked
  <2>4. QED
    BY <2>2, <2>3, KeepsBridge DEF TimersRun
<1>2. ASSUME NEW answer \in Answers, SubmitSas(answer) PROVE TypeOK' /\ TimersRun'
  <2>1. sasQ' \in Seq(Answers) /\ clicks' \subseteq Answers
    BY <1>2 DEF SubmitSas, BridgeTypeOK
  <2>2. UNCHANGED <<jsPc, isTransmitting, poller, timers, poll, got, modal, status, current>>
    BY <1>2 DEF SubmitSas
  <2>3. BridgeTypeOK'
    BY <1>2, <2>1 DEF SubmitSas, BridgeTypeOK, Results, counts
  <2>4. QED
    BY <2>1, <2>2, <2>3 DEF TimersRun
<1>3. QED
  BY <1>1, <1>2

\* Every reachable state of the window and the bridge has the types of the code's
\* state, for any number of transmissions and overlapping polls (main.py:17-31,
\* app.js:61-75).
THEOREM TypeCorrect == Spec => []TypeOK
<1>1. Init => TypeOK /\ TimersRun
  <2> SUFFICES ASSUME Init PROVE TypeOK /\ TimersRun
    OBVIOUS
  <2>1. BridgeTypeOK
    BY DEF Init, BridgeInit, BridgeTypeOK, PyPcs, PyRest
  <2>2. TimersRun
    BY DEF Init, TimersRun
  <2>3. jsPc \in [Tx -> {"idle", "awaiting", "over"}] /\ poll \in [Polls -> {"free", "taking", "back"}]
    BY DEF Init
  <2>4. got \in [Polls -> Seq(Events)]
    BY DEF Init
  <2>5. QED
    BY <2>1, <2>2, <2>3, <2>4 DEF Init, TypeOK
<1>2. TypeOK /\ TimersRun /\ [Next]_vars => TypeOK' /\ TimersRun'
  <2> SUFFICES ASSUME TypeOK, TimersRun, [Next]_vars PROVE TypeOK' /\ TimersRun'
    OBVIOUS
  <2>1. CASE UNCHANGED vars
    BY <2>1, KeepsBridge DEF vars, gui, TypeOK, TimersRun
  <2>2. ASSUME NEW t \in Tx, Thread(t) PROVE TypeOK' /\ TimersRun'
    BY <2>2, ThreadTypes DEF Thread, gui, TypeOK, TimersRun
  <2>3. QED
    BY <2>1, <2>2, CallTypes, PollTypes, DialogTypes DEF Next
<1>3. QED
  BY <1>1, <1>2, PTL DEF Spec

-------------------------------------------------------------------------------
(* Steps of the threads.                                                    *)

\* Nothing is on its way: no event, question or answer.
Quiet == progressQ = <<>> /\ NoneTaken /\ modal = NoTx /\ clicks = {} /\ sasQ = <<>>

\* A quiet window satisfies the parts that speak of questions and of events.
LEMMA QuietIsFine ==
    ASSUME Quiet
    PROVE  News /\ Single /\ Question
BY DEF Quiet, News, Single, Question, NoneTaken

\* Nothing is on its way to a window whose transmission neither asks nor is done.
LEMMA QuietUnlessTold ==
    ASSUME TypeOK, Window,
           current \in Tx => \/ ~isTransmitting
                             \/ pyPc[current] \notin {"asking", "done"}
                             \/ pyPc[current] = "done" /\ Kind[current] = "text"
    PROVE  Quiet
<1>1. \A e \in Events : ~IsNews(e)
  BY DEF IsNews, Events
<1>2. progressQ = <<>>
  <2>1. progressQ \in Seq(Events) /\ \A i \in 1..Len(progressQ) : IsNews(progressQ[i])
    BY DEF TypeOK, BridgeTypeOK, Window, News
  <2>2. QED
    BY <1>1, <2>1
<1>3. NoneTaken
  <2> SUFFICES ASSUME NEW p \in Polls PROVE got[p] = <<>>
    BY DEF NoneTaken
  <2>1. got[p] \in Seq(Events) /\ \A i \in 1..Len(got[p]) : IsNews(got[p][i])
    BY DEF TypeOK, Window, News
  <2>2. QED
    BY <1>1, <2>1
<1>4. ~Asking
  BY DEF Asking, Window, Busy, PyRest
<1>5. QED
  BY <1>2, <1>3, <1>4 DEF Quiet, Window, Question

\* What the thread of a transmission does.
LEMMA ThreadShape ==
    ASSUME BridgeTypeOK, NEW t \in Tx, BridgeWork(t)
    PROVE  /\ pyPc[t] \notin PyRest
           /\ \A u \in Tx \ {t} : UNCHANGED <<pyPc[u], outcome[u], heard[u]>>
           /\ pyPc'[t] \in Unended => pyPc[t] \in Unended /\ UNCHANGED outcome[t]
           /\ \/ /\ TakeAnswer(t)
              \/ /\ pyPc[t] # "asking"
                 /\ UNCHANGED heard[t]
                 /\ sasQ' = sasQ \/ sasQ' = <<>>
                 /\ \/ progressQ' = progressQ \/ progressQ' = <<>>
                    \/ progressQ' = Append(progressQ, Event(t, "ask")) /\ pyPc'[t] = "asking"
                    \/ /\ progressQ' = Append(progressQ, Event(t, Ending(t)))
                       /\ pyPc'[t] = "done" /\ UNCHANGED outcome[t] /\ Kind[t] # "text"
<1> USE DEF BridgeTypeOK, Moves, PyRest, Unended, counts, Results
<1>1. CASE BeginText(t) \/ BeginWorker(t) \/ CancelFile(t) \/ FileUnreadable(t) \/ ReadPayload(t)
           \/ ReadRaises(t) \/ EncodeRaises(t) \/ RunRaises(t)
  BY <1>1 DEF BeginText, BeginWorker, CancelFile, FileUnreadable, ReadPayload, ReadRaises,
              EncodeRaises, RunRaises
<1>2. CASE ReturnText(t)
  <2>1. \E to \in {"raising", "done"} : Moves(t, "listed", to)
    BY <1>2 DEF ReturnText
  <2>2. UNCHANGED <<outcome, heard, progressQ, sasQ>>
    BY <1>2 DEF ReturnText
  <2>3. QED
    BY <2>1, <2>2
<1>3. CASE Count(t) \/ ListSuccess(t) \/ ListFailure(t) \/ Raised(t)
  BY <1>3 DEF Count, ListSuccess, ListFailure, Raised
<1>4. CASE Complete(t)
  BY <1>4 DEF Complete, Reports
<1>5. CASE TakeAnswer(t)
  <2>1. Run!Approved(t) \/ Run!Rejected(t)
    BY <1>5 DEF TakeAnswer
  <2>2. QED
    BY <1>5, <2>1 DEF TakeAnswer, Run!Approved, Run!Rejected, Run!Moves
<1>6. CASE KnownReceiver(t) \/ AskSas(t)
  BY <1>6 DEF KnownReceiver, AskSas, Reports, Run!Known, Run!Ask, Run!Moves
<1>7. CASE RunEnds(t)
  BY <1>7 DEF RunEnds, Run!Succeed, Run!Fail, Run!Returns, Run!Moves
<1>8. QED
  BY <1>1, <1>2, <1>3, <1>4, <1>5, <1>6, <1>7
  DEF BridgeWork, RunTransmission, Worker, SelectAndSendFile, ClientCall, Statistics

\* A thread at work is that of the transmission under way.
LEMMA WindowThread ==
    ASSUME TypeOK, TypeOK', Window, NEW t \in Tx, Thread(t)
    PROVE  Window'
<1>1. BridgeWork(t) /\ UNCHANGED gui
  BY DEF Thread
<1>2. /\ pyPc[t] \notin PyRest
      /\ \A u \in Tx \ {t} : UNCHANGED <<pyPc[u], outcome[u], heard[u]>>
      /\ pyPc'[t] \in Unended => pyPc[t] \in Unended /\ UNCHANGED outcome[t]
  BY <1>1, ThreadShape DEF TypeOK
<1>3. t = current /\ isTransmitting
  BY <1>2 DEF Window, Busy
<1>4. UNCHANGED <<jsPc, isTransmitting, got, modal, clicks, status, current>>
  BY <1>1 DEF gui
<1>5. Unstarted' /\ Busy' /\ Awaited' /\ NoResult' /\ StatusIsTrue'
  <2>1. jsPc[t] # "idle"
    BY <1>2 DEF Window, Unstarted, PyRest
  <2>2. Unstarted'
    BY <1>2, <1>4, <2>1 DEF Window, Unstarted
  <2>3. Busy'
    BY <1>2, <1>3, <1>4 DEF Window, Busy
  <2>4. Awaited'
    BY <1>2, <1>3, <1>4 DEF Window, Awaited, Decides
  <2>5. NoResult'
    BY <1>2 DEF Window, NoResult
  <2>6. StatusIsTrue'
    BY <1>3, <1>4 DEF StatusIsTrue
  <2>7. QED
    BY <2>2, <2>3, <2>4, <2>5, <2>6
<1>6. CASE TakeAnswer(t)
  <2>1. /\ sasQ \in Seq(Answers) /\ sasQ # <<>> /\ sasQ' = Tail(sasQ)
        /\ heard' = [heard EXCEPT ![t] = Head(sasQ).tx]
        /\ UNCHANGED progressQ
    BY <1>6 DEF TakeAnswer, TypeOK, BridgeTypeOK
  <2>2. /\ Asking /\ Len(sasQ) = 1 /\ Head(sasQ).tx = current
        /\ modal = NoTx /\ clicks = {}
    BY <2>1 DEF Window, Question
  <2>3. sasQ' = <<>>
    BY <2>1, <2>2
  <2>4. Quiet'
    BY <1>4, <2>1, <2>2, <2>3 DEF Quiet, Asking, NoneTaken
  <2>5. AnswerIsOnes'
    BY <1>2, <1>3, <2>1, <2>2 DEF Window, AnswerIsOnes, TypeOK, BridgeTypeOK
  <2>6. (News /\ Single /\ Question)'
    BY <2>4 DEF Quiet, News, Single, Question, NoneTaken
  <2>7. QED
    BY <1>5, <2>5, <2>6 DEF Window
<1>7. CASE ~TakeAnswer(t)
  <2>1. /\ pyPc[t] # "asking"
        /\ UNCHANGED heard[t]
        /\ sasQ' = sasQ \/ sasQ' = <<>>
        /\ \/ progressQ' = progressQ \/ progressQ' = <<>>
           \/ progressQ' = Append(progressQ, Event(t, "ask")) /\ pyPc'[t] = "asking"
           \/ /\ progressQ' = Append(progressQ, Event(t, Ending(t)))
              /\ pyPc'[t] = "done" /\ UNCHANGED outcome[t] /\ Kind[t] # "text"
    BY <1>1, <1>7, ThreadShape DEF TypeOK
  <2>2. Quiet
    BY <1>2, <1>3, <2>1, QuietUnlessTold DEF PyRest
  <2>3. NoneTaken' /\ modal' = NoTx /\ clicks' = {} /\ sasQ' = <<>>
    BY <1>4, <2>1, <2>2 DEF Quiet, NoneTaken
  <2>4. progressQ' = <<>> \/ \E e \in {Event(t, "ask"), Event(t, Ending(t))} :
                                 progressQ' = <<e>> /\ IsNews(e)'
    <3>1. CASE progressQ' = progressQ \/ progressQ' = <<>>
      BY <2>2, <3>1 DEF Quiet
    <3>2. CASE progressQ' = Append(progressQ, Event(t, "ask")) /\ pyPc'[t] = "asking"
      <4>1. progressQ' = <<Event(t, "ask")>>
        BY <2>2, <3>2 DEF Quiet
      <4>2. IsNews(Event(t, "ask"))'
        BY <1>3, <1>4, <3>2 DEF IsNews, Event
      <4>3. QED
        BY <4>1, <4>2
    <3>3. CASE /\ progressQ' = Append(progressQ, Event(t, Ending(t)))
               /\ pyPc'[t] = "done" /\ UNCHANGED outcome[t] /\ Kind[t] # "text"
      <4>1. progressQ' = <<Event(t, Ending(t))>>
        BY <2>2, <3>3 DEF Quiet
      <4>2. IsNews(Event(t, Ending(t)))'
        BY <1>3, <1>4, <3>3 DEF IsNews, Event, Ending
      <4>3. Ending(t)' = Ending(t)
        BY <3>3 DEF Ending
      <4>4. QED
        BY <4>1, <4>2, <4>3 DEF Event
    <3>4. QED
      BY <2>1, <3>1, <3>2, <3>3
  <2>5. (News /\ Single /\ Question)'
    BY <2>3, <2>4 DEF News, Single, Question, NoneTaken
  <2>6. AnswerIsOnes'
    BY <1>2, <2>1 DEF Window, AnswerIsOnes
  <2>7. QED
    BY <1>5, <2>5, <2>6 DEF Window
<1>8. QED
  BY <1>6, <1>7

-------------------------------------------------------------------------------
(* Steps of the window.                                                     *)

LEMMA WindowStart ==
    ASSUME TypeOK, TypeOK', Window, NEW t \in Tx, Start(t)
    PROVE  Window'
<1>1. /\ ~isTransmitting /\ isTransmitting'
      /\ jsPc[t] = "idle" /\ jsPc' = [jsPc EXCEPT ![t] = "awaiting"]
      /\ pyPc' = [pyPc EXCEPT ![t] = "called"]
      /\ current' = t
      /\ UNCHANGED <<outcome, heard, progressQ, sasQ, got, modal, clicks>>
  BY DEF Start, Begins, Results, dialog
<1>2. Quiet
  BY <1>1, QuietUnlessTold
<1>3. (News /\ Single /\ Question)'
  BY <1>1, <1>2 DEF Quiet, News, Single, Question, NoneTaken
<1>4. Unstarted' /\ Busy' /\ Awaited'
  BY <1>1 DEF Window, Unstarted, Busy, Awaited, Decides, TypeOK, BridgeTypeOK
<1>5. NoResult'
  <2>1. outcome[t] = "none"
    BY <1>1 DEF Window, Unstarted, NoResult, Unended
  <2>2. QED
    BY <1>1, <2>1 DEF Window, NoResult, TypeOK, BridgeTypeOK
<1>6. AnswerIsOnes' /\ StatusIsTrue'
  BY <1>1 DEF Window, AnswerIsOnes, StatusIsTrue
<1>7. QED
  BY <1>3, <1>4, <1>5, <1>6 DEF Window

\* A call that returns to the window leaves nothing of its transmission behind.
LEMMA WindowResume ==
    ASSUME TypeOK, TypeOK', Window, NEW t \in Tx, Resume(t)
    PROVE  Window'
<1>1. /\ jsPc[t] = "awaiting" /\ jsPc' = [jsPc EXCEPT ![t] = "over"]
      /\ UNCHANGED <<pyPc, outcome, heard, progressQ, sasQ, got, modal, clicks, current>>
  BY DEF Resume, StartPolling, FileCancelled, CallRaised, TextReturned, Resumes, bridge, Results,
         dialog
<1>2. Unstarted' /\ NoResult' /\ AnswerIsOnes'
  BY <1>1 DEF Window, Unstarted, NoResult, AnswerIsOnes, TypeOK
<1>3. CASE StartPolling(t)
  <2>1. UNCHANGED <<isTransmitting, status>>
    BY <1>3 DEF StartPolling
  <2>2. Busy' /\ Awaited' /\ StatusIsTrue'
    BY <1>1, <2>1 DEF Window, Busy, Awaited, Decides, StatusIsTrue, TypeOK
  <2>3. (News /\ Single /\ Question)'
    BY <1>1, <2>1
    DEF Window, News, Single, Question, NoneTaken, Asking, IsNews, Ending
  <2>4. QED
    BY <1>2, <2>2, <2>3 DEF Window
<1>4. CASE FileCancelled(t)
  <2>1. UNCHANGED isTransmitting /\ pyPc[t] = "cancelled"
    BY <1>4 DEF FileCancelled
  <2>2. isTransmitting
    BY <1>1, <2>1 DEF Window, Awaited, Decides
  <2>3. Busy' /\ Awaited' /\ StatusIsTrue'
    BY <1>1, <2>1, <2>2 DEF Window, Busy, Awaited, Decides, StatusIsTrue, TypeOK
  <2>4. (News /\ Single /\ Question)'
    BY <1>1, <2>1
    DEF Window, News, Single, Question, NoneTaken, Asking, IsNews, Ending
  <2>5. QED
    BY <1>2, <2>3, <2>4 DEF Window
<1>5. CASE CallRaised(t) \/ TextReturned(t)
  <2>1. /\ ~isTransmitting'
        /\ pyPc[t] = "raised" \/ (pyPc[t] = "done" /\ Kind[t] = "text")
        /\ status' = "Transmitted" <=> (pyPc[t] = "done" /\ outcome[t] = "success")
    BY <1>5 DEF CallRaised, TextReturned
  <2>2. t = current
    BY <1>1, <2>1 DEF Window, Awaited, Decides
  <2>3. Quiet
    BY <2>1, <2>2, QuietUnlessTold
  <2>4. (News /\ Single /\ Question)'
    BY <1>1, <2>3 DEF Quiet, News, Single, Question, NoneTaken
  <2>5. Busy' /\ Awaited'
    BY <1>1, <2>1, <2>2 DEF Window, Busy, Awaited, Decides, TypeOK, PyRest
  <2>6. StatusIsTrue'
    BY <1>1, <2>1, <2>2 DEF Window, StatusIsTrue, NoResult, Unended
  <2>7. QED
    BY <1>2, <2>4, <2>5, <2>6 DEF Window
<1>6. QED
  BY <1>3, <1>4, <1>5 DEF Resume

\* An event is either in the queue or with the poll that took it.
LEMMA WindowTakeEvent ==
    ASSUME TypeOK, TypeOK', Window, NEW p \in Polls, TakeEvent(p)
    PROVE  Window'
<1>1. /\ progressQ # <<>> /\ progressQ \in Seq(Events)
      /\ progressQ' = Tail(progressQ)
      /\ got' = [got EXCEPT ![p] = Append(@, Head(progressQ))]
      /\ UNCHANGED <<pyPc, outcome, heard, sasQ, jsPc, isTransmitting, modal, clicks, status, current>>
  BY DEF TakeEvent, Results, dialog, TypeOK, BridgeTypeOK
<1>2. Len(progressQ) = 1 /\ NoneTaken /\ IsNews(Head(progressQ))
  <2>1. Len(progressQ) = 1 /\ NoneTaken
    BY <1>1 DEF Window, Single
  <2>2. IsNews(progressQ[1])
    BY <2>1 DEF Window, News
  <2>3. Head(progressQ) = progressQ[1]
    BY <1>1
  <2>4. QED
    BY <2>1, <2>2, <2>3
<1>3. /\ progressQ' = <<>>
      /\ got'[p] = <<Head(progressQ)>>
      /\ \A q \in Polls \ {p} : got'[q] = <<>>
  <2>1. progressQ' = <<>>
    BY <1>1, <1>2
  <2>2. got'[p] = Append(got[p], Head(progressQ)) /\ got[p] = <<>>
    BY <1>1, <1>2 DEF NoneTaken, TypeOK
  <2>3. got'[p] = <<Head(progressQ)>>
    BY <2>2
  <2>4. \A q \in Polls \ {p} : got'[q] = <<>>
    BY <1>1, <1>2 DEF NoneTaken, TypeOK
  <2>5. QED
    BY <2>1, <2>3, <2>4
<1>4. News' /\ Single'
  <2>1. IsNews(got[p][1])'
    <3>1. got'[p][1] = Head(progressQ)
      BY <1>3
    <3>2. QED
      BY <1>1, <1>2, <3>1 DEF IsNews, Ending
  <2>2. News'
    BY <1>3, <2>1 DEF News
  <2>3. Single'
    BY <1>3 DEF Single
  <2>4. QED
    BY <2>2, <2>3
<1>5. Question'
  BY <1>1 DEF Window, Question, Asking
<1>6. Unstarted' /\ Busy' /\ Awaited' /\ NoResult' /\ AnswerIsOnes' /\ StatusIsTrue'
  BY <1>1 DEF Window, Unstarted, Busy, Awaited, Decides, NoResult, AnswerIsOnes, StatusIsTrue
<1>7. QED
  BY <1>4, <1>5, <1>6 DEF Window

\* A poll that is handled opens a dialog or gives the window back.
LEMMA WindowHandleEvents ==
    ASSUME TypeOK, TypeOK', Window, NEW p \in Polls, HandleEvents(p)
    PROVE  Window'
<1>1. /\ got' = [got EXCEPT ![p] = <<>>]
      /\ modal' \in IF Asked(p) = {} THEN {modal} ELSE Asked(p)
      /\ \/ Completed(p) = {} /\ UNCHANGED <<isTransmitting, status>>
         \/ \E e \in Completed(p) :
              /\ ~isTransmitting'
              /\ status' = IF e.stage = "completeOk" THEN "Transmitted" ELSE "Failed"
      /\ UNCHANGED <<pyPc, outcome, heard, progressQ, sasQ, jsPc, clicks, current>>
  BY DEF HandleEvents, bridge, Results
<1>2. Unstarted' /\ NoResult' /\ AnswerIsOnes'
  BY <1>1 DEF Window, Unstarted, NoResult, AnswerIsOnes
<1>3. CASE got[p] = <<>>
  <2>1. EventsOf(p) = {}
    BY <1>3 DEF EventsOf
  <2>2. Asked(p) = {} /\ Completed(p) = {}
    BY <2>1 DEF Asked, Completed
  <2>3. UNCHANGED <<got, modal, isTransmitting, status>>
    BY <1>1, <1>3, <2>2 DEF TypeOK
  <2>4. (News /\ Single /\ Question)'
    BY <1>1, <2>3
    DEF Window, News, Single, Question, NoneTaken, Asking, IsNews, Ending
  <2>5. Busy' /\ Awaited' /\ StatusIsTrue'
    BY <1>1, <2>3 DEF Window, Busy, Awaited, Decides, StatusIsTrue
  <2>6. QED
    BY <1>2, <2>4, <2>5 DEF Window
<1>4. CASE got[p] # <<>>
  <2>1. got[p] \in Seq(Events) /\ 1 \in 1..Len(got[p])
    BY <1>4 DEF TypeOK
  <2>2. \A e \in EventsOf(p) : IsNews(e) /\ e \in Events
    BY <2>1 DEF EventsOf, Window, News
  <2>3. got[p][1] \in EventsOf(p)
    BY <2>1 DEF EventsOf
  <2>4. current \in Tx /\ isTransmitting
    BY <2>2, <2>3 DEF IsNews, Events
  <2>5. /\ progressQ = <<>> /\ (\A q \in Polls \ {p} : got[q] = <<>>)
        /\ modal = NoTx /\ clicks = {} /\ sasQ = <<>>
    BY <1>4 DEF Window, Single, Question, Asking, NoneTaken
  <2>6. progressQ' = <<>> /\ NoneTaken' /\ clicks' = {} /\ sasQ' = <<>>
    BY <1>1, <2>5 DEF NoneTaken, TypeOK
  <2>7. News' /\ Single'
    BY <2>6 DEF News, Single, NoneTaken
  <2>8. CASE pyPc[current] = "asking"
    <3>1. \A e \in EventsOf(p) : e.stage = "ask" /\ e.tx = current
      BY <2>2, <2>8 DEF IsNews
    <3>2. Completed(p) = {} /\ Asked(p) = {current}
      BY <2>3, <3>1 DEF Completed, Asked
    <3>3. modal' = current /\ UNCHANGED <<isTransmitting, status>>
      BY <1>1, <3>2
    <3>4. Question'
      BY <1>1, <2>4, <2>6, <2>8, <3>3 DEF Question, Asking
    <3>5. Busy' /\ Awaited' /\ StatusIsTrue'
      BY <1>1, <3>3 DEF Window, Busy, Awaited, Decides, StatusIsTrue
    <3>6. QED
      BY <1>2, <2>7, <3>4, <3>5 DEF Window
  <2>9. CASE pyPc[current] # "asking"
    <3>1. pyPc[current] = "done" /\ Kind[current] # "text"
      BY <2>2, <2>3, <2>9 DEF IsNews
    <3>2. \A e \in EventsOf(p) : e.stage = Ending(current)
      BY <2>2, <2>9 DEF IsNews
    <3>3. Asked(p) = {} /\ got[p][1] \in Completed(p)
      BY <2>3, <3>2 DEF Asked, Completed, Ending
    <3>4. modal' = NoTx
      BY <1>1, <2>5, <3>3
    <3>5. Question'
      BY <2>6, <3>4 DEF Question
    <3>6. /\ ~isTransmitting'
          /\ status' = "Transmitted" <=> outcome[current] = "success"
      <4>1. PICK e \in Completed(p) :
                /\ ~isTransmitting'
                /\ status' = IF e.stage = "completeOk" THEN "Transmitted" ELSE "Failed"
        BY <1>1, <3>3
      <4>2. e.stage = Ending(current)
        BY <3>2 DEF Completed
      <4>3. QED
        BY <4>1, <4>2 DEF Ending
    <3>7. Busy' /\ Awaited'
      BY <1>1, <3>1 DEF Window, Busy, Awaited, Decides, PyRest
    <3>8. StatusIsTrue'
      BY <1>1, <3>6 DEF StatusIsTrue
    <3>9. QED
      BY <1>2, <2>7, <3>5, <3>7, <3>8 DEF Window
  <2>10. QED
    BY <2>8, <2>9
<1>5. QED
  BY <1>3, <1>4

\* A click takes the question out of the dialog.
LEMMA WindowClick ==
    ASSUME TypeOK, TypeOK', Window, NEW approved \in BOOLEAN, ClickSas(approved)
    PROVE  Window'
<1>1. /\ modal # NoTx /\ modal' = NoTx
      /\ clicks' = clicks \cup {[tx |-> modal, approved |-> approved]}
      /\ UNCHANGED <<pyPc, outcome, heard, progressQ, sasQ, jsPc, got, isTransmitting, current>>
  BY DEF ClickSas, Clicked, bridge, Results
<1>2. modal = current /\ Asking /\ clicks = {} /\ sasQ = <<>>
  BY <1>1 DEF Window, Question
<1>3. isTransmitting
  BY <1>2 DEF Window, Busy, Asking, PyRest
<1>4. Question'
  <2>1. clicks' = {[tx |-> current, approved |-> approved]}
    BY <1>1, <1>2
  <2>2. \A a, b \in clicks' : a = b /\ a.tx = current
    BY <2>1
  <2>3. Asking'
    BY <1>1, <1>2 DEF Asking, NoneTaken
  <2>4. QED
    BY <1>1, <1>2, <2>2, <2>3 DEF Question
<1>5. News' /\ Single'
  BY <1>1 DEF Window, News, Single, NoneTaken, IsNews, Ending
<1>6. Unstarted' /\ Busy' /\ Awaited' /\ NoResult' /\ AnswerIsOnes' /\ StatusIsTrue'
  BY <1>1, <1>3
  DEF Window, Unstarted, Busy, Awaited, Decides, NoResult, AnswerIsOnes, StatusIsTrue
<1>7. QED
  BY <1>4, <1>5, <1>6 DEF Window

\* And brings its answer into the queue.
LEMMA WindowSubmit ==
    ASSUME TypeOK, TypeOK', Window, NEW answer \in Answers, SubmitSas(answer)
    PROVE  Window'
<1>1. /\ answer \in clicks /\ clicks' = clicks \ {answer}
      /\ sasQ' = Append(sasQ, answer)
      /\ UNCHANGED <<pyPc, outcome, heard, progressQ, jsPc, got, modal, isTransmitting, status, current>>
  BY DEF SubmitSas, Results
<1>2. Asking /\ sasQ = <<>> /\ answer.tx = current /\ modal = NoTx
  BY <1>1 DEF Window, Question
<1>3. clicks' = {} /\ sasQ' = <<answer>>
  BY <1>1, <1>2 DEF Window, Question
<1>4. Question'
  <2>1. Asking'
    BY <1>1, <1>2 DEF Asking, NoneTaken
  <2>2. QED
    BY <1>1, <1>2, <1>3, <2>1 DEF Question
<1>5. News' /\ Single'
  BY <1>1 DEF Window, News, Single, NoneTaken, IsNews, Ending
<1>6. Unstarted' /\ Busy' /\ Awaited' /\ NoResult' /\ AnswerIsOnes' /\ StatusIsTrue'
  BY <1>1 DEF Window, Unstarted, Busy, Awaited, Decides, NoResult, AnswerIsOnes, StatusIsTrue
<1>7. QED
  BY <1>4, <1>5, <1>6 DEF Window

\* A step that changes nothing the invariant speaks of.
LEMMA WindowAside ==
    ASSUME Window, UNCHANGED <<bridge, jsPc, isTransmitting, got, modal, clicks, status, current>>
    PROVE  Window'
<1>1. (News /\ Single /\ Question)'
  BY DEF Window, News, Single, Question, NoneTaken, Asking, IsNews, Ending, bridge, Results
<1>2. Unstarted' /\ Busy' /\ Awaited' /\ NoResult' /\ AnswerIsOnes' /\ StatusIsTrue'
  BY DEF Window, Unstarted, Busy, Awaited, Decides, NoResult, AnswerIsOnes, StatusIsTrue, bridge,
         Results
<1>3. QED
  BY <1>1, <1>2 DEF Window

\* The inductive invariant of the window, for all behaviours.
LEMMA WindowHolds == Spec => []Window
<1>1. Init => Window
  <2> SUFFICES ASSUME Init PROVE Window
    OBVIOUS
  <2>1. Quiet
    BY DEF Init, BridgeInit, Quiet, NoneTaken
  <2>2. Unstarted /\ Busy /\ Awaited /\ NoResult /\ AnswerIsOnes /\ StatusIsTrue
    BY DEF Init, BridgeInit, Unstarted, Busy, Awaited, NoResult, AnswerIsOnes, StatusIsTrue, PyRest
  <2>3. QED
    BY <2>1, <2>2, QuietIsFine DEF Window
<1>2. TypeOK /\ TypeOK' /\ Window /\ [Next]_vars => Window'
  <2> SUFFICES ASSUME TypeOK, TypeOK', Window, [Next]_vars PROVE Window'
    OBVIOUS
  <2>1. CASE UNCHANGED vars
    BY <2>1, WindowAside DEF vars, gui
  <2>2. ASSUME NEW p \in Polls, Tick(p) \/ PollReturns(p) PROVE Window'
    BY <2>2, WindowAside DEF Tick, PollReturns, dialog
  <2>3. QED
    BY <2>1, <2>2, WindowThread, WindowStart, WindowResume, WindowTakeEvent, WindowHandleEvents,
       WindowClick, WindowSubmit
    DEF Next, Polling
<1>3. QED
  BY <1>1, <1>2, TypeCorrect, PTL DEF Spec

\* The window has one transmission under way: no second thread is at work, and none
\* when the buttons are free, however polls overlap and in whatever order the end is
\* announced (app.js:61, 136, 184, 189, 332).
THEOREM OneTransmissionAtATime == Spec => []OneAtATime
<1>1. Window => OneAtATime
  BY DEF Window, Busy, OneAtATime
<1>2. QED
  BY <1>1, WindowHolds, PTL

\* A question is answered by the click on its own words (main.py:51-58, 168-175,
\* 278-285).
THEOREM AnswersMeetTheirQuestions == Spec => []AnswerIsOnes
<1>1. Window => AnswerIsOnes
  BY DEF Window
<1>2. QED
  BY <1>1, WindowHolds, PTL

\* The dialog shows the words of the run that waits, which has no answer yet
\* (app.js:279-312, main.py:54-59).
THEOREM DialogsAreLive == Spec => []DialogIsLive
<1>1. Window => DialogIsLive
  BY DEF Window, Question, Asking, DialogIsLive
<1>2. QED
  BY <1>1, WindowHolds, PTL

\* When the buttons are free the status line says what became of the transmission
\* started last (app.js:157-189, 314-335).
THEOREM StatusLineIsTrue == Spec => []StatusIsTrue
<1>1. Window => StatusIsTrue
  BY DEF Window
<1>2. QED
  BY <1>1, WindowHolds, PTL

-------------------------------------------------------------------------------
(* The statistics.                                                          *)

\* What is counted and listed lags behind the results by the thread at work.
Failures == {e \in Listed : e.status # "Success"}
Counted == {t \in Ended : pyPc[t] # "returned"}
Entered == {t \in Ended : pyPc[t] \notin {"returned", "counted"}}
Sums ==
    /\ IsFiniteSet(Ended) /\ total = Cardinality(Counted)
    /\ IsFiniteSet(Failures) /\ failed = Cardinality(Failures)
    /\ {e.tx : e \in Listed} = Entered

\* A transmission in the statistics has a result; an exception comes before it is
\* counted, or after its success was listed.
Ends == \A t \in Tx :
    /\ pyPc[t] \in {"returned", "counted"} => outcome[t] \in {"success", "failed"}
    /\ pyPc[t] = "raising" => outcome[t] \in {"none", "success"}

\* The id of a line is the count of its moment: the line under way will have one of
\* its own, and a success that may still raise has the last.
Ids ==
    /\ \A e \in Listed : e.id <= total
    /\ \A t \in Tx : pyPc[t] = "counted" => \A e \in Listed : e.id < total
    /\ \A t \in Tx : pyPc[t] \in {"listed", "raising"} /\ outcome[t] = "success" =>
         \A e \in Listed :
             /\ e.id = total <=> e.tx = t
             /\ e.tx = t => e.status = "Success"

\* The inductive invariant of the statistics.
Books ==
    /\ Sums /\ Ends /\ Ids
    /\ \A i, j \in 1..Len(history) : i # j => Apart(history[i], history[j])

\* Lines nobody writes stay apart.
LEMMA HistoryKept ==
    ASSUME Books, UNCHANGED history
    PROVE  \A i, j \in 1..Len(history') : i # j => Apart(history'[i], history'[j])
BY DEF Books

\* The statistics do not depend on the rest.
LEMMA BooksAside ==
    ASSUME Books, UNCHANGED <<pyPc, outcome, total, failed, history>>
    PROVE  Books'
<1>1. Listed' = Listed /\ Ended' = Ended
  BY DEF Listed, Ended
<1>2. Failures' = Failures /\ Counted' = Counted /\ Entered' = Entered
  BY <1>1 DEF Failures, Counted, Entered, Ended
<1>3. Sums' /\ Ends' /\ Ids'
  BY <1>1, <1>2 DEF Books, Sums, Ends, Ids
<1>4. QED
  BY <1>3, HistoryKept DEF Books

\* A step of the thread, or its start, that neither ends runClient nor counts.
LEMMA BooksMove ==
    ASSUME TypeOK, Books, NEW t \in Tx, NEW to,
           pyPc' = [pyPc EXCEPT ![t] = to],
           {pyPc[t], to} \cap {"returned", "counted"} = {},
           to = "raising" => outcome[t] = "none" \/ (pyPc[t] = "listed" /\ outcome[t] = "success"),
           to = "listed" => outcome[t] # "success",
           UNCHANGED <<outcome, total, failed, history>>
    PROVE  Books'
<1>1. pyPc'[t] = to /\ \A u \in Tx \ {t} : pyPc'[u] = pyPc[u]
  BY DEF TypeOK, BridgeTypeOK
<1>2. Listed' = Listed /\ Ended' = Ended
  BY DEF Listed, Ended
<1>3. Failures' = Failures /\ Counted' = Counted /\ Entered' = Entered
  BY <1>1, <1>2 DEF Failures, Counted, Entered, Ended
<1>4. Sums'
  BY <1>2, <1>3 DEF Books, Sums
<1>5. Ends'
  BY <1>1 DEF Books, Ends
<1>6. Ids'
  <2>1. \A u \in Tx :
           /\ pyPc'[u] = "counted" => pyPc[u] = "counted"
           /\ pyPc'[u] \in {"listed", "raising"} /\ outcome[u] = "success" =>
                pyPc[u] \in {"listed", "raising"}
    BY <1>1
  <2>2. QED
    BY <1>2, <2>1 DEF Books, Ids
<1>7. QED
  BY <1>4, <1>5, <1>6, HistoryKept DEF Books

\* runClient returns.
LEMMA BooksEnd ==
    ASSUME TypeOK, Books, NEW t \in Tx, NEW r \in {"success", "failed"},
           pyPc' = [pyPc EXCEPT ![t] = "returned"], outcome[t] = "none",
           outcome' = [outcome EXCEPT ![t] = r],
           UNCHANGED <<total, failed, history>>
    PROVE  Books'
<1>1. /\ pyPc'[t] = "returned" /\ outcome'[t] = r
      /\ \A u \in Tx \ {t} : pyPc'[u] = pyPc[u] /\ outcome'[u] = outcome[u]
  BY DEF TypeOK, BridgeTypeOK
<1>2. Listed' = Listed /\ Ended' = Ended \cup {t} /\ t \notin Ended
  BY <1>1 DEF Listed, Ended
<1>3. Failures' = Failures /\ Counted' = Counted /\ Entered' = Entered
  BY <1>1, <1>2 DEF Failures, Counted, Entered, Ended
<1>4. IsFiniteSet(Ended')
  BY <1>2, FS_AddElement DEF Books, Sums
<1>5. Sums'
  BY <1>2, <1>3, <1>4 DEF Books, Sums
<1>6. Ends'
  BY <1>1 DEF Books, Ends
<1>7. Ids'
  <2>1. \A u \in Tx : /\ pyPc'[u] = "counted" => pyPc[u] = "counted"
                      /\ pyPc'[u] \in {"listed", "raising"} => UNCHANGED <<pyPc[u], outcome[u]>>
    BY <1>1
  <2>2. QED
    BY <1>2, <2>1 DEF Books, Ids
<1>8. QED
  BY <1>5, <1>6, <1>7, HistoryKept DEF Books

\* The transmission is counted.  Nothing else is under way.
LEMMA BooksCount ==
    ASSUME TypeOK, Books, NEW t \in Tx, Count(t),
           \A u \in Tx \ {t} : pyPc[u] \in PyRest
    PROVE  Books'
<1>1. /\ pyPc[t] = "returned" /\ pyPc'[t] = "counted"
      /\ \A u \in Tx \ {t} : pyPc'[u] = pyPc[u]
      /\ total' = total + 1
      /\ UNCHANGED <<outcome, failed, history>>
  BY DEF Count, Moves, TypeOK, BridgeTypeOK
<1>2. Listed' = Listed /\ Ended' = Ended /\ t \in Ended
  BY <1>1 DEF Listed, Ended, Books, Ends
<1>3. Failures' = Failures /\ Entered' = Entered
  BY <1>1, <1>2 DEF Failures, Entered, Ended
<1>4. Counted' = Counted \cup {t} /\ t \notin Counted /\ Counted \subseteq Ended
  BY <1>1, <1>2 DEF Counted, Ended
<1>5. total' = Cardinality(Counted')
  <2>1. IsFiniteSet(Counted)
    BY <1>4, FS_Subset DEF Books, Sums
  <2>2. QED
    BY <1>1, <1>4, <2>1, FS_AddElement DEF Books, Sums
<1>6. Sums'
  BY <1>1, <1>2, <1>3, <1>5 DEF Books, Sums
<1>7. Ends'
  BY <1>1 DEF Books, Ends
<1>8. Ids'
  <2>1. \A e \in Listed : e.id <= total /\ e.id \in Nat
    <3>1. \A e \in Listed : e \in Entries
      BY DEF Listed, TypeOK, BridgeTypeOK
    <3>2. QED
      BY <3>1 DEF Books, Ids, Entries
  <2>2. \A e \in Listed : e.id < total' /\ e.id <= total'
    BY <1>1, <2>1 DEF TypeOK, BridgeTypeOK
  <2>3. \A u \in Tx : pyPc'[u] \notin {"listed", "raising"}
    BY <1>1 DEF PyRest
  <2>4. QED
    BY <1>2, <2>2, <2>3 DEF Ids
<1>9. QED
  BY <1>1, <1>6, <1>7, <1>8, HistoryKept DEF Books

\* What a new line does to the history.
LEMMA NewLine ==
    ASSUME TypeOK, Books, NEW e \in Entries, history' = <<e>> \o history,
           \A f \in Listed : Apart(e, f)
    PROVE  /\ Listed' = Listed \cup {e} /\ e \notin Listed
           /\ \A i, j \in 1..Len(history') : i # j => Apart(history'[i], history'[j])
<1>1. history \in Seq(Entries)
  BY DEF TypeOK, BridgeTypeOK
<1>2. /\ Len(history') = Len(history) + 1
      /\ history'[1] = e
      /\ \A i \in 1..Len(history) : history'[i + 1] = history[i]
  BY <1>1
<1>3. \A i \in 1..Len(history') : i = 1 \/ (i - 1 \in 1..Len(history) /\ history'[i] = history[i - 1])
  BY <1>1, <1>2
<1>4. Listed' = Listed \cup {e}
  <2>1. Listed' \subseteq Listed \cup {e}
    BY <1>2, <1>3 DEF Listed
  <2>2. Listed \subseteq Listed'
    <3>1. \A i \in 1..Len(history) : i + 1 \in 1..Len(history')
      BY <1>1, <1>2
    <3>2. QED
      BY <1>2, <3>1 DEF Listed
  <2>3. e \in Listed'
    <3>1. 1 \in 1..Len(history')
      BY <1>1, <1>2
    <3>2. QED
      BY <1>2, <3>1 DEF Listed
  <2>4. QED
    BY <2>1, <2>2, <2>3
<1>5. e \notin Listed
  <2>1. Apart(e, e) => "Success" \in {e.status} /\ "Error" \in {e.status}
    BY DEF Apart
  <2>2. QED
    BY <2>1
<1>6. ASSUME NEW i \in 1..Len(history'), NEW j \in 1..Len(history'), i # j
      PROVE  Apart(history'[i], history'[j])
  <2>1. CASE i = 1
    BY <1>2, <1>3, <1>6, <2>1 DEF Listed
  <2>2. CASE j = 1
    <3>1. history'[i] \in Listed /\ history'[j] = e
      BY <1>2, <1>3, <1>6, <2>2 DEF Listed
    <3>2. QED
      BY <3>1 DEF Apart
  <2>3. CASE i # 1 /\ j # 1
    <3>1. i - 1 # j - 1 /\ i - 1 \in 1..Len(history) /\ j - 1 \in 1..Len(history)
      BY <1>1, <1>2, <1>3, <1>6, <2>3
    <3>2. QED
      BY <1>3, <2>3, <3>1 DEF Books
  <2>4. QED
    BY <2>1, <2>2, <2>3
<1>7. QED
  BY <1>4, <1>5, <1>6

\* The transmission is listed: its line, the failures and the sets follow.
LEMMA Lists ==
    ASSUME TypeOK, Books, NEW t \in Tx, NEW id \in Nat, NEW r \in {"Success", "Failed", "Error"},
           history' = Entry(t, id, r) \o history,
           \A f \in Listed : Apart([id |-> id, tx |-> t, status |-> r], f),
           failed' = IF r = "Success" THEN failed ELSE failed + 1
    PROVE  /\ Listed' = Listed \cup {[id |-> id, tx |-> t, status |-> r]}
           /\ {e.tx : e \in Listed'} = Entered \cup {t}
           /\ IsFiniteSet(Failures') /\ failed' = Cardinality(Failures')
           /\ \A i, j \in 1..Len(history') : i # j => Apart(history'[i], history'[j])
<1> DEFINE line == [id |-> id, tx |-> t, status |-> r]
<1>1. line \in Entries /\ line.tx = t /\ line.status = r
  BY DEF Entries
<1>2. history' = <<line>> \o history
  BY DEF Entry
<1> HIDE DEF line
<1>3. \A f \in Listed : Apart(line, f)
  BY DEF line
<1>4. /\ Listed' = Listed \cup {line} /\ line \notin Listed
      /\ \A i, j \in 1..Len(history') : i # j => Apart(history'[i], history'[j])
  BY <1>1, <1>2, <1>3, NewLine
<1>5. {e.tx : e \in Listed'} = Entered \cup {t}
  BY <1>1, <1>4 DEF Books, Sums
<1>6. IsFiniteSet(Failures') /\ failed' = Cardinality(Failures')
  <2>1. CASE r = "Success"
    <3>1. Failures' = Failures
      BY <1>1, <1>4, <2>1 DEF Failures
    <3>2. QED
      BY <2>1, <3>1 DEF Books, Sums
  <2>2. CASE r # "Success"
    <3>1. Failures' = Failures \cup {line} /\ line \notin Failures
      BY <1>1, <1>4, <2>2 DEF Failures
    <3>2. QED
      BY <2>2, <3>1, FS_AddElement DEF Books, Sums
  <2>3. QED
    BY <2>1, <2>2
<1>7. QED
  BY <1>4, <1>5, <1>6 DEF line

\* A counted transmission is listed under the count, which no line has.
LEMMA BooksList ==
    ASSUME TypeOK, Books, NEW t \in Tx, ListSuccess(t) \/ ListFailure(t),
           \A u \in Tx \ {t} : pyPc[u] \in PyRest
    PROVE  Books'
<1>1. /\ pyPc[t] = "counted" /\ pyPc'[t] = "listed"
      /\ \A u \in Tx \ {t} : pyPc'[u] = pyPc[u] /\ pyPc[u] \in PyRest
      /\ UNCHANGED <<outcome, total>>
      /\ total \in Nat
  BY DEF ListSuccess, ListFailure, Moves, TypeOK, BridgeTypeOK
<1>2. PICK r \in {"Success", "Failed"} :
         /\ history' = Entry(t, total, r) \o history
         /\ failed' = IF r = "Success" THEN failed ELSE failed + 1
         /\ r = "Success" <=> outcome[t] = "success"
  BY DEF ListSuccess, ListFailure
<1>3. Ended' = Ended /\ t \in Ended /\ t \notin Entered
  BY <1>1 DEF Ended, Entered, Books, Ends
<1>4. \A f \in Listed : f.tx # t /\ f.id < total /\ f.id \in Nat
  <2>1. \A f \in Listed : f.tx # t
    BY <1>3 DEF Books, Sums
  <2>2. \A f \in Listed : f.id < total
    BY <1>1 DEF Books, Ids
  <2>3. \A f \in Listed : f \in Entries
    BY DEF Listed, TypeOK, BridgeTypeOK
  <2>4. QED
    BY <2>1, <2>2, <2>3 DEF Entries
<1> DEFINE line == [id |-> total, tx |-> t, status |-> r]
<1>5. \A f \in Listed : Apart(line, f)
  BY <1>1, <1>4 DEF Apart
<1>6. /\ Listed' = Listed \cup {line}
      /\ {e.tx : e \in Listed'} = Entered \cup {t}
      /\ IsFiniteSet(Failures') /\ failed' = Cardinality(Failures')
      /\ \A i, j \in 1..Len(history') : i # j => Apart(history'[i], history'[j])
  BY <1>1, <1>2, <1>5, Lists
<1>7. Counted' = Counted /\ Entered' = Entered \cup {t}
  BY <1>1, <1>3 DEF Counted, Entered, Ended
<1>8. Sums'
  BY <1>1, <1>3, <1>6, <1>7 DEF Books, Sums
<1>9. Ends'
  BY <1>1 DEF Books, Ends
<1>10. Ids'
  <2>1. \A e \in Listed' : e.id <= total /\ (e.id = total <=> e = line) /\ (e.tx = t <=> e = line)
    BY <1>1, <1>4, <1>6
  <2>2. \A u \in Tx : pyPc'[u] # "counted"
    BY <1>1 DEF PyRest
  <2>3. \A u \in Tx : pyPc'[u] \in {"listed", "raising"} => u = t
    BY <1>1 DEF PyRest
  <2>4. outcome[t] = "success" => line.status = "Success"
    BY <1>2
  <2> HIDE DEF line
  <2>5. QED
    BY <1>1, <2>1, <2>2, <2>3, <2>4 DEF Ids
<1>11. QED
  BY <1>6, <1>8, <1>9, <1>10 DEF Books

\* An exception is listed, once more after a success, under the same id.
LEMMA BooksRaised ==
    ASSUME TypeOK, TypeOK', Books, NEW t \in Tx, Raised(t),
           \A u \in Tx \ {t} : pyPc[u] \in PyRest
    PROVE  Books'
<1>1. /\ pyPc[t] = "raising" /\ pyPc'[t] = "listed"
      /\ outcome'[t] = "error"
      /\ \A u \in Tx \ {t} : /\ pyPc'[u] = pyPc[u] /\ pyPc[u] \in PyRest
                              /\ outcome'[u] = outcome[u]
      /\ total' = IF outcome[t] = "none" THEN total + 1 ELSE total
      /\ failed' = failed + 1
      /\ history' = Entry(t, total', "Error") \o history
      /\ total \in Nat /\ total' \in Nat
  BY DEF Raised, Moves, TypeOK, BridgeTypeOK
<1>2. outcome[t] \in {"none", "success"}
  BY <1>1 DEF Books, Ends
<1>3. \A f \in Listed : f \in Entries /\ f.id \in Nat /\ f.id <= total
  <2>1. \A f \in Listed : f \in Entries
    BY DEF Listed, TypeOK, BridgeTypeOK
  <2>2. QED
    BY <2>1 DEF Entries, Books, Ids
<1> DEFINE line == [id |-> total', tx |-> t, status |-> "Error"]
<1>4. \A f \in Listed : Apart(line, f)
  <2>1. CASE outcome[t] = "none"
    <3>1. \A f \in Listed : f.id # total'
      BY <1>1, <1>3, <2>1
    <3>2. \A f \in Listed : f.tx # t
      BY <2>1 DEF Books, Sums, Entered, Ended
    <3>3. QED
      BY <3>1, <3>2 DEF Apart
  <2>2. CASE outcome[t] = "success"
    <3>1. \A f \in Listed : /\ f.id = total' <=> f.tx = t
                            /\ f.tx = t => f.status = "Success"
      BY <1>1, <2>2 DEF Books, Ids
    <3>2. QED
      BY <3>1 DEF Apart
  <2>3. QED
    BY <1>2, <2>1, <2>2
<1>5. /\ Listed' = Listed \cup {line}
      /\ {e.tx : e \in Listed'} = Entered \cup {t}
      /\ IsFiniteSet(Failures') /\ failed' = Cardinality(Failures')
      /\ \A i, j \in 1..Len(history') : i # j => Apart(history'[i], history'[j])
  BY <1>1, <1>4, Lists
<1>6. /\ Ended' = Ended \cup {t}
      /\ Counted' = Counted \cup {t}
      /\ Entered' = Entered \cup {t}
      /\ t \in Ended => outcome[t] = "success" /\ t \in Counted
      /\ t \notin Ended => outcome[t] = "none" /\ t \notin Counted
  BY <1>1, <1>2 DEF Ended, Counted, Entered
<1>7. IsFiniteSet(Ended') /\ total' = Cardinality(Counted')
  <2>1. IsFiniteSet(Ended) /\ IsFiniteSet(Counted)
    <3>1. Counted \subseteq Ended
      BY DEF Counted
    <3>2. QED
      BY <3>1, FS_Subset DEF Books, Sums
  <2>2. IsFiniteSet(Ended')
    BY <1>6, <2>1, FS_AddElement
  <2>3. total' = Cardinality(Counted')
    BY <1>1, <1>6, <2>1, FS_AddElement DEF Books, Sums
  <2>4. QED
    BY <2>2, <2>3
<1>8. Sums'
  BY <1>5, <1>6, <1>7 DEF Sums
<1>9. Ends'
  BY <1>1 DEF Books, Ends
<1>10. Ids'
  <2>1. \A e \in Listed' : e.id <= total'
    BY <1>1, <1>3, <1>5
  <2>2. \A u \in Tx : pyPc'[u] # "counted"
    BY <1>1 DEF PyRest
  <2>3. \A u \in Tx : pyPc'[u] \in {"listed", "raising"} => outcome'[u] # "success"
    BY <1>1 DEF PyRest
  <2>4. QED
    BY <2>1, <2>2, <2>3 DEF Ids
<1>11. QED
  BY <1>5, <1>8, <1>9, <1>10 DEF Books

\* Every step of the one thread at work.
LEMMA BooksThread ==
    ASSUME TypeOK, TypeOK', Window, Books, NEW t \in Tx, Thread(t)
    PROVE  Books'
<1>1. BridgeWork(t)
  BY DEF Thread
<1>2. \A u \in Tx \ {t} : pyPc[u] \in PyRest
  <2>1. pyPc[t] \notin PyRest
    BY <1>1, ThreadShape DEF TypeOK
  <2>2. QED
    BY <2>1 DEF Window, Busy
<1>3. pyPc[t] \in Unended => outcome[t] = "none"
  BY DEF Window, NoResult
<1>4. CASE RunTransmission(t) \/ Worker(t) \/ SelectAndSendFile(t) \/ RunRaises(t)
  <2>1. UNCHANGED <<outcome, total, failed, history>>
    BY <1>4 DEF RunTransmission, BeginText, ReturnText, Worker, BeginWorker, EncodeRaises,
                ReadPayload, ReadRaises, Complete, SelectAndSendFile, CancelFile, FileUnreadable,
                RunRaises, Results, counts
  <2>2. \/ \E from \in {"called", "worker"}, to \in {"running", "worker", "cancelled", "raised"} :
              Moves(t, from, to)
        \/ \E from \in {"worker", "running"} : Moves(t, from, "raising")
        \/ Moves(t, "listed", "done")
        \/ outcome[t] = "success" /\ Moves(t, "listed", "raising")
    BY <1>4 DEF RunTransmission, BeginText, ReturnText, Worker, BeginWorker, EncodeRaises,
                ReadPayload, ReadRaises, Complete, SelectAndSendFile, CancelFile, FileUnreadable,
                RunRaises
  <2>3. QED
    BY <1>3, <2>1, <2>2, BooksMove DEF Moves, Unended
<1>5. CASE KnownReceiver(t) \/ AskSas(t) \/ TakeAnswer(t)
  <2>1. UNCHANGED <<outcome, total, failed, history>> /\ pyPc[t] \in {"running", "asking"}
    BY <1>5 DEF KnownReceiver, AskSas, TakeAnswer, Run!Known, Run!Ask, Run!Approved, Run!Rejected,
                Run!Moves, counts
  <2>2. PICK to \in {"asking", "verified", "refused"} : pyPc' = [pyPc EXCEPT ![t] = to]
    BY <1>5 DEF KnownReceiver, AskSas, TakeAnswer, Run!Known, Run!Ask, Run!Approved, Run!Rejected,
                Run!Moves
  <2>3. QED
    BY <2>1, <2>2, BooksMove
<1>6. CASE RunEnds(t)
  <2>1. /\ UNCHANGED <<total, failed, history>>
        /\ pyPc[t] \in {"verified", "running", "refused"}
        /\ pyPc' = [pyPc EXCEPT ![t] = "returned"]
        /\ \E r \in {"success", "failed"} : outcome' = [outcome EXCEPT ![t] = r]
    BY <1>6 DEF RunEnds, Run!Succeed, Run!Fail, Run!Returns, Run!Moves, counts
  <2>2. QED
    BY <1>3, <2>1, BooksEnd DEF Unended
<1>7. QED
  BY <1>1, <1>2, <1>4, <1>5, <1>6, BooksCount, BooksList, BooksRaised
  DEF BridgeWork, ClientCall, Statistics

\* The window writes nothing of the statistics.
LEMMA BooksWindow ==
    ASSUME TypeOK, Window, Books,
           \/ \E t \in Tx : Start(t) \/ Resume(t)
           \/ \E p \in Polls : Polling(p)
           \/ \E approved \in BOOLEAN : ClickSas(approved)
           \/ \E answer \in Answers : SubmitSas(answer)
    PROVE  Books'
<1>1. CASE \E t \in Tx : Start(t)
  <2>1. PICK t \in Tx : Start(t)
    BY <1>1
  <2>2. /\ pyPc[t] = "idle" /\ pyPc' = [pyPc EXCEPT ![t] = "called"]
        /\ UNCHANGED <<outcome, total, failed, history>>
    BY <2>1 DEF Start, Begins, Results, counts, Window, Unstarted
  <2>3. QED
    BY <2>2, BooksMove
<1>2. CASE ~ \E t \in Tx : Start(t)
  <2>1. UNCHANGED <<pyPc, outcome, total, failed, history>>
    BY <1>2 DEF Resume, StartPolling, FileCancelled, CallRaised, TextReturned, Polling, Tick, TakeEvent,
                PollReturns, HandleEvents, ClickSas, Clicked, SubmitSas, bridge, Results, counts
  <2>2. QED
    BY <2>1, BooksAside
<1>3. QED
  BY <1>1, <1>2

\* The books are right from the start on.
LEMMA BooksHold == Spec => []Books
<1>1. Init => Books
  <2> SUFFICES ASSUME Init PROVE Books
    OBVIOUS
  <2>1. Listed = {} /\ Ended = {}
    BY DEF Init, BridgeInit, Listed, Ended
  <2>2. Failures = {} /\ Counted = {} /\ Entered = {}
    BY <2>1 DEF Failures, Counted, Entered
  <2>3. Sums
    BY <2>1, <2>2, FS_EmptySet DEF Init, BridgeInit, Sums
  <2>4. Ends /\ Ids
    BY <2>1 DEF Init, BridgeInit, Ends, Ids
  <2>5. \A i, j \in 1..Len(history) : i # j => Apart(history[i], history[j])
    BY DEF Init, BridgeInit
  <2>6. QED
    BY <2>3, <2>4, <2>5 DEF Books
<1>2. TypeOK /\ TypeOK' /\ Window /\ Books /\ [Next]_vars => Books'
  <2> SUFFICES ASSUME TypeOK, TypeOK', Window, Books, [Next]_vars PROVE Books'
    OBVIOUS
  <2>1. CASE UNCHANGED vars
    BY <2>1, BooksAside DEF vars, bridge, Results, counts
  <2>2. QED
    BY <2>1, BooksThread, BooksWindow DEF Next
<1>3. QED
  BY <1>1, <1>2, TypeCorrect, WindowHolds, PTL DEF Spec

\* With no thread at work each transmission that reached the statistics is counted
\* once, and listed once under an id of its own, or twice when the display of its
\* success raised, for any number of transmissions and for every place at which an
\* exception may come (main.py:71-141, 187-222, 297-333).
THEOREM StatisticsHold == Spec => []StatisticsAddUp
<1>1. Books => StatisticsAddUp
  <2> SUFFICES ASSUME Books, \A t \in Tx : pyPc[t] \in PyRest
               PROVE  /\ {e.tx : e \in Listed} = Ended
                      /\ total = Cardinality(Ended)
                      /\ failed = Cardinality(Failures)
                      /\ \A i, j \in 1..Len(history) : i # j => Apart(history[i], history[j])
    BY DEF StatisticsAddUp, Failures
  <2>1. Counted = Ended /\ Entered = Ended
    BY DEF Counted, Entered, Ended, PyRest
  <2>2. QED
    BY <2>1 DEF Books, Sums
<1>2. QED
  BY <1>1, BooksHold, PTL
===============================================================================
