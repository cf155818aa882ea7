--------------------------------- MODULE Gui ----------------------------------
(***************************************************************************)
(* The window (src/ui/views/app.js) over the bridge: one JavaScript thread *)
(* that starts transmissions, polls for progress events every 150 ms and   *)
(* shows the SAS dialog.  Every call into the bridge runs on a thread of   *)
(* its own, so several polls may be under way, and their answers may come  *)
(* back in any order.                                                      *)
(***************************************************************************)
EXTENDS Bridge, FiniteSets

CONSTANT Polls  \* bound of the model: polls under way at once

ASSUME GuiAssumption == Polls # {}

VARIABLES
    jsPc,           \* where the function that started each transmission is
    isTransmitting,
    poller,         \* progressPoller holds a running interval
    timers,         \* how many intervals run: setting the variable anew stops none
    poll,           \* each poll: free, taking events from the queue, or back
    got,            \* the events each poll has taken
    modal,          \* whose words the SAS dialog shows (NoTx: hidden)
    clicks,         \* answers given in the dialog and not yet in _sasQueue
    status,         \* the status line
    current         \* the transmission started last

gui == <<jsPc, isTransmitting, poller, timers, poll, got, modal, clicks, status, current>>
vars == <<bridge, gui>>

TypeOK ==
    /\ BridgeTypeOK
    /\ jsPc \in [Tx -> {"idle", "awaiting", "over"}]
    /\ isTransmitting \in BOOLEAN
    /\ poller \in BOOLEAN
    /\ timers \in Nat
    /\ poll \in [Polls -> {"free", "taking", "back"}]
    /\ got \in [Polls -> Seq(Events)]
    /\ modal \in Tx \cup {NoTx}
    /\ clicks \subseteq Answers
    /\ status \in {"Standby", "Transmitting", "Transmitted", "Failed"}
    /\ current \in Tx \cup {NoTx}

Init ==
    /\ BridgeInit
    /\ jsPc = [t \in Tx |-> "idle"]
    /\ isTransmitting = FALSE
    /\ poller = FALSE
    /\ timers = 0
    /\ poll = [p \in Polls |-> "free"]
    /\ got = [p \in Polls |-> <<>>]
    /\ modal = NoTx
    /\ clicks = {}
    /\ status = "Standby"
    /\ current = NoTx

-------------------------------------------------------------------------------

timer == <<poller, timers>>
dialog == <<modal, clicks>>

SetsTimer == poller' = TRUE /\ timers' = timers + 1
StopsTimer == poller' = FALSE /\ timers' = IF poller THEN timers - 1 ELSE timers

\* What the two click handlers do first.
Begins(t) ==
    /\ jsPc[t] = "idle"
    /\ isTransmitting' = TRUE
    /\ jsPc' = [jsPc EXCEPT ![t] = "awaiting"]
    /\ pyPc' = [pyPc EXCEPT ![t] = "called"]
    /\ IF Kind[t] = "text" THEN SetsTimer ELSE UNCHANGED timer
    /\ status' = "Transmitting"
    /\ current' = t
    /\ UNCHANGED <<Results, progressQ, sasQ, poll, got, dialog>>

\* Mutant: isTransmitting is not looked at.
StartUnguarded(t) == Begins(t)

\* A click on one of the two buttons, with something to send.  The interval of a
\* text is set before the call, the others' after it.
Start(t) == ~isTransmitting /\ Begins(t)

\* The function awaiting the call of transmission t goes on, and returns.
Resumes(t) == jsPc[t] = "awaiting" /\ jsPc' = [jsPc EXCEPT ![t] = "over"]

\* Mutant: the interval is not set.
StartNoPolling(t) ==
    /\ Kind[t] # "text"
    /\ pyPc[t] \notin {"called", "cancelled", "raised"}
    /\ Resumes(t)
    /\ UNCHANGED <<bridge, timer, poll, got, dialog, isTransmitting, status, current>>

\* The call returned {"status": "polling"}.
StartPolling(t) ==
    /\ Kind[t] # "text"
    /\ pyPc[t] \notin {"called", "cancelled", "raised"}
    /\ Resumes(t)
    /\ SetsTimer
    /\ UNCHANGED <<bridge, poll, got, dialog, isTransmitting, status, current>>

\* The dialog was cancelled: the function returns, and leaves isTransmitting TRUE.
FileCancelled(t) ==
    /\ pyPc[t] = "cancelled"
    /\ Resumes(t)
    /\ status' = "Standby"
    /\ UNCHANGED <<bridge, timer, poll, got, dialog, isTransmitting, current>>

\* The call raised: the catch clause.
CallRaised(t) ==
    /\ pyPc[t] = "raised"
    /\ Resumes(t)
    /\ isTransmitting' = FALSE
    /\ status' = "Failed"
    /\ UNCHANGED <<bridge, timer, poll, got, dialog, current>>

\* runTransmission returned.
TextReturned(t) ==
    /\ Kind[t] = "text"
    /\ pyPc[t] = "done"
    /\ Resumes(t)
    /\ StopsTimer
    /\ isTransmitting' = FALSE
    /\ status' = IF outcome[t] = "success" THEN "Transmitted" ELSE "Failed"
    /\ UNCHANGED <<bridge, poll, got, dialog, current>>

-------------------------------------------------------------------------------
(* Polling                                                                  *)

Tick(p) ==
    /\ timers > 0
    /\ poll[p] = "free"
    /\ poll' = [poll EXCEPT ![p] = "taking"]
    /\ UNCHANGED <<bridge, jsPc, timer, got, dialog, isTransmitting, status, current>>

\* fetchProgress takes the events one by one until it finds the queue empty.
TakeEvent(p) ==
    /\ poll[p] = "taking"
    /\ progressQ # <<>>
    /\ got' = [got EXCEPT ![p] = Append(@, Head(progressQ))]
    /\ progressQ' = Tail(progressQ)
    /\ UNCHANGED <<Results, pyPc, sasQ>>
    /\ UNCHANGED <<jsPc, timer, poll, dialog, isTransmitting, status, current>>

PollReturns(p) ==
    /\ poll[p] = "taking"
    /\ progressQ = <<>>
    /\ poll' = [poll EXCEPT ![p] = "back"]
    /\ UNCHANGED <<bridge, jsPc, timer, got, dialog, isTransmitting, status, current>>

EventsOf(p) == {got[p][i] : i \in 1..Len(got[p])}
Asked(p) == {e.tx : e \in {e \in EventsOf(p) : e.stage = "ask"}}
Completed(p) == {e \in EventsOf(p) : e.stage \in {"completeOk", "completeFailed"}}

\* handleProgressEvent of each event, without a pause: the dialog opens on a
\* question, and the transmission is over on "complete".
HandleEvents(p) ==
    /\ poll[p] = "back"
    /\ poll' = [poll EXCEPT ![p] = "free"]
    /\ got' = [got EXCEPT ![p] = <<>>]
    /\ modal' \in IF Asked(p) = {} THEN {modal} ELSE Asked(p)
    /\ \/ Completed(p) = {} /\ UNCHANGED <<timer, isTransmitting, status>>
       \/ \E e \in Completed(p) :
            /\ StopsTimer
            /\ isTransmitting' = FALSE
            /\ status' = IF e.stage = "completeOk" THEN "Transmitted" ELSE "Failed"
    /\ UNCHANGED <<bridge, jsPc, clicks, current>>

\* A click in the dialog hides it and calls submitSas, on a thread of its own.
Clicked(approved) ==
    /\ clicks' = clicks \cup {[tx |-> modal, approved |-> approved]}
    /\ status' = IF approved THEN status ELSE "Failed"
    /\ UNCHANGED <<bridge, jsPc, timer, poll, got, isTransmitting, current>>

\* Mutants: the dialog stays open; its buttons work while it is hidden.
ClickSasOpen(approved) ==
    /\ modal # NoTx
    /\ Clicked(approved)
    /\ UNCHANGED modal

ClickSasHidden(approved) ==
    /\ modal' = NoTx
    /\ Clicked(approved)

ClickSas(approved) ==
    /\ modal # NoTx
    /\ modal' = NoTx
    /\ Clicked(approved)

SubmitSas(answer) ==
    /\ answer \in clicks
    /\ clicks' = clicks \ {answer}
    /\ sasQ' = Append(sasQ, answer)
    /\ UNCHANGED <<Results, pyPc, progressQ>>
    /\ UNCHANGED <<jsPc, timer, poll, got, modal, isTransmitting, status, current>>

-------------------------------------------------------------------------------

Thread(t) == BridgeWork(t) /\ UNCHANGED gui
Resume(t) == StartPolling(t) \/ FileCancelled(t) \/ CallRaised(t) \/ TextReturned(t)
Polling(p) == Tick(p) \/ TakeEvent(p) \/ PollReturns(p) \/ HandleEvents(p)

Next ==
    \/ \E t \in Tx : Start(t) \/ Thread(t) \/ Resume(t)
    \/ \E p \in Polls : Polling(p)
    \/ \E approved \in BOOLEAN : ClickSas(approved)
    \/ \E answer \in Answers : SubmitSas(answer)

Spec == Init /\ [][Next]_vars

\* Threads, the interval timer and the event loop go on; the user answers a
\* question he is shown, and starts transmissions or not.
FairSpec ==
    /\ Spec
    /\ \A t \in Tx : WF_vars(Thread(t)) /\ WF_vars(Resume(t))
    /\ \A p \in Polls : WF_vars(Polling(p))
    /\ WF_vars(\E approved \in BOOLEAN : ClickSas(approved))
    /\ \A answer \in Answers : WF_vars(SubmitSas(answer))

-------------------------------------------------------------------------------
(* Safety                                                                   *)

\* While a thread of any transmission is at work, the window knows: it starts no
\* second one, although the end is announced by a queue, by several polls, or by
\* the return of the call (app.js:61, 136, 184, 189, 332).
OneAtATime ==
    /\ ~isTransmitting => \A t \in Tx : pyPc[t] \in PyRest
    /\ \A t, u \in Tx : pyPc[t] \notin PyRest /\ pyPc[u] \notin PyRest => t = u

\* A question is answered by the click on its own words, not by one meant for
\* another transmission (main.py:51-58, 168-175, 278-285).
AnswerIsOnes == \A t \in Tx : heard[t] \in {t, NoTx}

\* The dialog shows the words of the run that waits for an answer.
DialogIsLive == modal # NoTx => pyPc[modal] = "asking" /\ sasQ = <<>> /\ clicks = {}

\* The window says what happened to the transmission started last.
StatusIsTrue ==
    ~isTransmitting /\ current # NoTx =>
        (status = "Transmitted" <=> outcome[current] = "success")

Ended == {t \in Tx : outcome[t] # "none"}
Listed == {history[i] : i \in 1..Len(history)}

\* Two lines of the history: of two transmissions, or of a success and of the
\* exception after it.
Apart(e, f) ==
    IF e.id = f.id THEN e.tx = f.tx /\ {e.status, f.status} = {"Success", "Error"}
    ELSE e.tx # f.tx

\* With no thread at work each transmission that reached the statistics is counted
\* once, is in the history once, under an id of its own, and the failures are
\* counted, although half of the updates hold no lock (main.py:71-141).  Only a
\* text whose display failed after its success was listed is there twice.
StatisticsAddUp ==
    (\A t \in Tx : pyPc[t] \in PyRest) =>
        /\ {e.tx : e \in Listed} = Ended
        /\ total = Cardinality(Ended)
        /\ failed = Cardinality({e \in Listed : e.status # "Success"})
        /\ \A i, j \in 1..Len(history) : i # j => Apart(history[i], history[j])

-------------------------------------------------------------------------------
(* Liveness                                                                 *)

\* When a run asks and has no answer yet, the user is shown a question
\* (main.py:57, app.js:279); DialogIsLive says that it is that run's.
QuestionIsShown ==
    (\E t \in Tx : pyPc[t] = "asking" /\ sasQ = <<>> /\ clicks = {}) ~> modal # NoTx

\* Every transmission ends in the window, which can then start another, unless
\* it was cancelled in the file dialog (app.js:180-185, 247-253, 314-335).
WindowIsFreed ==
    isTransmitting ~> ~isTransmitting \/ pyPc[current] = "cancelled"

-------------------------------------------------------------------------------
(* What the repository says and the program does not do                     *)

\* The status line says Standby (app.js:219) when nothing is under way.
StandbyIsIdle == status = "Standby" => ~isTransmitting
===============================================================================
