---------------------------------- MODULE Tui ----------------------------------
(***************************************************************************)
(* The receiver's window (src/tui/app.py) over Session: the server thread  *)
(* posts messages through TuiCallbacks, and the interface thread takes     *)
(* them from the queue ten times a second and writes them on a log.        *)
(*                                                                         *)
(* Banner and steps are lines that nothing here depends on.  The server    *)
(* thread is a daemon: it ends with the window.                            *)
(***************************************************************************)
EXTENDS Session

VARIABLES
    msgQueue, \* messages posted and not taken
    screen    \* messages written on the log

tui == <<msgQueue, screen>>

TuiInit == Init /\ msgQueue = <<>> /\ screen = <<>>

\* Mutant: onSasVerification is left to the base class, which does nothing.
OverriddenButSas == {"connection", "payload", "error", "unknown", "closed"}

\* The events that TuiCallbacks posts, of those the server reports.  An error that
\* quotes the type the sender gave its payload is "unknown".
Overridden == {"connection", "sas", "payload", "error", "unknown", "closed"}

Message(type, c) == [type |-> type, run |-> c]

\* How a connection ended: every way but a delivery, exceptions included, is an
\* error.
Outcome ==
    IF delivered' # delivered THEN "payload"
    ELSE IF sPc = "decrypt" /\ HeaderWhole /\ Meta[sConn] = "other" THEN "unknown" ELSE "error"

\* What the server reports in a step, in the order of its calls.
Says(type, happened, c) ==
    IF happened /\ type \in Overridden THEN <<Message(type, c)>> ELSE <<>>
Reported ==
    Says("connection", sConn = NoRun /\ sConn' # NoRun, sConn')
    \o Says("sas", displayed' # displayed, sConn)
    \o Says(Outcome, sConn # NoRun /\ sConn' = NoRun, sConn)
    \o Says("closed", sConn # NoRun /\ sConn' = NoRun, sConn)

\* Mutant: the newest message is taken first.
PutsFirst(messages) == msgQueue' = messages \o msgQueue

Puts(messages) == msgQueue' = msgQueue \o messages

ServeAndReport == ServerStep /\ Puts(Reported) /\ UNCHANGED screen

\* The window closes, and with it the receiver.
Quit == Stop /\ UNCHANGED client /\ msgQueue' = <<>> /\ screen' = <<>>

\* A text, or the name of a type, may hold what is no well-formed markup; the
\* other lines have nothing in them that a sender chooses.
MayRaise(m) == m.type = "unknown" \/ (m.type = "payload" /\ Meta[m.run] = "text")

PollQueue ==
    /\ msgQueue # <<>>
    /\ screen' = Append(screen, Head(msgQueue))
    /\ msgQueue' = Tail(msgQueue)
    /\ UNCHANGED vars

\* Mutant: the exception goes no further than the loop.
RenderSkips ==
    /\ msgQueue # <<>>
    /\ MayRaise(Head(msgQueue))
    /\ msgQueue' = Tail(msgQueue)
    /\ UNCHANGED <<vars, screen>>

\* RichLog.write parses the line as markup and raises; the framework ends the
\* program on an exception of a timer.
RenderRaises == msgQueue # <<>> /\ MayRaise(Head(msgQueue)) /\ Quit

Interface == PollQueue \/ RenderRaises

TuiNext ==
    \/ (\E c \in Runs : ClientStep(c)) /\ UNCHANGED tui
    \/ (ClientEnv /\ UNCHANGED server) /\ UNCHANGED tui
    \/ (Start /\ UNCHANGED client) /\ UNCHANGED tui
    \/ ServeAndReport \/ Quit \/ Interface

TuiSpec == TuiInit /\ [][TuiNext]_<<vars, tui>>

\* As in Session; and the interval timer goes on.
TuiFairSpec ==
    /\ TuiSpec
    /\ WF_<<vars, tui>>(ServeAndReport)
    /\ \A c \in Runs : WF_<<vars, tui>>(ClientStep(c) /\ UNCHANGED tui)
    /\ WF_<<vars, tui>>(Interface)

-------------------------------------------------------------------------------

\* Everything posted since the window was opened.
log == screen \o msgQueue

Outcomes == {"payload", "error", "unknown"}

\* A message that may come after another on the log.
Follows(next, m) ==
    \/ m.type = "closed" /\ next.type = "connection"
    \/ /\ m.run = next.run
       /\ <<m.type, next.type>> \in
            {"connection"} \X {"sas"} \cup {"connection", "sas"} \X Outcomes
            \cup Outcomes \X {"closed"}

\* The log is a block for each connection: announced, its words if they are shown,
\* one outcome, a payload or an error, its end, and nothing of another in between,
\* however far the interface is behind the server (app.py:15-39, 76-121,
\* server.py:68-76).
BlocksAreWhole ==
    /\ log # <<>> => log[1].type = "connection"
    /\ \A i \in 1..Len(log) - 1 : Follows(log[i + 1], log[i])

\* The words that were posted last.
LastWords(c) ==
    \E i \in 1..Len(log) :
        /\ log[i] = Message("sas", c)
        /\ \A j \in i + 1..Len(log) : log[j].type # "sas"

\* While a user compares words and the receiver holds his connection, the words
\* that were, or will be, shown last are his: he does not compare his own with
\* those of another sender (server.py:60-76, 134, client.py:93-98).
WordsAreCurrent ==
    \A c \in Runs : cPc[c] = "ask" /\ sOpen[c] /\ c \in displayed => LastWords(c)

On(type, c) == \E i \in 1..Len(screen) : screen[i] = Message(type, c)

\* A user who is asked to compare words finds them on the receiver's screen,
\* whatever he answers and however long he takes, unless the receiver stops
\* (client.py:93-98, server.py:132-134, app.py:76-104).
WordsOnScreen == \A c \in Runs : cPc[c] = "ask" ~> On("sas", c) \/ sPc = "down"

\* A payload the server hands over comes to the screen, or takes the window down
\* (server.py:188, 197, app.py:106-114).
PayloadOnScreen == \A c \in Runs : delivered[c] # <<>> ~> On("payload", c) \/ sPc = "down"
===============================================================================
