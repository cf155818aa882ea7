-------------------------------- MODULE Bridge --------------------------------
(***************************************************************************)
(* ApiBridge of main.py: the threads that run runClient for the window,    *)
(* the queues of progress events and of SAS answers, and the statistics.   *)
(*                                                                         *)
(* A text is sent on the thread of the call itself; a long text and a file *)
(* on a daemon thread that outlives the call.  runClient is the call of     *)
(* module Call, which the protocol implements: the question it asks and    *)
(* the way it ends.  Of its progress events those that only draw are left  *)
(* out.                                                                    *)
(***************************************************************************)
EXTENDS Naturals, Sequences

CONSTANTS
    Tx,           \* transmissions the user starts
    NoTx,         \* stands for "none"
    Kind,         \* each transmission's kind: text, long, file
    MissingChunkSize  \* the config has no crypto.maxChunkSize

ASSUME BridgeAssumption ==
    /\ NoTx \notin Tx
    /\ Kind \in [Tx -> {"text", "long", "file"}]
    /\ MissingChunkSize \in BOOLEAN

VARIABLES
    pyPc,      \* where the transmission is in its thread
    outcome,   \* what runClient returned, or "error" for an exception
    heard,     \* whose words the answer it took from the queue was about
    progressQ, \* _progressQueue
    sasQ,      \* _sasQueue
    total,     \* metrics.total_transmissions
    failed,    \* metrics.failed_transmissions
    history    \* newest first, as insert(0, ...) leaves it

counts == <<total, failed, history>>
Results == <<outcome, heard, counts>>
bridge == <<pyPc, progressQ, sasQ, Results>>

Event(t, stage) == [tx |-> t, stage |-> stage]
Stages == {"ask", "completeOk", "completeFailed"}
Events == [tx : Tx, stage : Stages]
Answers == [tx : Tx, approved : BOOLEAN]
Entries == [id : Nat, tx : Tx, status : {"Success", "Failed", "Error"}]

\* The thread of a transmission has nothing left to do, or has not begun.
PyRest == {"idle", "cancelled", "raised", "done"}
PyPcs == PyRest \cup {"called", "worker", "running", "asking", "verified", "refused",
                      "returned", "counted", "listed", "raising"}

BridgeTypeOK ==
    /\ pyPc \in [Tx -> PyPcs]
    /\ outcome \in [Tx -> {"none", "success", "failed", "error"}]
    /\ heard \in [Tx -> Tx \cup {NoTx}]
    /\ progressQ \in Seq(Events)
    /\ sasQ \in Seq(Answers)
    /\ total \in Nat
    /\ failed \in Nat
    /\ history \in Seq(Entries)

BridgeInit ==
    /\ pyPc = [t \in Tx |-> "idle"]
    /\ outcome = [t \in Tx |-> "none"]
    /\ heard = [t \in Tx |-> NoTx]
    /\ progressQ = <<>>
    /\ sasQ = <<>>
    /\ total = 0
    /\ failed = 0
    /\ history = <<>>

Moves(t, from, to) ==
    /\ pyPc[t] = from
    /\ pyPc' = [pyPc EXCEPT ![t] = to]

Reports(t, stage) == progressQ' = Append(progressQ, Event(t, stage))

-------------------------------------------------------------------------------
(* Before runClient                                                         *)

\* runTransmission drops answers nobody waits for, and leaves old events alone.
BeginText(t) ==
    /\ Kind[t] = "text"
    /\ Moves(t, "called", "running")
    /\ sasQ' = <<>>
    /\ UNCHANGED <<Results, progressQ>>

\* sendLongText and, once a file is chosen, selectAndSendFile drop old events,
\* start the thread and return.
BeginWorker(t) ==
    /\ Kind[t] # "text"
    /\ Moves(t, "called", "worker")
    /\ progressQ' = <<>>
    /\ UNCHANGED <<Results, sasQ>>

\* The user closes the dialog without a choice.
CancelFile(t) ==
    /\ Kind[t] = "file"
    /\ Moves(t, "called", "cancelled")
    /\ UNCHANGED <<Results, progressQ, sasQ>>

\* The chosen file has no size to read: the call raises.
FileUnreadable(t) ==
    /\ Kind[t] = "file"
    /\ Moves(t, "called", "raised")
    /\ UNCHANGED <<Results, progressQ, sasQ>>

\* The text has no UTF-8 form: the call raises, the old events gone.
EncodeRaises(t) ==
    /\ Kind[t] = "long"
    /\ Moves(t, "called", "raised")
    /\ progressQ' = <<>>
    /\ UNCHANGED <<Results, sasQ>>

\* The worker reads its payload and drops old answers.
ReadPayload(t) ==
    /\ Moves(t, "worker", "running")
    /\ sasQ' = <<>>
    /\ UNCHANGED <<Results, progressQ>>

\* open() of the chosen file raises in the worker.
ReadRaises(t) ==
    /\ Kind[t] = "file"
    /\ Moves(t, "worker", "raising")
    /\ UNCHANGED <<Results, progressQ, sasQ>>

-------------------------------------------------------------------------------
(* runClient, as the bridge sees it                                         *)

Run == INSTANCE Call WITH Callers <- Tx, at <- pyPc

\* It is not reached, or raises before its own try: the text has no UTF-8 form,
\* the port is no number, the time-out is none.
RunRaises(t) ==
    /\ Moves(t, "running", "raising")
    /\ UNCHANGED <<Results, progressQ, sasQ>>

\* The receiver's key is in the cache: no question is asked.
KnownReceiver(t) == Run!Known(t) /\ UNCHANGED <<heard, progressQ, sasQ, counts>>

\* askSas: report the words, then wait on the queue of answers.
AskSas(t) ==
    /\ Run!Ask(t)
    /\ Reports(t, "ask")
    /\ UNCHANGED <<heard, sasQ, counts>>

TakeAnswer(t) ==
    /\ sasQ # <<>>
    /\ IF Head(sasQ).approved THEN Run!Approved(t) ELSE Run!Rejected(t)
    /\ heard' = [heard EXCEPT ![t] = Head(sasQ).tx]
    /\ sasQ' = Tail(sasQ)
    /\ UNCHANGED <<progressQ, counts>>

\* Mutant: askSas gives up after a time.
RunEndsAsking(t) ==
    /\ Run!Succeed(t) \/ Run!Fail(t) \/ Run!Returns(t, "asking", "failed")
    /\ UNCHANGED <<heard, progressQ, sasQ, counts>>

RunEnds(t) ==
    /\ Run!Succeed(t) \/ Run!Fail(t)
    /\ UNCHANGED <<heard, progressQ, sasQ, counts>>

-------------------------------------------------------------------------------
(* After runClient                                                          *)

Entry(t, id, status) == <<[id |-> id, tx |-> t, status |-> status]>>

\* Under the lock.
Count(t) ==
    /\ Moves(t, "returned", "counted")
    /\ total' = total + 1
    /\ UNCHANGED <<outcome, heard, progressQ, sasQ, failed, history>>

\* The entry of a success is made outside the lock, with the count of the moment.
ListSuccess(t) ==
    /\ outcome[t] = "success"
    /\ Moves(t, "counted", "listed")
    /\ history' = Entry(t, total, "Success") \o history
    /\ UNCHANGED <<outcome, heard, progressQ, sasQ, total, failed>>

\* The entry of a failure is made under the lock.
ListFailure(t) ==
    /\ outcome[t] = "failed"
    /\ Moves(t, "counted", "listed")
    /\ failed' = failed + 1
    /\ history' = Entry(t, total, "Failed") \o history
    /\ UNCHANGED <<outcome, heard, progressQ, sasQ, total>>

\* runTransmission splits the payload for display, by a key of the config that
\* runClient does without, and returns.
ReturnText(t) ==
    /\ Kind[t] = "text"
    /\ Moves(t, "listed",
             IF outcome[t] = "success" /\ MissingChunkSize THEN "raising" ELSE "done")
    /\ UNCHANGED <<Results, progressQ, sasQ>>

\* Mutants: every end is reported as a success; an exception is not reported.
AllWell(t) == "completeOk"

CompleteUnlessRaised(t) ==
    /\ Kind[t] # "text"
    /\ outcome[t] # "error"
    /\ Moves(t, "listed", "done")
    /\ Reports(t, IF outcome[t] = "success" THEN "completeOk" ELSE "completeFailed")
    /\ UNCHANGED <<Results, sasQ>>

Ending(t) == IF outcome[t] = "success" THEN "completeOk" ELSE "completeFailed"

\* The workers report the end.
Complete(t) ==
    /\ Kind[t] # "text"
    /\ Moves(t, "listed", "done")
    /\ Reports(t, Ending(t))
    /\ UNCHANGED <<Results, sasQ>>

\* Mutant: an exception is never counted as a transmission.
RaisedUncounted(t) ==
    /\ Moves(t, "raising", "listed")
    /\ outcome' = [outcome EXCEPT ![t] = "error"]
    /\ failed' = failed + 1
    /\ history' = Entry(t, total, "Error") \o history
    /\ UNCHANGED <<heard, progressQ, sasQ, total>>

\* The except clauses, under the lock: count the transmission if it was not.
Raised(t) ==
    /\ Moves(t, "raising", "listed")
    /\ outcome' = [outcome EXCEPT ![t] = "error"]
    /\ total' = IF outcome[t] = "none" THEN total + 1 ELSE total
    /\ failed' = failed + 1
    /\ history' = Entry(t, total', "Error") \o history
    /\ UNCHANGED <<heard, progressQ, sasQ>>

-------------------------------------------------------------------------------

\* Everything a transmission does without the window.
ClientCall(t) == RunRaises(t) \/ KnownReceiver(t) \/ AskSas(t) \/ TakeAnswer(t) \/ RunEnds(t)

Statistics(t) == Count(t) \/ ListSuccess(t) \/ ListFailure(t) \/ Raised(t)

RunTransmission(t) == BeginText(t) \/ ReturnText(t)
Worker(t) == BeginWorker(t) \/ EncodeRaises(t) \/ ReadPayload(t) \/ ReadRaises(t) \/ Complete(t)
SelectAndSendFile(t) == CancelFile(t) \/ FileUnreadable(t)

BridgeWork(t) ==
    \/ RunTransmission(t) \/ Worker(t) \/ SelectAndSendFile(t)
    \/ ClientCall(t) \/ Statistics(t)
===============================================================================
