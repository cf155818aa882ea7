# ASSP: specification and proofs

ASSP (Authenticated Secure Stream Protocol) sends a text or a file from a GUI
application to a receiver over one TCP connection: a signed X25519 exchange, a
comparison of four words (SAS) by the two users, a sealed seed, and a stream of
encrypted chunks. This directory holds TLA+ models of the program, TLC
configurations that check them and TLAPS proofs.

Paths below are relative to the repository (`src/main.py` in `PROJECT.json` is
`main.py` here).

## Inventory

| Part | Source | State | Operations | What makes it correct |
|---|---|---|---|---|
| Sender | `src/communication/client.py` `runClient` | local to a call: socket, keys, chunks sent | connect, handshake, SAS step, vault, stream, END, return | a seed goes only to a verified receiver; a refusal sends nothing; the call always returns |
| Receiver | `src/communication/server.py` `runServer`, `handleConnection` | listening socket, its Ed25519 key, the current connection, `cipherChunks`, `downloads/` | accept, handshake, SAS step, vault, stream, deliver or drop, close | stays in step with the sender; gives every connection up; hands over what was sent, in order, once |
| Framing | `src/communication/framing.py` | none (the socket) | `recvExact`, `recvFramed`, `sendFramed` | a frame is read whole or reported missing |
| Known peers | `src/crypto/known_servers.py` | `_trustedFingerprints`, one set per process | `saveKnownServer`, `isTrusted` | holds only peers a user approved |
| Crypto primitives | `src/crypto/{ed25519_authentication,key_exchange,seed_encryption,sas}.py` | none | sign, verify, derive, seal, words | an altered part is refused |
| Keystream and cipher | `src/crypto/{csprng,stream_cipher}.py` | 4096-byte buffer and its index | `getNextByte`, `encryptStream`, `decrypt` | both sides use the same byte at the same position |
| Payload format | `src/crypto/payload_formatter.py` | none | `packPayload`, `unpackPayload` | round trip; a cut header is an error |
| GUI bridge | `main.py` `ApiBridge` | progress queue, answer queue, metrics and their lock, history | `runTransmission`, `sendLongText`, `selectAndSendFile`, `fetchProgress`, `submitSas`, `fetchMonitorData` | each attempt counted once; events reach the transmission they belong to |
| GUI front end | `src/ui/views/app.js` | `isTransmitting`, poller, dialog | start, poll, SAS answer, reset | never stuck; never reports what did not happen |
| Receiver TUI | `src/tui/app.py` | message queue, log | `TuiCallbacks`, `pollQueue`, quit | the log is whole and in order; words and payloads reach the screen |
| Configuration | `src/crypto/config.py` | none | `loadConfig` | missing keys noticed |

The sender and the receiver interact only through the connection. The bridge runs
`runClient` on the thread that pywebview gives the call, hands it two callbacks
(`onProgress` puts events on a queue the front end polls, `askSas` blocks on a queue
that `submitSas` fills), and several calls may overlap. The receiver is a single
thread: while it serves one connection others wait in the kernel's queue
(`listen(1)`). It reports what it does through callbacks; in the TUI they put messages
on a queue that an interval of the interface thread empties. Nothing is persisted but the files in `downloads/`.

Hard behaviours: the receiver's 30 s time-out against a user who compares words for
longer; failures of either side between any two steps; restarts of the receiver,
which change its key and empty its cache; the unframed confirmation byte; two
configurations that disagree about SAS; overlapping runs that share a cache. The
list, line by line, is under `hazards` in `PROJECT.json`.

## Modules

Connections, sender and receiver:

* `Transport`: the connections. Each direction of a connection is a FIFO of whole
  items (a frame, or the confirmation byte). TCP does not lose or reorder, so a
  receive fails by time-out (nothing there), end of file (the peer closed and all is
  read) or reset (a socket closed on unread data); a send fails when the peer has
  closed or does not drain. The kernel's accept queue holds `Backlog` connections.
* `Client` (EXTENDS `Transport`): one action per step of `runClient`, for each run in
  `Runs`. `AppOf` gives the process of a run; a process owns a cache (`trusted`), a
  configuration (`ClientSkips`) and may have no question to ask its user
  (`HasPrompt`; every process of the runs has one, the theorems cover both). `cPc` is the
  place in the function (`Approve` and `Pin` are two steps: the confirmation is sent
  before the receiver is remembered, client.py:106-107), `peer` the receiver's key as read,
  `sent` the chunks written, `result` the returned success flag. `AppExit` ends a
  process with all its runs.
* `Server` (EXTENDS `Transport`): one action per step of `runServer` and
  `handleConnection`. `Hangup` is the part every exit shares: return or exception,
  `conn.close()`, back to `accept()`. `Stop` is Ctrl-C or a crash at any place;
  `Start` makes a new key (`identity`) with an empty cache. `delivered` is what
  `onDecrypted` / `onFileSaved` got, `displayed` whose words were shown, `disk` which
  payload each file holds. Saving is two steps (open empties, write fills) so that a
  crash can come between.
* `Session` (EXTENDS `Client`, `Server`): their composition, fairness and properties.
* `Tui` (EXTENDS `Session`): the window of the receiver. `msgQueue` is its queue and
  `screen` its log; `Reported` are the messages that a step of the server posts, `Outcome`
  the one before the last of a connection: a payload or an error. The
  server's thread is a daemon, so that `Quit`, and a text or the name of an unknown type
  that `RichLog` cannot write (`RenderRaises`), stop the receiver at any place.
* `Call`: a call of `runClient` as its caller sees it: it asks at most once, succeeds only
  after it verified the receiver, and leaves its question only with the answer or the end
  of the process. `Session!CallSpec` states that a run implements it (`AsCall` from `cPc`).
* `Delivery`: the contract without the protocol; `Session!ContractSpec` states that
  the system implements it (`status` from `cPc` and `result`, `got` the number of
  chunks delivered, `refused` the runs whose user said no).

The window:

* `Bridge`: `ApiBridge` of `main.py`. `pyPc` is where the thread of a transmission is;
  the call itself for a text, a daemon thread for a long text or a file. `progressQ`
  and `sasQ` are the two queues, `total`, `failed` and `history` the statistics, each
  update a step of its own because only some of them hold the lock. `RunRaises` and
  `EncodeRaises` are the exceptions before `runClient` connects (a port that is no number, a
  text without a UTF-8 form). `runClient` is the
  call of module `Call`, taken with `INSTANCE`: the window rests on what the protocol is
  shown to do. The bridge adds the events and the two queues.
* `Gui` (EXTENDS `Bridge`): the JavaScript thread of `app.js` over it. Every call into
  the bridge runs on a thread of its own: polls (`poll`, `got`) overlap and return in any
  order, and a click in the dialog reaches `sasQ` some time later (`clicks`). `timers`
  counts running intervals, because `setInterval` stored over a running one stops
  nothing. Within one poll the events are handled without a pause, so only their last
  effects on dialog, buttons and status line are kept.

The bytes:

* `Stream`: one payload through `packPayload`, `encryptStream`, the chunks, `decrypt` and
  `unpackPayload`, byte by byte. A byte is known by its place, a key byte by its place in
  the keystream. `sGen` and `rGen` are the two `CsprngGenerator`s (bytes made, bytes left
  in the buffer).
* `Framing`: `recvExact`, `recvFramed` and `sendFramed` over bytes that the kernel takes
  and hands over in pieces of any size, of a connection that may close or be `reset`
  anywhere. `phase`, `need` and `data` are the place in
  `recvFramed` and the locals of `recvExact`. It takes items in the order the two
  ends agree on, which is what `InStep` shows of `Session`.
* `FrameFifo`: the FIFO of whole items that `Transport` assumes; `Framing!FifoSpec` states
  that `Framing` implements it.

`MCSession`, `MCTui`, `MCGui` and `MCFraming` hold the constants of the checked instances.
The theorems are in `SessionProofs`, which `TuiProofs` and `PipeProofs` extend, in
`DeliveryProofs` and `TrustProofs`, which continue `PipeProofs`, and in `GuiProofs`,
`StreamProofs` and `FramingProofs`.

Operators named as mutants (`TrustsAny`, `ServerSilence`, ...) stand next to
the step they alter. They are plausible slips of the code, used to show that each
property can fail; no specification uses them.

Abstractions. Keys are numbers: a start of the receiver has key `identity`; a sender's
key names its run, because `runClient` makes one per call (client.py:36). In `Session` a
payload is `Chunks` numbered chunks whose first `HeaderChunks` hold the length and the
JSON header; `Stream` has the bytes. Signatures and seals are judged by outcome:
`Damaged` names the signed or sealed parts that arrive altered, and such a part fails its
check. In the frame of the vault only the seed is sealed: the nonce of the keystream behind
it (client.py:119, server.py:157) is under no tag, and neither are the chunks, so that damage
to them is outside the model, as is an adversary who forges messages. Progress events
change no state of the two sides and are left out of `Session`; they are in `Bridge` and
`Gui`, which leave out those that only draw (chunks, keys, pipeline panel) and the log.

## Runs

Deadlock is not checked in any run, because every system here may stop: all runs used and
no restart left, no transmission left to start, the payload handed over.

| Run | Instance | Shows |
|---|---|---|
| `session_safety` | one process, two files of one name, two starts of the receiver | `TypeOK`, `InStep`, `VaultNeedsVerifiedPeer`, `DeliveredIsPrefix`, `SenderTrustIsEarned`, `FileLostOnlyToNamesake`, `CallSpec` |
| `altered_reply` | one process, whose second run gets an altered reply and whose third sends an altered hello; two starts of the receiver | `VaultNeedsVerifiedPeer`, `SenderTrustIsEarned` |
| `contract` | two starts of a receiver that skips SAS, the first without a chunk size; two processes, one of them skips SAS, its seed arrives altered; no help from users | `InStep`, `RefusedNeverDelivered`, `ContractSpec`, `RunEnds`, `ConnectionEnds` |
| `receiver_live` | the receiver in its window, which shows words; two processes, one of them skips SAS; a text and a payload of unknown type, of one chunk each; no help from users | `InStep`, `BlocksAreWhole`, `WordsAreCurrent`, `WordsOnScreen`, `PayloadOnScreen` |
| `gui` | a text, a long text and a file, two polls under way | `TypeOK`, `OneAtATime`, `AnswerIsOnes`, `DialogIsLive`, `StatusIsTrue`, `StatisticsAddUp`, `QuestionIsShown`, `WindowIsFreed` |
| `stream` | 15 bytes (4 + 3 + 8), chunks of 2, key buffers of 5, 3 updates aimed at | `TypeOK`, `KeysAligned`, `AnnouncedIsSent`, `UpdatesBounded`, `BodyIsPrefix` |
| `framing` | a frame of 3 bytes, the raw byte, an empty frame, one of 2 | `TypeOK`, `WholeFrames`, `FifoSpec`, `ReceiverReturns` |

Bounds. The `Session` runs have two runs of `runClient`, `altered_reply` three, two chunks of which one is the
header (so that nothing, a part and all of a payload are different), an accept queue of
one (`Backlog`) and one or two starts of the receiver (`MaxStarts`, the only counter that
is capped). Two runs are enough for every sharing the code has: one queues behind the
other, one uses the cache entry of the other, one replaces the file of the other.
`receiver_live` sends one chunk instead of two, because the window sees payloads and no
chunks. The `Gui` runs have three transmissions, one of each kind, so that anything of one
can be left when another kind begins, and at most `Polls` polls under way; two are needed
for events to overtake each other. The configuration of `gui` has `maxChunkSize`, so that
texts succeed as well as fail; what a configuration without it does to the status line and
the statistics is covered by the theorems about them. In `stream` the buffer ends within chunks and the last chunk is short. In
`framing` the prefix has the four bytes of the code.

* `InStep`: whichever branch of the SAS step each side takes, the receiver reads every
  item as what the sender sent it as, and the chunks in order.
* `VaultNeedsVerifiedPeer`: a seed goes only to a receiver whose signature was checked
  and whose words a user of the same process approved, in this run or an earlier one.
* `RefusedNeverDelivered`: a rejected or altered run delivers nothing, even if the
  rejection byte is drained unread.
* `DeliveredIsPrefix`: what is handed over is a prefix of what was sent, and all of it
  if the sender reported success.
* `SenderTrustIsEarned`: a sender the receiver remembers has checked its signature and,
  unless it skips SAS, a user of its process approved this receiver, in that run or an
  earlier one. It does not say that the sender remembers the receiver: the confirmation
  leaves first, and the sender may die before it gets to `saveKnownServer`.
* `FileLostOnlyToNamesake`: a saved file is lost only to a later payload of the same
  name.
* `ContractSpec`: at most one delivery; whole or nothing while the sender runs or
  after success; a part only after a failure; nothing after a refusal.
* `ConnectionEnds`: the receiver gives every accepted or queued connection up.
* `RunEnds`: a connected run returns or waits for its user, whatever the receiver does.
* `CallSpec`: a run is a call of module `Call`; a lost connection does not take the
  question from the user, and no other run or restart does.
* `BlocksAreWhole`: the receiver's log has one block for each connection, in order: its
  start, its words if they are shown, one payload or error, its end.
* `WordsAreCurrent`: while a user compares words and the receiver holds his connection,
  the last words shown, or still in the queue, are his.
* `WordsOnScreen`, `PayloadOnScreen`: a user asked to compare words finds them on the
  receiver's screen, and what is handed over comes to the screen, unless the receiver
  stops (which a payload that cannot be written makes it do).
* `OneAtATime`: while a thread of any transmission works the window starts no second one,
  although the end is announced in three ways.
* `AnswerIsOnes`: a question is answered by the click on its own words.
* `DialogIsLive`: the dialog shows the words of a run that still waits.
* `StatusIsTrue`: an idle window says of the last transmission what happened to it.
* `StatisticsAddUp`: counters and history agree and each transmission is listed once,
  but for the case below.
* `QuestionIsShown`, `WindowIsFreed`: while a run waits for an answer that nobody has
  given, a question comes to the screen (its own, by `DialogIsLive`); every
  transmission gives the window back unless it was cancelled in the file dialog.
* `KeysAligned`: both ends use the same key byte at the same byte of the payload.
* `AnnouncedIsSent`, `UpdatesBounded`: the announced number of chunks is the number
  sent, and the progress events are at most twice the number aimed at, which is less than
  client.py:133 says (run `updates`).
* `BodyIsPrefix`: what `unpackPayload` hands over is a beginning of the body, all of it
  after `__END__`; an error means that the header was cut.
* `WholeFrames`, `FifoSpec`, `ReceiverReturns`: a frame is returned whole or not at all,
  in order; the end is reported after the last whole item; nothing holds the receiver.

Fairness. In `Session` the receiver's steps are weakly fair: it is one thread and every
wait has a time-out (server.py:55, 84). A connected run's steps are weakly fair for the
same reason (client.py:39). A user's answer is never fair: `askSas` waits
without a time-out (main.py:57-59). Connecting, ending a process, stopping and starting
the receiver are not fair either. `Tui` adds the interval timer of the interface;
closing the window is not fair. In `Gui` the threads, the interval timer and the event loop
are weakly fair, and so are the user's answer to words he is shown and the choice in the
file dialog; starting a transmission is not. In `Framing` only the receiver is fair: `recv`
returns, raises its time-out, or sees the end.

### Disagreements with the documentation

Each is a run that TLC must find violated (details under `findings`):

* `success_received`: success, and the window's "File transmitted and saved on
  server." (app.js:321-323), does not mean delivery. There is no acknowledgement.
* `end_of_stream`: a closed connection ends the stream as `__END__` does
  (server.py:175-178), so a part of a payload is delivered as a whole.
* `cancelled_dialog`: after a cancelled file dialog the window says "Standby" and can
  send nothing until it is restarted (app.js:217-221).
* `repeat_sas`: "repeated connections from the same peer ... skip the SAS step"
  (known_servers.py:4-6, README.md:78) holds on the sender's side only. The receiver has a
  branch for it (server.py:129-131), but a sender's key is new in every call of `runClient`
  (client.py:36), so it shows words to a process it remembers.
* `updates`: "~200 UI updates max" (client.py:133); 399 chunks have 399 updates, because the
  step is the floor of their 200th part. The run has the 200 of the code and 399 chunks, and
  stops at the 221st (a tenth more is allowed for the "~").

Met while modelling, without a run of their own:

* With SAS skipped on the receiver, the byte drained "that the client always sends"
  (server.py:127) may be a rejection, which is not looked at, or may not come.
* The call of README.md:119-127 gives no `askSas` and is rejected under the default
  configuration (`HasPrompt`).
* Without `maxChunkSize` in the configuration `runClient` takes a default and the display
  in `runTransmission` raises: a delivered text is listed as a success and as an error.
  `StatisticsAddUp` allows exactly that.
* The log of the receiver's window takes a received text, and the type that an error quotes
  (server.py:199), for markup (app.py:108, 121, `RichLog(markup=True)`): what is not well
  formed ends the window and the receiver with it. `PayloadOnScreen` allows exactly that.
* `runServer` runs in a daemon thread of the window (app.py:73): when `bind` fails the
  window stays open, empty, and serves nothing.
* A receiver without `maxChunkSize` in its configuration fails only after the seed has
  arrived (server.py:169), with a sender that streams on and may report success
  (`NoChunkSize`, in `contract`).
* `WORD_LIST` has 319 different words, where sas.py:10 and README.md:63 say 256. A byte
  modulo 319 is the byte, so the first 256 are used, a different word for each byte.
* `runTransmission` does not drop old progress events, which the other two entry points
  do (main.py:258): the log of a text may show the end of the previous one.

## Proofs

`SessionProofs` proves, for any sets of runs and processes, any number of chunks,
starts and queued connections, any damage and any configuration:

* `TypeCorrect`: `Spec => []TypeOK`. `TypeOK` is inductive. One lemma per side has a
  case for each action; `PutsType`, `TakesType` and `HangupType` carry the parts that
  many actions share.
* `SeedsGoToVerifiedPeers`: `Spec => []VaultNeedsVerifiedPeer`. `TrustIsVouched` adds
  that every key in a cache has a run that vouched for it, and that an answered run's
  reply and answer no longer change.
* `RunsAreCalls`: `Spec => CallSpec`. Every step of a run is a step of its call or leaves
  it as it is (`ClientStepIsCall`); `AppExit` is `Die`; the receiver's steps leave it as it
  is. It needs `TypeOK`, and `TrustIsVouched` for a cached receiver, which was verified.

The proofs that follow use one more invariant of that module, `FreshSenders`: an idle run
was neither accepted nor remembered, a queued run is queued once and not remembered, and the
run being served is remembered no sooner than its confirmation is read.

`PipeProofs` proves `ReceiverStaysInStep`, `Spec => []InStep`. `InStep` looks at the head of
one connection; its invariant `Pipe` looks at all of each connection that the receiver
serves or will serve. Number the items that a run writes: three frames of the hello, the
confirmation, the seed, the chunks, the end. Then the item at place `i` in the connection
is one that may come as number `Read(c) + i` (`Placed`), and while the run lives
`Written(c) = Read(c) + Len(c2s[c])`. Both counts are functions of the places of the two
sides, so each branch of the SAS step, taken by each side on its own, must write and read
exactly one item. `FreshSenders` gives that a connection is queued once and a served one not
at all.

`DeliveryProofs` proves `DeliveriesAreBeginnings`, `Spec => []DeliveredIsPrefix`, and
`ContractIsKept`, `Spec => ContractSpec`. `Handed` adds to `Pipe` what the receiver holds
and has handed over: a beginning of what was sent (`Begins`), of a sender that will
send no more (`Over`), and all of it unless that sender failed; a run whose payload was handed
over is not served again. The refinement takes each action to the step of `Delivery` it is:
a return, a death, a refusal, a delivery, or none. `FilesAreLostToNamesakes`, `Spec =>
[]FileLostOnlyToNamesake`, adds `Kept`: a file is opened only for a payload that came with
its header, and one handed over stays on disk until that happens to its name.

`TrustProofs` proves `SendersEarnTrust`, `Spec => []SenderTrustIsEarned`, and
`NothingRefusedArrives`, `Spec => []RefusedNeverDelivered`. `AllTrue` says that no item on
its way says more than is true (`approve` is there only if the run confirmed, an intact
signature only if the part was not altered), and that each side's place is one that
it may be at after what it checked. For the first of the two `SameKey` adds that a run the
receiver serves or remembers read this receiver's key, if it read any: keys change only with
a restart, which closes every connection. So the key that the sender's user approved
(`TrustIsVouched`) is the one of the receiver that remembers the sender.

`TuiProofs` proves `WindowOnlyWatches`, `TuiSpec => Spec`: the window adds no behaviour to
the two sides, so that whatever is proved of `Session` holds for the receiver in its window.
It also proves `BlocksStayWhole` and `WordsStayCurrent`, `TuiSpec => []BlocksAreWhole` and
`TuiSpec => []WordsAreCurrent`. Both speak of the log, `screen \o msgQueue`, which the poller
does not change. `BlocksAreWhole` is not inductive alone, because a message must follow the
last one: `LastIsNow` says that the last one tells where the receiver is (it has closed, has
accepted, or has shown words), and `Shown` that words are shown of no run that is idle or
queued, and that a run with its words shown is the one being served while its connection is
held. `Shown` follows from `FreshSenders`, which is where restarts and the queue of
connections come in. Every step of the receiver is one of four kinds, by what it posts
(`ReportedCases`).

`GuiProofs` proves `TypeCorrect`, `OneTransmissionAtATime`, `AnswersMeetTheirQuestions`,
`DialogsAreLive` and `StatusLineIsTrue` for any number of transmissions and of overlapping
polls. All but the first follow from one invariant, `Window`. A transmission leaves traces
at many places at once: in the progress queue, in a poll that is on its way back, in the
dialog, in a click, in the answer queue. `Window` says that a question is at no more than
one of them (`Single`, `Question`), that an event on its way tells where the transmission
under way still is (`News`), and that no other has a thread at work or a call whose return
decides (`Busy`, `Awaited`). So no order of the polls can give a second start or a stale
answer.

`GuiProofs` also proves `StatisticsHold`, `Spec => []StatisticsAddUp`. The property speaks of
a bridge without a thread at work; its invariant `Books` says how far counters and history
are apart while one works. `Sums`: each of the two numbers lags by what that thread has not
yet counted or listed. `Ids`: the id under which it will be listed, the count of that moment,
is not taken, and a success after which the call may still raise has the last one. That only one
thread is at work, which no lock of the bridge gives, is `Busy` of `Window`: the statistics are
right because the front end starts one transmission at a time.

`StreamProofs` proves, for every length of payload, header, chunk and key buffer:

* `TypeCorrect`: with `WellFormed` (a generator gives what it made; no chunk is empty),
  without which the head of a chunk need not exist.
* `KeysStayAligned` and `BodyIsBeginning`: `Spec => []KeysAligned` and
  `Spec => []BodyIsPrefix`. Both follow from one invariant, `StreamInv`. Its part
  `InOrder` says that the bytes are numbered without a gap along the way: decrypted,
  then received, then on the wire, then in the sender's chunk; and that each generator
  is at the byte its side is at. `Consecutive` says it of a sequence of chunks by
  neighbours only, so that no sum of lengths is needed; three lemmas say that a chunk
  can be put at the end, taken from the front, and put back without its first byte.
  `Ended` adds what holds at the end: `__END__` comes after the last byte, and nothing is
  on the wire while the receiver decrypts.
* `AnnouncedIsKept` and `UpdatesStayBounded`: `Spec => []AnnouncedIsSent` and `Spec =>
  []UpdatesBounded`, from `Counted`: the chunks sent account for the bytes encrypted, and
  the events but two for `Step` chunks each.

`FramingProofs` proves, for any items and any length of the prefix, `TypeCorrect`,
`FramesAreWhole` (`Spec => []WholeFrames`) and `FramingIsFifo` (`Spec => FifoSpec`). The bytes
in the connection are a `Chain`: each is the one that comes after that in front of it, said
of all pairs so that no induction is needed. `Whole` says that what was sent and not read is
a chain from the byte that `recvExact` needs next to the first of the item not yet sent
(`Flows`), and that what it has is the start of what it reads (`Collected`). So every
read takes bytes of one item only, the prefix gives the length of that item, and at the end of
the connection nothing whole is left (`AllIsTaken`).

The proofs rest on the assumptions of the modules on their constants, which TLC
evaluates in every run. Every invariant, action property and refinement of the passing
runs is a theorem. Model-checked only: the liveness properties `RunEnds`, `ConnectionEnds`,
`WordsOnScreen`, `PayloadOnScreen`, `QuestionIsShown`, `WindowIsFreed` and `ReceiverReturns`,
because the provers handle neither fairness nor `ENABLED`.

## Not modelled

Left out for good: printing (`terminal_ui.py`, and `TerminalCallbacks`, which prints on the
server's own thread), the monitor tab and the pipeline panel of the window, HTML and CSS,
the algorithms inside the `cryptography` library, loading of the config file. A
`maxChunkSize` that is not positive is excluded by `StreamAssumption`: the program
divides by it.
