-------------------------------- MODULE Stream --------------------------------
(***************************************************************************)
(* One payload on its way through packPayload, the two keystreams, the     *)
(* chunks and unpackPayload (client.py:124-149, server.py:167-202,         *)
(* payload_formatter.py, stream_cipher.py, csprng.py).                     *)
(*                                                                         *)
(* A byte is known by its place in the packed payload, a key byte by its   *)
(* place in the keystream, which both ends derive from one seed and one    *)
(* nonce.  A cipher byte opens only with the key byte that closed it.      *)
(***************************************************************************)
EXTENDS Integers, Sequences

CONSTANTS
    BufferLen,  \* key bytes made at once: 4096
    ChunkSize,  \* crypto.maxChunkSize of the sender
    PrefixLen,  \* bytes of the header's length: 4
    HeaderLen,  \* bytes of the JSON header
    BodyLen,    \* bytes of the text or file
    Updates     \* progress updates aimed at: 200

ASSUME StreamAssumption ==
    /\ BufferLen \in Nat \ {0}
    /\ ChunkSize \in Nat \ {0}
    /\ PrefixLen \in Nat \ {0}
    /\ HeaderLen \in Nat
    /\ BodyLen \in Nat
    /\ Updates \in Nat \ {0}

VARIABLES
    encrypted,  \* bytes the sender has encrypted
    sGen, rGen, \* the two generators
    chunk,      \* the chunk encryptStream is making
    wire,       \* chunks sent and not received
    sentChunks,
    shown,      \* "sent" of the last progress event
    updates,    \* progress events so far
    sEnd,       \* none, __END__ was sent, or the sender failed
    rPc,        \* receiving, decrypting, or over
    received,   \* chunks received and not decrypted
    plain,      \* bytes decrypted
    outcome,    \* what unpackPayload gave: none, error, delivered
    body        \* the bytes it gave

progress == <<sentChunks, shown, updates>>
sender == <<encrypted, sGen, chunk, progress, sEnd>>
receiver == <<rGen, rPc, received, plain, outcome, body>>
vars == <<sender, wire, receiver>>

Total == PrefixLen + HeaderLen + BodyLen
CipherBytes == [plain : 1..Total, key : Nat \ {0}]
Generators == [made : Nat, left : 0..BufferLen]

Garbled == 0

TypeOK ==
    /\ encrypted \in 0..Total
    /\ sGen \in Generators /\ rGen \in Generators
    /\ chunk \in Seq(CipherBytes)
    /\ wire \in Seq(Seq(CipherBytes))
    /\ sentChunks \in Nat
    /\ shown \in Nat
    /\ updates \in Nat
    /\ sEnd \in {"none", "ended", "failed"}
    /\ rPc \in {"receiving", "decrypting", "over"}
    /\ received \in Seq(Seq(CipherBytes))
    /\ plain \in Seq(0..Total)
    /\ outcome \in {"none", "error", "delivered"}
    /\ body \in Seq(0..Total)

-------------------------------------------------------------------------------
(* CsprngGenerator                                                          *)

NewGenerator == [made |-> 0, left |-> 0]

\* getNextByte makes BufferLen bytes when none is left, and takes the oldest.
NextKey(g) == g.made - g.left + 1
Advance(g) ==
    IF g.left = 0 THEN [made |-> g.made + BufferLen, left |-> BufferLen - 1]
    ELSE [g EXCEPT !.left = @ - 1]

Init ==
    /\ encrypted = 0
    /\ sGen = NewGenerator
    /\ rGen = NewGenerator
    /\ chunk = <<>>
    /\ wire = <<>>
    /\ sentChunks = 0
    /\ shown = 0
    /\ updates = 0
    /\ sEnd = "none"
    /\ rPc = "receiving"
    /\ received = <<>>
    /\ plain = <<>>
    /\ outcome = "none"
    /\ body = <<>>

-------------------------------------------------------------------------------
(* The sender                                                               *)

\* The ceiling, by the floor of the negated number; and the step of progress.
Announced == -((-Total) \div ChunkSize)
Step == IF Announced \div Updates > 1 THEN Announced \div Updates ELSE 1

\* Mutant: one byte too many.
MorePast == encrypted <= Total

More == encrypted < Total

EncryptByte ==
    /\ sEnd = "none"
    /\ More
    /\ Len(chunk) < ChunkSize
    /\ chunk' = Append(chunk, [plain |-> encrypted + 1, key |-> NextKey(sGen)])
    /\ sGen' = Advance(sGen)
    /\ encrypted' = encrypted + 1
    /\ UNCHANGED <<progress, sEnd, wire, receiver>>

\* Mutant: every chunk has an event.
ReportedAll(i) == i < Announced

\* Whether the i-th chunk, counted from 0, is reported.
Reported(i) == i % Step = 0 \/ i = Announced - 1

\* encryptStream yields the chunk and it is sent at once.
SendChunk ==
    /\ sEnd = "none"
    /\ chunk # <<>>
    /\ Len(chunk) = ChunkSize \/ encrypted = Total
    /\ wire' = Append(wire, chunk)
    /\ chunk' = <<>>
    /\ sentChunks' = sentChunks + 1
    /\ IF Reported(sentChunks) THEN shown' = sentChunks + 1 /\ updates' = updates + 1
       ELSE UNCHANGED <<shown, updates>>
    /\ UNCHANGED <<encrypted, sGen, sEnd, receiver>>

\* Mutant: the end is sent when the data is encrypted, before the last chunk.
Encrypted == encrypted = Total

AllSent == encrypted = Total /\ chunk = <<>>

SendEnd ==
    /\ sEnd = "none"
    /\ AllSent
    /\ sEnd' = "ended"
    /\ UNCHANGED <<encrypted, sGen, chunk, progress, wire, receiver>>

SenderFails ==
    /\ sEnd = "none"
    /\ sEnd' = "failed"
    /\ UNCHANGED <<encrypted, sGen, chunk, progress, wire, receiver>>

-------------------------------------------------------------------------------
(* The receiver                                                             *)

\* Mutant: the chunks are collected the other way round.
CollectFront == <<Head(wire)>> \o received

Collect == Append(received, Head(wire))

RecvChunk ==
    /\ rPc = "receiving"
    /\ wire # <<>>
    /\ received' = Collect
    /\ wire' = Tail(wire)
    /\ UNCHANGED <<sender, rGen, rPc, plain, outcome, body>>

\* __END__, or the end of the connection, which is taken for it.
StreamEnds ==
    /\ rPc = "receiving"
    /\ wire = <<>>
    /\ sEnd # "none"
    /\ rPc' = "decrypting"
    /\ UNCHANGED <<sender, wire, rGen, received, plain, outcome, body>>

\* A time-out or a reset: nothing is decrypted.
RecvFails ==
    /\ rPc = "receiving"
    /\ rPc' = "over"
    /\ UNCHANGED <<sender, wire, rGen, received, plain, outcome, body>>

\* decrypt takes the bytes of one chunk after the other, whatever their sizes.
DecryptByte ==
    /\ rPc = "decrypting"
    /\ received # <<>>
    /\ LET c == Head(Head(received)) IN
       plain' = Append(plain, IF c.key = NextKey(rGen) THEN c.plain ELSE Garbled)
    /\ rGen' = Advance(rGen)
    /\ received' = IF Len(Head(received)) = 1 THEN Tail(received)
                   ELSE <<Tail(Head(received))>> \o Tail(received)
    /\ UNCHANGED <<sender, wire, rPc, outcome, body>>

\* What the length bytes say, when they came through; else any number.
HeaderLens ==
    IF \A i \in 1..PrefixLen : i <= Len(plain) /\ plain[i] = i THEN {HeaderLen} ELSE 0..Total

UnpackRaises ==
    /\ rPc = "decrypting"
    /\ received = <<>>
    /\ \/ Len(plain) < PrefixLen
       \/ \E n \in HeaderLens : Len(plain) < PrefixLen + n
    /\ rPc' = "over"
    /\ outcome' = "error"
    /\ UNCHANGED <<sender, wire, rGen, received, plain, body>>

\* Mutant: the header is cut off and its length bytes are not.
DataShifted(n) == SubSeq(plain, n + 1, Len(plain))

\* What follows a header of n bytes.
Data(n) == SubSeq(plain, PrefixLen + n + 1, Len(plain))

Unpack ==
    /\ rPc = "decrypting"
    /\ received = <<>>
    /\ Len(plain) >= PrefixLen
    /\ \E n \in HeaderLens : Len(plain) >= PrefixLen + n /\ body' = Data(n)
    /\ rPc' = "over"
    /\ outcome' = "delivered"
    /\ UNCHANGED <<sender, wire, rGen, received, plain>>

-------------------------------------------------------------------------------

Next ==
    \/ EncryptByte \/ SendChunk \/ SendEnd \/ SenderFails
    \/ RecvChunk \/ StreamEnds \/ RecvFails \/ DecryptByte \/ UnpackRaises \/ Unpack

Spec == Init /\ [][Next]_vars

-------------------------------------------------------------------------------

\* The receiver opens each byte with the key byte that closed it, in order,
\* although the buffers of the generators run out in the middle of chunks and the
\* receiver's own chunk size plays no part (csprng.py:34-40, stream_cipher.py:25-50).
KeysAligned == \A i \in 1..Len(plain) : plain[i] = i

\* The number of chunks announced before the stream is the number that is sent,
\* and the last progress event says so (client.py:131-142).
AnnouncedIsSent == sEnd = "ended" => sentChunks = Announced /\ shown = Announced

\* The events stay within twice the number aimed at, which is what the floor of the
\* step leaves of the comment on it; see UpdatesAsSaid (client.py:133, 140).
UpdatesBounded == updates <= 2 * Updates

\* What is handed over is the beginning of the body: all of it once __END__ was
\* sent, and nothing while the header is not whole (payload_formatter.py:19-37).
BodyIsPrefix ==
    /\ outcome = "delivered" =>
        /\ Len(body) = Len(plain) - PrefixLen - HeaderLen
        /\ \A i \in 1..Len(body) : body[i] = PrefixLen + HeaderLen + i
        /\ sEnd = "ended" => Len(body) = BodyLen
    /\ outcome = "error" => sEnd = "failed" /\ Len(plain) < PrefixLen + HeaderLen

-------------------------------------------------------------------------------
(* What the repository says and the program does not do                     *)

\* "~200 UI updates max" (client.py:133), with a tenth allowed for the "~".
UpdatesAsSaid == updates <= Updates + Updates \div 10
===============================================================================
