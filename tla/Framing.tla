------------------------------- MODULE Framing --------------------------------
(***************************************************************************)
(* src/communication/framing.py over one direction of a TCP connection:    *)
(* the sender's items become bytes, the kernel hands them over in pieces   *)
(* of any size, and recvExact puts them together again.  An item is a      *)
(* frame, with its length in front, or the one raw confirmation byte.      *)
(***************************************************************************)
EXTENDS Integers, Sequences

CONSTANTS
    Lengths,   \* payload length of each item the sender sends, in order
    Raw,       \* the items that are sent, and read, without a length
    PrefixLen  \* bytes of the length: 4 in the code

ASSUME FramingAssumption ==
    /\ Lengths \in Seq(Nat)
    /\ Raw \subseteq {i \in DOMAIN Lengths : Lengths[i] = 1}
    /\ PrefixLen \in Nat \ {0}

VARIABLES
    sent,    \* items given to sendall
    out,     \* bytes of the last one that the kernel has not taken
    pipe,    \* bytes taken and not read
    closed,  \* the sender's end is closed
    reset,   \* and was closed on something unread, or by a crash
    phase,   \* what recvExact reads, or how the last call ended
    need,    \* its numBytes
    data,    \* its data
    frames   \* payloads returned to the receiver

vars == <<sent, out, pipe, closed, reset, phase, need, data, frames>>

Size == Len(Lengths)

\* The bytes of an item, each known by its item and its place in it; the length
\* is in front of the payload.
Byte(i, place) == [item |-> i, place |-> place]
Payload(i) == [k \in 1..Lengths[i] |-> Byte(i, k)]
Prefix(i) == [k \in 1..PrefixLen |-> Byte(i, k - PrefixLen)]
Wire(i) == IF i \in Raw THEN Payload(i) ELSE Prefix(i) \o Payload(i)

\* All items were read, the end was seen, or recv raised.
Ended == {"done", "end", "raised"}

Bytes == [item : 1..Size, place : Int]

TypeOK ==
    /\ sent \in 0..Size
    /\ out \in Seq(Bytes)
    /\ pipe \in Seq(Bytes)
    /\ closed \in BOOLEAN
    /\ reset \in BOOLEAN
    /\ phase \in {"length", "payload"} \cup Ended
    /\ need \in Nat
    /\ data \in Seq(Bytes) /\ (phase \notin Ended => Len(data) <= need)
    /\ frames \in Seq(Seq(Bytes))

\* The next item the receiver asks for: a bare byte (recvExact) or a frame.
Asks(i) ==
    IF i \in Raw THEN phase' = "payload" /\ need' = 1
    ELSE phase' = "length" /\ need' = PrefixLen

Init ==
    /\ sent = 0
    /\ out = <<>>
    /\ pipe = <<>>
    /\ closed = FALSE
    /\ reset = FALSE
    /\ phase = IF 1 \in Raw THEN "payload" ELSE "length"
    /\ need = IF 1 \in Raw THEN 1 ELSE PrefixLen
    /\ data = <<>>
    /\ frames = <<>>

receiver == <<phase, need, data, frames>>

-------------------------------------------------------------------------------
(* The sender                                                               *)

\* sendall returns when the kernel has taken every byte.
SendItem ==
    /\ ~closed
    /\ out = <<>>
    /\ sent < Size
    /\ sent' = sent + 1
    /\ out' = Wire(sent + 1)
    /\ UNCHANGED <<pipe, closed, reset, receiver>>

KernelTakes(n) ==
    /\ ~closed
    /\ n <= Len(out)
    /\ pipe' = pipe \o SubSeq(out, 1, n)
    /\ out' = SubSeq(out, n + 1, Len(out))
    /\ UNCHANGED <<sent, closed, reset, receiver>>

\* At the end, or in the middle of an item when the sender fails.
SenderCloses ==
    /\ ~closed
    /\ closed' = TRUE
    /\ reset' \in BOOLEAN
    /\ UNCHANGED <<sent, out, pipe, receiver>>

-------------------------------------------------------------------------------
(* The receiver                                                             *)

\* Mutant: recv is asked for numBytes again and not for the bytes still missing.
MissingAll == need

Missing == need - Len(data)

\* recvExact calls recv.
Reading == phase \notin Ended /\ Len(data) < need

\* One recv of the loop returns n bytes, no more than are missing.
Recv(n) ==
    /\ Reading
    /\ n <= Missing
    /\ n <= Len(pipe)
    /\ data' = data \o SubSeq(pipe, 1, n)
    /\ pipe' = SubSeq(pipe, n + 1, Len(pipe))
    /\ UNCHANGED <<sent, out, closed, reset, phase, need, frames>>

\* Mutant: what one recv returned is taken for the whole.
HasSome == data # <<>> \/ need = 0

\* The loop of recvExact ends when nothing is missing; of an empty payload
\* nothing ever is.
HasAll == Len(data) >= need

\* struct.unpack gives the length of the frame whose prefix was read, and some
\* number when the bytes are not a prefix.
LengthsIn(bytes) ==
    LET whole == {i \in 1..Size : bytes = Prefix(i)} IN
    IF whole # {} THEN {Lengths[i] : i \in whole} ELSE 0..PrefixLen

LengthRead ==
    /\ phase = "length"
    /\ HasAll
    /\ phase' = "payload"
    /\ need' \in LengthsIn(data)
    /\ data' = <<>>
    /\ UNCHANGED <<sent, out, pipe, closed, reset, frames>>

\* recvFramed, or recvExact for the raw byte, returns to the receiver.  It asks
\* for as many items as the sender sends.
FrameRead ==
    /\ phase = "payload"
    /\ HasAll
    /\ frames' = Append(frames, data)
    /\ data' = <<>>
    /\ IF Len(frames) + 1 < Size THEN Asks(Len(frames) + 2)
       ELSE phase' = "done" /\ need' = 0
    /\ UNCHANGED <<sent, out, pipe, closed, reset>>

\* Mutants: an empty recv is tried again; an item broken off is not waited for.
EofRetried == FALSE
EofEarly   == closed

AtEof == pipe = <<>> /\ closed

\* recv returned nothing: None, whatever has come so far.
Eof ==
    /\ Reading
    /\ AtEof
    /\ phase' = "end"
    /\ UNCHANGED <<sent, out, pipe, closed, reset, need, data, frames>>

\* Nothing came for timeoutSeconds; or the connection was reset, whatever is
\* still unread.
RecvRaises ==
    /\ Reading
    /\ reset \/ (pipe = <<>> /\ ~closed)
    /\ phase' = "raised"
    /\ UNCHANGED <<sent, out, pipe, closed, reset, need, data, frames>>

-------------------------------------------------------------------------------

Sender == SendItem \/ (\E n \in 1..Len(out) : KernelTakes(n)) \/ SenderCloses
Receiver == (\E n \in 1..Len(pipe) : Recv(n)) \/ LengthRead \/ FrameRead \/ Eof \/ RecvRaises

Next == Sender \/ Receiver

Spec == Init /\ [][Next]_vars

\* recv has a time-out, so the receiver goes on whatever the sender does.
FairSpec == Spec /\ WF_vars(Receiver)

-------------------------------------------------------------------------------

\* Every payload returned is the whole payload of the item in its place: nothing
\* of its neighbours, and nothing cut short by the pieces the bytes came in or by
\* the end of the connection (framing.py:8-24).
WholeFrames == \A i \in 1..Len(frames) : i <= sent /\ frames[i] = Payload(i)

\* Framing implements the FIFO of whole items that module Transport assumes: in
\* order, none skipped, and the end is reported after the last whole item and not
\* before (framing.py:8-29).
Fifo == INSTANCE FrameFifo WITH
    put <- IF closed /\ out # <<>> THEN sent - 1 ELSE sent,
    took <- Len(frames),
    ending <- CASE phase = "end" -> "end"
                [] phase = "raised" -> "failed"
                [] OTHER -> "none"
FifoSpec == Fifo!Spec

\* The receiver is not left waiting by a sender that sends part of an item, or
\* nothing, or goes away (framing.py:11-14, server.py:84).
ReceiverReturns == <>(phase \in Ended)
===============================================================================
