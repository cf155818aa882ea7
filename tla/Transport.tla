------------------------------ MODULE Transport ------------------------------
(***************************************************************************)
(* The TCP connections between the sender's runs and the receiver, as the  *)
(* program uses them through src/communication/framing.py.                 *)
(*                                                                         *)
(* One run is one call of runClient and opens one connection.  Each        *)
(* direction is a FIFO of whole items: a length-prefixed frame (sendFramed *)
(* / recvFramed), or the single raw confirmation byte.  TCP neither loses  *)
(* nor reorders what a live connection carries, so a failure is one of:    *)
(*   - the peer closed and everything it sent was read (end of file),      *)
(*   - a socket was closed on unread items (the other side gets a reset),  *)
(*   - nothing arrived, or nothing was drained, for timeoutSeconds.        *)
(***************************************************************************)
EXTENDS Naturals, Sequences

CONSTANTS
    Runs,      \* the calls of runClient
    NoRun,     \* stands for "no connection"
    Chunks,    \* ciphertext frames of one payload
    Backlog,   \* connections the kernel queues for accept()
    Damaged    \* <<run, part>> pairs whose signed or sealed part arrives altered

ASSUME TransportAssumption ==
    /\ NoRun \notin Runs
    /\ Chunks \in Nat \ {0}
    /\ Backlog \in Nat \ {0}
    /\ Damaged \subseteq Runs \X {"hello", "reply", "vault"}

VARIABLES
    listening, \* the receiver's listening socket is open
    backlog,   \* runs connected and not accepted yet, oldest first
    c2s, s2c,  \* items sent and not read yet, per run and direction
    cOpen,     \* the sender's end of the run's connection is open
    sOpen      \* the receiver's end is open (from the moment it is queued)

net == <<listening, backlog, c2s, s2c, cOpen, sOpen>>

Kinds == {"identity", "x25519", "signature", "approve", "reject", "vault", "chunk", "end"}
Items == [kind : Kinds, n : Nat, intact : BOOLEAN]

\* n is the chunk's number in a chunk, the receiver's key in its identity
\* frame, and 0 elsewhere.
Item(kind, n) == [kind |-> kind, n |-> n, intact |-> TRUE]

\* A signature or a sealed seed, as the other end reads it.  Behind the seed in its
\* frame is the nonce of the keystream, which no tag covers: it comes as it was sent.
Guarded(c, part, kind) ==
    [kind |-> kind, n |-> 0, intact |-> <<c, part>> \notin Damaged]

TransportTypeOK ==
    /\ listening \in BOOLEAN
    /\ backlog \in Seq(Runs)
    /\ c2s \in [Runs -> Seq(Items)]
    /\ s2c \in [Runs -> Seq(Items)]
    /\ cOpen \in [Runs -> BOOLEAN]
    /\ sOpen \in [Runs -> BOOLEAN]

TransportInit ==
    /\ listening = FALSE
    /\ backlog = <<>>
    /\ c2s = [c \in Runs |-> <<>>]
    /\ s2c = [c \in Runs |-> <<>>]
    /\ cOpen = [c \in Runs |-> FALSE]
    /\ sOpen = [c \in Runs |-> FALSE]

\* connect(): the kernel completes the handshake when the queue has room.
CanConnect == listening /\ Len(backlog) < Backlog

\* sendall(): the bytes enter the connection even when the peer has closed.
ClientPuts(c, item) ==
    /\ c2s' = [c2s EXCEPT ![c] = Append(@, item)]
    /\ UNCHANGED <<listening, backlog, s2c, sOpen>>

ServerPuts(c, item) ==
    /\ s2c' = [s2c EXCEPT ![c] = Append(@, item)]
    /\ UNCHANGED <<listening, backlog, c2s, cOpen, sOpen>>

\* recvExact() once all the bytes of the item are there.
ClientTakes(c) ==
    /\ s2c[c] # <<>>
    /\ s2c' = [s2c EXCEPT ![c] = Tail(@)]
    /\ UNCHANGED <<listening, backlog, c2s, cOpen, sOpen>>

ServerTakes(c) ==
    /\ c2s[c] # <<>>
    /\ c2s' = [c2s EXCEPT ![c] = Tail(@)]
    /\ UNCHANGED <<listening, backlog, s2c, cOpen, sOpen>>

\* Mutant: recvExact reads on after an empty recv.
ClientRecvOnlyTimesOut(c) == s2c[c] = <<>> /\ sOpen[c]

\* recv() of the sender raises or returns no bytes: time-out, end of file, reset.
ClientRecvCanFail(c) == s2c[c] = <<>> \/ (~sOpen[c] /\ c2s[c] # <<>>)

\* sendall() of the sender raises: the receiver is gone or does not drain.
ClientSendCanFail(c) == c2s[c] # <<>>

\* Mutants: no conn.settimeout; a socket that gives nothing counts as closed.
ServerHasPatience(c) == FALSE
ServerSilence(c)     == c2s[c] = <<>>

\* The three ways a recv() of the receiver gives no item.
ServerTimesOut(c) == c2s[c] = <<>> /\ cOpen[c]
ServerAtEof(c)    == c2s[c] = <<>> /\ ~cOpen[c]
ServerReset(c)    == ~cOpen[c] /\ s2c[c] # <<>>
==============================================================================
