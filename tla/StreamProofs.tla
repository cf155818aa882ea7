----------------------------- MODULE StreamProofs ------------------------------
(***************************************************************************)
(* Proofs about module Stream, for every payload, chunk size and buffer.   *)
(***************************************************************************)
EXTENDS Stream, SequenceTheorems, TLAPS

-------------------------------------------------------------------------------
(* Types                                                                    *)

LEMMA KeyType ==
    ASSUME NEW g \in Generators, g.left <= g.made
    PROVE  /\ NextKey(g) \in Nat \ {0}
           /\ Advance(g) \in Generators
           /\ Advance(g).left <= Advance(g).made
           /\ NextKey(Advance(g)) = NextKey(g) + 1
BY StreamAssumption DEF Generators, NextKey, Advance

\* A sequence of chunks, none of them empty.
Chunks(q) == q \in Seq(Seq(CipherBytes)) /\ \A i \in 1..Len(q) : q[i] # <<>>

LEMMA TailNonEmpty ==
    ASSUME NEW S, NEW c \in Seq(S), c # <<>>, Len(c) # 1
    PROVE  Tail(c) \in Seq(S) /\ Tail(c) # <<>>
<1>1. Len(c) \in Nat \ {0}
  BY EmptySeq
<1>2. Tail(c) \in Seq(S) /\ Len(Tail(c)) = Len(c) - 1
  BY <1>1
<1>3. Len(Tail(c)) # 0
  BY <1>1, <1>2
<1>4. Tail(c) # <<>>
  <2> SUFFICES ASSUME Tail(c) = <<>>
               PROVE  FALSE
    OBVIOUS
  <2>1. Len(<<>>) = 0
    OBVIOUS
  <2>2. QED
    BY <1>3, <2>1, Zenon
<1>5. QED
  BY <1>2, <1>4

LEMMA ChunksAppend ==
    ASSUME NEW q, Chunks(q), NEW c \in Seq(CipherBytes), c # <<>>
    PROVE  Chunks(Append(q, c))
BY DEF Chunks

LEMMA ChunksTail ==
    ASSUME NEW q, Chunks(q), q # <<>>
    PROVE  /\ Head(q) \in Seq(CipherBytes) /\ Head(q) # <<>>
           /\ Chunks(Tail(q))
BY DEF Chunks

LEMMA ChunksCons ==
    ASSUME NEW q, Chunks(q), NEW c \in Seq(CipherBytes), c # <<>>
    PROVE  Chunks(<<c>> \o q)
<1>1. <<c>> \in Seq(Seq(CipherBytes)) /\ Len(<<c>>) = 1 /\ <<c>>[1] = c
  OBVIOUS
<1>2. <<c>> \o q \in Seq(Seq(CipherBytes)) /\ Len(<<c>> \o q) = 1 + Len(q)
  BY <1>1 DEF Chunks
<1>3. ASSUME NEW i \in 1..Len(<<c>> \o q)
      PROVE  (<<c>> \o q)[i] # <<>>
  <2>1. CASE i = 1
    BY <1>1, <2>1 DEF Chunks
  <2>2. CASE i # 1
    <3>1. i - 1 \in 1..Len(q) /\ (<<c>> \o q)[i] = q[i - 1]
      BY <1>1, <1>2, <2>2 DEF Chunks
    <3>2. QED
      BY <3>1 DEF Chunks
  <2>3. QED
    BY <2>1, <2>2
<1>4. QED
  BY <1>2, <1>3 DEF Chunks

LEMMA SuffixType ==
    ASSUME NEW S, NEW s \in Seq(S), NEW k \in Nat \ {0}
    PROVE  SubSeq(s, k, Len(s)) \in Seq(S)
<1>1. Len(s) \in Nat /\ \A i \in k..Len(s) : s[i] \in S
  OBVIOUS
<1>2. QED
  BY <1>1, SubSeqProperties

\* What types leave open: a generator gives away what it made, and no chunk that
\* is sent is empty.
WellFormed ==
    /\ sGen.left <= sGen.made
    /\ rGen.left <= rGen.made
    /\ Chunks(received)
    /\ Chunks(wire)

LEMMA WellTypedStep ==
    ASSUME TypeOK, WellFormed, [Next]_vars
    PROVE  TypeOK' /\ WellFormed'
<1> USE StreamAssumption DEF Total, TypeOK
<1>1. CASE EncryptByte
  <2>1. [plain |-> encrypted + 1, key |-> NextKey(sGen)] \in CipherBytes
    BY <1>1, KeyType DEF EncryptByte, More, WellFormed, CipherBytes
  <2>2. sGen' \in Generators /\ sGen'.left <= sGen'.made
    BY <1>1, KeyType DEF EncryptByte, More, WellFormed
  <2>3. chunk' \in Seq(CipherBytes) /\ encrypted' \in 0..(PrefixLen + HeaderLen + BodyLen)
    BY <1>1, <2>1 DEF EncryptByte, More
  <2>4. UNCHANGED <<sentChunks, shown, updates, sEnd, wire, receiver>>
    BY <1>1 DEF EncryptByte, More, progress
  <2>5. TypeOK'
    BY <2>2, <2>3, <2>4 DEF receiver
  <2>6. QED
    BY <2>2, <2>4, <2>5 DEF receiver, WellFormed
<1>2. CASE SendChunk
  <2>1. Chunks(wire')
    BY <1>2, ChunksAppend DEF SendChunk, WellFormed
  <2>2. sentChunks' \in Nat /\ shown' \in Nat /\ updates' \in Nat
    BY <1>2 DEF SendChunk
  <2>3. QED
    BY <1>2, <2>1, <2>2 DEF SendChunk, receiver, WellFormed, Chunks
<1>3. CASE SendEnd \/ SenderFails
  BY <1>3 DEF SendEnd, AllSent, progress, SenderFails, receiver, WellFormed
<1>4. CASE RecvChunk
  <2>1. Chunks(received') /\ Chunks(wire')
    BY <1>4, ChunksAppend, ChunksTail DEF RecvChunk, Collect, WellFormed
  <2>2. QED
    BY <1>4, <2>1 DEF RecvChunk, Collect, sender, progress, WellFormed, Chunks
<1>5. CASE StreamEnds \/ RecvFails
  BY <1>5 DEF StreamEnds, RecvFails, sender, progress, WellFormed
<1>6. CASE DecryptByte
  <2>1. Head(received) \in Seq(CipherBytes) /\ Head(received) # <<>> /\ Chunks(Tail(received))
    BY <1>6, ChunksTail DEF DecryptByte, WellFormed
  <2>2. Head(Head(received)) \in CipherBytes
    BY <2>1
  <2>3. plain' \in Seq(0..(PrefixLen + HeaderLen + BodyLen))
    BY <1>6, <2>2 DEF DecryptByte, CipherBytes, Garbled
  <2>4. rGen' \in Generators /\ rGen'.left <= rGen'.made
    BY <1>6, KeyType DEF DecryptByte, WellFormed
  <2>5. Chunks(received')
    <3>1. CASE Len(Head(received)) = 1
      BY <1>6, <2>1, <3>1 DEF DecryptByte
    <3>2. CASE Len(Head(received)) # 1
      <4>1. Tail(Head(received)) \in Seq(CipherBytes) /\ Tail(Head(received)) # <<>>
        BY <2>1, <3>2, TailNonEmpty
      <4>2. QED
        BY <1>6, <2>1, <3>2, <4>1, ChunksCons DEF DecryptByte
    <3>3. QED
      BY <3>1, <3>2
  <2>6. QED
    BY <1>6, <2>3, <2>4, <2>5 DEF DecryptByte, sender, progress, WellFormed, Chunks
<1>7. CASE UnpackRaises
  BY <1>7 DEF UnpackRaises, sender, progress, WellFormed
<1>8. CASE Unpack
  <2>1. PICK n \in HeaderLens : /\ Len(plain) >= PrefixLen + n
                                /\ body' = SubSeq(plain, PrefixLen + n + 1, Len(plain))
    BY <1>8 DEF Unpack, Data
  <2>2. n \in Nat
    BY DEF HeaderLens
  <2>3. body' \in Seq(0..(PrefixLen + HeaderLen + BodyLen))
    <3>1. plain \in Seq(0..Total) /\ PrefixLen + n + 1 \in Nat \ {0}
      BY <2>2
    <3>2. SubSeq(plain, PrefixLen + n + 1, Len(plain)) \in Seq(0..Total)
      BY ONLY <3>1, SuffixType
    <3>3. QED
      BY <2>1, <3>2
  <2>4. QED
    BY <1>8, <2>3 DEF Unpack, Data, sender, progress, WellFormed
<1>9. CASE UNCHANGED vars
  BY <1>9 DEF vars, sender, progress, receiver, WellFormed
<1>10. QED
  BY <1>1, <1>2, <1>3, <1>4, <1>5, <1>6, <1>7, <1>8, <1>9 DEF Next

\* Every state of a stream has the types of the code's state, whatever the
\* payload and the sizes.
THEOREM TypeCorrect == Spec => []TypeOK
<1>1. Init => TypeOK /\ WellFormed
  BY StreamAssumption DEF Init, TypeOK, WellFormed, Chunks, NewGenerator, Generators, Total
<1>2. QED
  BY <1>1, WellTypedStep, PTL DEF Spec

-------------------------------------------------------------------------------
(* The order of bytes                                                       *)

\* Byte n of the payload, closed with byte n of the keystream.
At(n) == [plain |-> n, key |-> n]

Numbered(c, n) == \A j \in 1..Len(c) : c[j] = At(n + j - 1)

First(c) == c[1].plain

\* The chunks of q hold the bytes from a to b, each once and in order.
Consecutive(q, a, b) ==
    /\ Len(q) = 0 => a = b + 1
    /\ Len(q) # 0 => /\ First(q[1]) = a
                     /\ First(q[Len(q)]) + Len(q[Len(q)]) = b + 1
    /\ \A i \in 1..Len(q) : Numbered(q[i], First(q[i]))
    /\ \A i \in 1..(Len(q) - 1) : First(q[i + 1]) = First(q[i]) + Len(q[i])

\* A chunk that is not empty has a first byte.
LEMMA FirstType ==
    ASSUME NEW c \in Seq(CipherBytes), c # <<>>
    PROVE  Len(c) \in Nat \ {0} /\ First(c) \in Nat
<1>1. Len(c) \in Nat \ {0}
  BY EmptySeq
<1>2. c[1] \in CipherBytes
  BY <1>1
<1>3. QED
  BY <1>1, <1>2, StreamAssumption DEF First, CipherBytes, Total

LEMMA NumberedFirst ==
    ASSUME NEW c \in Seq(CipherBytes), c # <<>>, NEW n \in Int, Numbered(c, n)
    PROVE  Len(c) \in Nat \ {0} /\ First(c) = n
<1>1. Len(c) \in Nat \ {0}
  BY FirstType
<1>2. 1 \in 1..Len(c) /\ n + 1 - 1 = n
  BY <1>1
<1>3. c[1] = At(n + 1 - 1)
  BY <1>2 DEF Numbered
<1>4. c[1] = [plain |-> n, key |-> n]
  BY <1>2, <1>3 DEF At
<1>5. QED
  BY <1>1, <1>4 DEF First

\* A chunk that goes on where the others end can be put at the end.
LEMMA ConsecutiveAppend ==
    ASSUME NEW q, Chunks(q), NEW a \in Int, NEW b \in Int, Consecutive(q, a, b),
           NEW c \in Seq(CipherBytes), c # <<>>, Numbered(c, b + 1)
    PROVE  Consecutive(Append(q, c), a, b + Len(c))
<1> DEFINE r == Append(q, c)
<1>1. /\ Len(q) \in Nat
      /\ Len(r) = Len(q) + 1
      /\ r[Len(r)] = c
      /\ \A i \in 1..Len(q) : r[i] = q[i]
  BY DEF Chunks
<1>2. Len(c) \in Nat \ {0} /\ First(c) = b + 1
  BY NumberedFirst
<1> HIDE DEF r
<1>3. First(r[1]) = a
  <2>1. CASE Len(q) = 0
    BY <1>1, <1>2, <2>1 DEF Consecutive
  <2>2. CASE Len(q) # 0
    BY <1>1, <2>2 DEF Consecutive
  <2>3. QED
    BY <2>1, <2>2
<1>4. First(r[Len(r)]) + Len(r[Len(r)]) = b + Len(c) + 1
  BY <1>1, <1>2
<1>5. \A i \in 1..Len(r) : Numbered(r[i], First(r[i]))
  BY <1>1, <1>2 DEF Consecutive
<1>6. ASSUME NEW i \in 1..(Len(r) - 1)
      PROVE  First(r[i + 1]) = First(r[i]) + Len(r[i])
  <2>1. CASE i = Len(q)
    BY <1>1, <1>2, <2>1 DEF Consecutive
  <2>2. CASE i # Len(q)
    <3>1. i \in 1..(Len(q) - 1) /\ r[i] = q[i] /\ r[i + 1] = q[i + 1]
      BY <1>1, <2>2
    <3>2. QED
      BY <3>1 DEF Consecutive
  <2>3. QED
    BY <2>1, <2>2
<1>7. Consecutive(r, a, b + Len(c))
  BY <1>1, <1>3, <1>4, <1>5, <1>6 DEF Consecutive
<1>8. QED
  BY <1>7 DEF r

\* The first chunk can be taken away.
LEMMA ConsecutiveTail ==
    ASSUME NEW q, Chunks(q), q # <<>>, NEW a \in Int, NEW b \in Int, Consecutive(q, a, b)
    PROVE  /\ Numbered(Head(q), a)
           /\ Consecutive(Tail(q), a + Len(Head(q)), b)
<1> DEFINE r == Tail(q)
<1>1. /\ Len(q) \in Nat \ {0}
      /\ Head(q) = q[1]
      /\ Len(r) = Len(q) - 1
      /\ \A i \in 1..Len(r) : r[i] = q[i + 1]
  BY EmptySeq, HeadTailProperties DEF Chunks
<1>2. Len(q[1]) \in Nat \ {0} /\ First(q[1]) = a
  BY <1>1, FirstType DEF Chunks, Consecutive
<1> HIDE DEF r
<1>3. Numbered(Head(q), a)
  BY <1>1, <1>2 DEF Consecutive
<1>4. Len(r) = 0 => a + Len(Head(q)) = b + 1
  <2> SUFFICES ASSUME Len(r) = 0
               PROVE  a + Len(Head(q)) = b + 1
    OBVIOUS
  <2>1. Len(q) = 1 /\ Len(q) # 0
    BY <1>1
  <2>2. First(q[1]) + Len(q[1]) = b + 1
    BY <2>1 DEF Consecutive
  <2>3. QED
    BY <1>1, <1>2, <2>2
<1>5. Len(r) # 0 => /\ First(r[1]) = a + Len(Head(q))
                    /\ First(r[Len(r)]) + Len(r[Len(r)]) = b + 1
  <2> SUFFICES ASSUME Len(r) # 0
               PROVE  /\ First(r[1]) = a + Len(Head(q))
                      /\ First(r[Len(r)]) + Len(r[Len(r)]) = b + 1
    OBVIOUS
  <2>1. r[1] = q[2] /\ r[Len(r)] = q[Len(q)] /\ 1 \in 1..(Len(q) - 1)
    BY <1>1
  <2>2. QED
    BY <1>1, <1>2, <2>1 DEF Consecutive
<1>6. \A i \in 1..Len(r) : Numbered(r[i], First(r[i]))
  BY <1>1 DEF Consecutive
<1>7. ASSUME NEW i \in 1..(Len(r) - 1)
      PROVE  First(r[i + 1]) = First(r[i]) + Len(r[i])
  <2>1. i + 1 \in 1..(Len(q) - 1) /\ r[i] = q[i + 1] /\ r[i + 1] = q[(i + 1) + 1]
    BY <1>1
  <2>2. QED
    BY <2>1 DEF Consecutive
<1>8. Consecutive(r, a + Len(Head(q)), b)
  BY <1>4, <1>5, <1>6, <1>7 DEF Consecutive
<1>9. QED
  BY <1>3, <1>8 DEF r

\* A chunk that ends where the others begin can be put in front.
LEMMA ConsecutiveCons ==
    ASSUME NEW q, Chunks(q), NEW a \in Int, NEW b \in Int,
           NEW c \in Seq(CipherBytes), c # <<>>, Numbered(c, a),
           Consecutive(q, a + Len(c), b)
    PROVE  Consecutive(<<c>> \o q, a, b)
<1> DEFINE r == <<c>> \o q
<1>1. /\ Len(q) \in Nat
      /\ Len(r) = Len(q) + 1
      /\ r[1] = c
      /\ \A i \in 1..Len(q) : r[i + 1] = q[i]
  <2>1. <<c>> \in Seq(Seq(CipherBytes)) /\ Len(<<c>>) = 1 /\ <<c>>[1] = c
    OBVIOUS
  <2>2. QED
    BY <2>1, ConcatProperties DEF Chunks
<1>2. Len(c) \in Nat \ {0} /\ First(c) = a
  BY NumberedFirst
<1> HIDE DEF r
<1>3. First(r[Len(r)]) + Len(r[Len(r)]) = b + 1
  <2>1. CASE Len(q) = 0
    BY <1>1, <1>2, <2>1 DEF Consecutive
  <2>2. CASE Len(q) # 0
    BY <1>1, <2>2 DEF Consecutive
  <2>3. QED
    BY <2>1, <2>2
<1>4. ASSUME NEW i \in 1..Len(r)
      PROVE  Numbered(r[i], First(r[i]))
  <2>1. CASE i = 1
    BY <1>1, <1>2, <2>1
  <2>2. CASE i # 1
    <3>1. i - 1 \in 1..Len(q) /\ r[i] = q[i - 1]
      BY <1>1, <2>2
    <3>2. QED
      BY <3>1 DEF Consecutive
  <2>3. QED
    BY <2>1, <2>2
<1>5. ASSUME NEW i \in 1..(Len(r) - 1)
      PROVE  First(r[i + 1]) = First(r[i]) + Len(r[i])
  <2>1. CASE i = 1
    BY <1>1, <1>2, <2>1 DEF Consecutive
  <2>2. CASE i # 1
    <3>1. i - 1 \in 1..(Len(q) - 1) /\ r[i] = q[i - 1] /\ r[i + 1] = q[(i - 1) + 1]
      BY <1>1, <2>2
    <3>2. QED
      BY <3>1 DEF Consecutive
  <2>3. QED
    BY <2>1, <2>2
<1>6. Consecutive(r, a, b)
  BY <1>1, <1>2, <1>3, <1>4, <1>5 DEF Consecutive
<1>7. QED
  BY <1>6 DEF r
-------------------------------------------------------------------------------
(* The invariant                                                            *)

\* Bytes are numbered without a gap from the receiver's output to the sender's
\* chunk, and each generator is at the byte its side is at.
InOrder ==
    /\ sGen.made - sGen.left = encrypted
    /\ rGen.made - rGen.left = Len(plain)
    /\ Numbered(chunk, encrypted - Len(chunk) + 1)
    /\ \E m \in Int : /\ Consecutive(received, Len(plain) + 1, m)
                      /\ Consecutive(wire, m + 1, encrypted - Len(chunk))

\* What each end knows of the other once it has stopped.
Ended ==
    /\ sEnd = "ended" => chunk = <<>> /\ encrypted = Total
    /\ rPc = "decrypting" => sEnd # "none" /\ wire = <<>>
    /\ outcome # "none" => rPc = "over" /\ sEnd # "none"

StreamInv == TypeOK /\ WellFormed /\ KeysAligned /\ InOrder /\ Ended /\ BodyIsPrefix

LEMMA NumberedAppend ==
    ASSUME NEW c \in Seq(CipherBytes), NEW n \in Int, Numbered(c, n),
           NEW x \in CipherBytes, x = At(n + Len(c))
    PROVE  Numbered(Append(c, x), n)
<1> DEFINE d == Append(c, x)
<1>1. /\ Len(c) \in Nat
      /\ Len(d) = Len(c) + 1
      /\ d[Len(c) + 1] = x
      /\ \A i \in 1..Len(c) : d[i] = c[i]
  OBVIOUS
<1> HIDE DEF d
<1>2. ASSUME NEW j \in 1..Len(d)
      PROVE  d[j] = At(n + j - 1)
  <2>1. CASE j = Len(c) + 1
    <3>1. n + j - 1 = n + Len(c)
      BY <1>1, <2>1
    <3>2. QED
      BY <1>1, <2>1, <3>1
  <2>2. CASE j # Len(c) + 1
    <3>1. j \in 1..Len(c)
      BY <1>1, <2>2
    <3>2. QED
      BY <1>1, <3>1 DEF Numbered
  <2>3. QED
    BY <2>1, <2>2
<1>3. QED
  BY <1>2 DEF Numbered, d

LEMMA NumberedTail ==
    ASSUME NEW c \in Seq(CipherBytes), c # <<>>, NEW n \in Int, Numbered(c, n)
    PROVE  Head(c) = At(n) /\ Numbered(Tail(c), n + 1)
<1> DEFINE d == Tail(c)
<1>1. Len(c) \in Nat \ {0}
  BY FirstType
<1>2. /\ Head(c) = c[1]
      /\ Len(d) = Len(c) - 1
      /\ \A i \in 1..Len(d) : d[i] = c[i + 1]
  BY <1>1, HeadTailProperties
<1> HIDE DEF d
<1>3. 1 \in 1..Len(c) /\ n + 1 - 1 = n
  BY <1>1
<1>4. c[1] = At(n)
  <2>1. c[1] = At(n + 1 - 1)
    BY <1>3 DEF Numbered
  <2>2. QED
    BY <1>3, <2>1
<1>5. ASSUME NEW j \in 1..Len(d)
      PROVE  d[j] = At((n + 1) + j - 1)
  <2>1. j + 1 \in 1..Len(c) /\ n + (j + 1) - 1 = (n + 1) + j - 1
    BY <1>1, <1>2
  <2>2. c[j + 1] = At(n + (j + 1) - 1)
    BY <2>1 DEF Numbered
  <2>3. QED
    BY <1>2, <2>1, <2>2
<1>6. QED
  BY <1>2, <1>4, <1>5 DEF Numbered, d

\* A generator that has given n bytes gives byte n + 1 next.
LEMMA NextByte ==
    ASSUME NEW g \in Generators, g.left <= g.made, NEW n \in Nat, g.made - g.left = n
    PROVE  NextKey(g) = n + 1 /\ Advance(g).made - Advance(g).left = n + 1
BY StreamAssumption DEF Generators, NextKey, Advance

LEMMA EncryptStep ==
    ASSUME StreamInv, EncryptByte
    PROVE  KeysAligned' /\ InOrder' /\ Ended' /\ BodyIsPrefix'
<1> USE DEF StreamInv, WellFormed
<1>1. /\ encrypted \in Nat /\ encrypted' = encrypted + 1
      /\ sEnd = "none" /\ sEnd' = "none"
      /\ UNCHANGED <<wire, received, plain, rGen, rPc, outcome, body>>
  BY DEF EncryptByte, More, progress, TypeOK, Total, receiver
<1>2. /\ NextKey(sGen) = encrypted + 1
      /\ sGen'.made - sGen'.left = encrypted'
  BY <1>1, NextByte DEF EncryptByte, More, TypeOK, InOrder
<1>3. chunk \in Seq(CipherBytes) /\ Len(chunk) \in Nat /\ chunk' = Append(chunk, At(encrypted + 1))
  BY <1>2 DEF EncryptByte, TypeOK, At
<1>4. At(encrypted + 1) \in CipherBytes
  BY <1>1, StreamAssumption DEF EncryptByte, More, CipherBytes, At, TypeOK, Total
<1>5. Numbered(chunk', encrypted - Len(chunk) + 1)
  <2>1. encrypted - Len(chunk) + 1 \in Int /\ encrypted - Len(chunk) + 1 + Len(chunk) = encrypted + 1
    BY <1>1, <1>3
  <2>2. QED
    BY <1>3, <1>4, <2>1, NumberedAppend DEF InOrder
<1>6. encrypted' - Len(chunk') = encrypted - Len(chunk)
  <2>1. Len(chunk') = Len(chunk) + 1
    BY <1>3, <1>4
  <2>2. QED
    BY <1>1, <1>3, <2>1
<1>7. InOrder'
  BY <1>1, <1>2, <1>5, <1>6 DEF InOrder
<1>8. Ended'
  BY <1>1 DEF Ended
<1>9. QED
  BY <1>1, <1>7, <1>8 DEF KeysAligned, BodyIsPrefix

LEMMA SendStep ==
    ASSUME StreamInv, SendChunk
    PROVE  KeysAligned' /\ InOrder' /\ Ended' /\ BodyIsPrefix'
<1> USE DEF StreamInv, WellFormed
<1>1. /\ encrypted \in Nat
      /\ sEnd = "none"
      /\ UNCHANGED <<encrypted, sGen, sEnd, received, plain, rGen, rPc, outcome, body>>
  BY DEF SendChunk, TypeOK, Total, receiver
<1>2. chunk \in Seq(CipherBytes) /\ chunk # <<>> /\ Len(chunk) \in Nat /\ chunk' = <<>> /\ Len(chunk') = 0
  BY DEF SendChunk, TypeOK
<1>3. PICK m \in Int : /\ Consecutive(received, Len(plain) + 1, m)
                       /\ Consecutive(wire, m + 1, encrypted - Len(chunk))
  BY DEF InOrder
<1>4. Consecutive(wire', m + 1, encrypted' - Len(chunk'))
  <2>1. encrypted - Len(chunk) \in Int /\ encrypted - Len(chunk) + Len(chunk) = encrypted' - Len(chunk')
    BY <1>1, <1>2
  <2>2. Consecutive(Append(wire, chunk), m + 1, encrypted - Len(chunk) + Len(chunk))
    BY <1>2, <1>3, <2>1, ConsecutiveAppend DEF InOrder
  <2>3. QED
    BY <2>1, <2>2 DEF SendChunk
<1>5. Numbered(chunk', encrypted' - Len(chunk') + 1)
  BY <1>2 DEF Numbered
<1>6. InOrder'
  BY <1>1, <1>3, <1>4, <1>5 DEF InOrder
<1>7. Ended'
  BY <1>1 DEF Ended
<1>8. QED
  BY <1>1, <1>6, <1>7 DEF KeysAligned, BodyIsPrefix

LEMMA RecvStep ==
    ASSUME StreamInv, RecvChunk
    PROVE  KeysAligned' /\ InOrder' /\ Ended' /\ BodyIsPrefix'
<1> USE DEF StreamInv, WellFormed
<1> DEFINE h == Head(wire)
          k == Len(h)
          e == encrypted - Len(chunk)
          n == Len(plain)
<1>1. /\ rPc = "receiving"
      /\ UNCHANGED <<encrypted, sGen, sEnd, chunk, plain, rGen, rPc, outcome, body>>
  BY DEF RecvChunk, Collect, sender, progress
<1>2. PICK m \in Int : /\ Consecutive(received, Len(plain) + 1, m)
                       /\ Consecutive(wire, m + 1, encrypted - Len(chunk))
  BY DEF InOrder
<1>3. e \in Int /\ n \in Nat
  BY DEF TypeOK, Total
<1>4. /\ h \in Seq(CipherBytes) /\ h # <<>> /\ k \in Nat
      /\ Chunks(wire) /\ wire # <<>>
      /\ Chunks(received)
      /\ received' = Append(received, h)
      /\ wire' = Tail(wire)
  BY ChunksTail DEF RecvChunk, Collect
<1>5. /\ Numbered(h, m + 1)
      /\ Consecutive(wire', m + 1 + k, e)
  <2>1. m + 1 \in Int
    OBVIOUS
  <2>2. Numbered(h, m + 1) /\ Consecutive(Tail(wire), m + 1 + k, e)
    BY ONLY <1>2, <1>3, <1>4, <2>1, ConsecutiveTail
  <2>3. QED
    BY ONLY <1>4, <2>2
<1>6. Consecutive(received', n + 1, m + k)
  <2> HIDE DEF h, n
  <2>1. n + 1 \in Int
    BY <1>3
  <2>2. QED
    BY <1>2, <1>4, <1>5, <2>1, ConsecutiveAppend DEF n
<1>7. m + k \in Int /\ m + 1 + k = (m + k) + 1
  <2> HIDE DEF k
  <2>1. QED
    BY <1>4
<1>8. Consecutive(wire', (m + k) + 1, e)
  BY <1>5, <1>7, Zenon
<1>9. InOrder'
  BY <1>1, <1>6, <1>7, <1>8 DEF InOrder
<1>10. Ended'
  BY <1>1 DEF Ended
<1>11. QED
  BY <1>1, <1>9, <1>10 DEF KeysAligned, BodyIsPrefix

LEMMA DecryptStep ==
    ASSUME StreamInv, DecryptByte
    PROVE  KeysAligned' /\ InOrder' /\ Ended' /\ BodyIsPrefix'
<1> USE DEF StreamInv, WellFormed
<1> DEFINE n == Len(plain)
           c == Head(received)
<1>1. /\ rPc = "decrypting" /\ outcome = "none"
      /\ UNCHANGED <<encrypted, sGen, sEnd, chunk, wire, rPc, outcome, body>>
  BY DEF DecryptByte, sender, progress, Ended, TypeOK
<1>2. PICK m \in Int : /\ Consecutive(received, n + 1, m)
                       /\ Consecutive(wire, m + 1, encrypted - Len(chunk))
  BY DEF InOrder
<1>3. n \in Nat /\ Chunks(received) /\ received # <<>> /\ c \in Seq(CipherBytes) /\ c # <<>> /\ Len(c) \in Nat \ {0}
  BY ChunksTail, FirstType DEF TypeOK, DecryptByte
<1>4. Numbered(c, n + 1) /\ Consecutive(Tail(received), n + 1 + Len(c), m)
  <2>1. n + 1 \in Int /\ encrypted - Len(chunk) \in Int
    BY <1>3 DEF TypeOK, Total
  <2>2. QED
    BY ONLY <1>2, <1>3, <2>1, ConsecutiveTail
<1>5. Head(c) = At(n + 1) /\ Numbered(Tail(c), (n + 1) + 1)
  BY <1>3, <1>4, NumberedTail
<1>6. NextKey(rGen) = n + 1 /\ rGen'.made - rGen'.left = n + 1
  BY <1>3, NextByte DEF InOrder, TypeOK, DecryptByte
<1>7. plain' = Append(plain, n + 1)
  BY <1>5, <1>6 DEF DecryptByte, At
<1>8. Len(plain') = n + 1 /\ \A i \in 1..(n + 1) : plain'[i] = i
  <2>1. plain \in Seq(0..Total)
    BY DEF TypeOK
  <2>2. \A i \in 1..n : plain[i] = i
    BY DEF KeysAligned
  <2>3. QED
    BY ONLY <1>3, <1>7, <2>1, <2>2
<1>9. Consecutive(received', n + 1 + 1, m)
  <2>1. CASE Len(c) = 1
    BY <1>4, <2>1 DEF DecryptByte
  <2>2. CASE Len(c) # 1
    <3>1. Tail(c) \in Seq(CipherBytes) /\ Tail(c) # <<>> /\ Len(Tail(c)) = Len(c) - 1
      BY <1>3, <2>2, TailNonEmpty
    <3>2. n + 1 + 1 + Len(Tail(c)) = n + 1 + Len(c) /\ n + 1 + 1 \in Int
      <4> DEFINE k == Len(c)
                 j == Len(Tail(c))
      <4>1. n \in Nat /\ k \in Nat /\ j = k - 1
        BY <1>3, <3>1
      <4> HIDE DEF n, k, j
      <4>2. n + 1 + 1 + j = n + 1 + k /\ n + 1 + 1 \in Int
        BY <4>1
      <4>3. QED
        BY <4>2 DEF k, j
    <3>3. Chunks(Tail(received))
      BY <1>3, ChunksTail
    <3>4. Consecutive(<<Tail(c)>> \o Tail(received), n + 1 + 1, m)
      BY <1>4, <1>5, <3>1, <3>2, <3>3, ConsecutiveCons
    <3>5. QED
      BY <2>2, <3>4 DEF DecryptByte
  <2>3. QED
    BY <2>1, <2>2
<1>10. InOrder'
  BY <1>1, <1>2, <1>6, <1>8, <1>9 DEF InOrder
<1>11. KeysAligned'
  BY <1>8 DEF KeysAligned
<1>12. Ended'
  BY <1>1 DEF Ended
<1>13. BodyIsPrefix'
  BY <1>1 DEF BodyIsPrefix
<1>14. QED
  BY <1>10, <1>11, <1>12, <1>13

\* What is left of the payload when the receiver has decrypted all it received.
LEMMA AllDecrypted ==
    ASSUME StreamInv, rPc = "decrypting", received = <<>>
    PROVE  /\ sEnd = "ended" => Len(plain) = Total
           /\ Len(plain) >= PrefixLen => HeaderLens = {HeaderLen}
<1> USE DEF StreamInv
<1>1. Len(received) = 0 /\ Len(wire) = 0 /\ Len(plain) \in Nat /\ encrypted - Len(chunk) \in Int
  BY DEF Ended, TypeOK, Total
<1>2. PICK m \in Int : /\ Consecutive(received, Len(plain) + 1, m)
                       /\ Consecutive(wire, m + 1, encrypted - Len(chunk))
  BY DEF InOrder
<1>3. Len(plain) + 1 = m + 1 /\ m + 1 = encrypted - Len(chunk) + 1
  BY <1>1, <1>2 DEF Consecutive
<1>4. Len(plain) = encrypted - Len(chunk)
  <2> DEFINE n == Len(plain)
             e == encrypted - Len(chunk)
  <2>1. n \in Nat /\ e \in Int /\ n + 1 = m + 1 /\ m + 1 = e + 1
    BY <1>1, <1>3
  <2> HIDE DEF n, e
  <2>2. n = e
    BY <2>1
  <2>3. QED
    BY <2>2 DEF n, e
<1>5. sEnd = "ended" => Len(plain) = Total
  <2> SUFFICES ASSUME sEnd = "ended"
               PROVE  Len(plain) = Total
    OBVIOUS
  <2>1. encrypted = Total /\ Len(chunk) = 0 /\ Total \in Nat
    BY StreamAssumption DEF Ended, Total
  <2>2. QED
    BY <1>4, <2>1
<1>6. ASSUME Len(plain) >= PrefixLen
      PROVE  HeaderLens = {HeaderLen}
  <2>1. \A i \in 1..PrefixLen : i <= Len(plain) /\ plain[i] = i
    BY <1>1, <1>6, StreamAssumption DEF KeysAligned
  <2>2. QED
    BY <2>1 DEF HeaderLens
<1>7. QED
  BY <1>5, <1>6

LEMMA Suffix ==
    ASSUME NEW S, NEW s \in Seq(S), NEW k \in 0..Len(s)
    PROVE  LET t == SubSeq(s, k + 1, Len(s)) IN
           /\ Len(t) = Len(s) - k
           /\ \A i \in 1..(Len(s) - k) : t[i] = s[k + i]
<1> DEFINE n == Len(s)
           t == SubSeq(s, k + 1, n)
<1>1. n \in Nat
  OBVIOUS
<1>2. Len(t) = IF k + 1 <= n THEN n - (k + 1) + 1 ELSE 0
  BY <1>1, SubSeqProperties
<1>3. \A i \in 1..(n - (k + 1) + 1) : t[i] = s[k + 1 + i - 1]
  BY <1>1, SubSeqProperties
<1> HIDE DEF t
<1>4. Len(t) = n - k
  BY <1>1, <1>2
<1>5. ASSUME NEW i \in 1..(n - k)
      PROVE  t[i] = s[k + i]
  <2>1. i \in 1..(n - (k + 1) + 1) /\ k + 1 + i - 1 = k + i
    BY <1>1
  <2>2. t[i] = s[k + 1 + i - 1]
    BY <1>3, <2>1
  <2>3. QED
    BY <2>1, <2>2
<1>6. QED
  BY <1>4, <1>5 DEF t

LEMMA UnpackStep ==
    ASSUME StreamInv, Unpack
    PROVE  Ended' /\ BodyIsPrefix'
<1> USE DEF StreamInv
<1>1. /\ rPc = "decrypting" /\ received = <<>> /\ rPc' = "over" /\ outcome' = "delivered"
      /\ UNCHANGED <<encrypted, sEnd, chunk, wire, plain>>
      /\ Len(plain) >= PrefixLen
  BY DEF Unpack, Data, sender, progress
<1>2. HeaderLens = {HeaderLen} /\ (sEnd = "ended" => Len(plain) = Total)
  BY <1>1, AllDecrypted
<1>3. /\ Len(plain) >= PrefixLen + HeaderLen
      /\ body' = SubSeq(plain, PrefixLen + HeaderLen + 1, Len(plain))
  BY <1>2 DEF Unpack, Data
<1> DEFINE n == Len(plain)
           k == PrefixLen + HeaderLen
<1>4. n \in Nat /\ k \in Nat /\ n >= k /\ plain \in Seq(0..Total)
  BY <1>3, StreamAssumption DEF TypeOK
<1>5. Len(body') = n - k /\ \A i \in 1..(n - k) : body'[i] = plain[k + i]
  <2>1. body' = SubSeq(plain, k + 1, n)
    BY <1>3
  <2>2. k \in 0..n
    BY <1>4
  <2> HIDE DEF k
  <2>3. QED
    BY <1>4, <2>1, <2>2, Suffix
<1>6. ASSUME NEW i \in 1..(n - k)
      PROVE  body'[i] = k + i
  <2>1. k + i \in 1..n
    BY <1>4
  <2>2. QED
    BY <1>5, <2>1 DEF KeysAligned
<1>7. sEnd = "ended" => Len(body') = BodyLen
  BY <1>2, <1>5, StreamAssumption DEF Total
<1>8. BodyIsPrefix'
  <2>1. Len(body') = Len(plain) - PrefixLen - HeaderLen
    BY <1>4, <1>5, StreamAssumption
  <2>2. QED
    BY <1>1, <1>5, <1>6, <1>7, <2>1 DEF BodyIsPrefix
<1>9. Ended'
  BY <1>1 DEF Ended
<1>10. QED
  BY <1>8, <1>9

LEMMA UnpackRaisesStep ==
    ASSUME StreamInv, UnpackRaises
    PROVE  Ended' /\ BodyIsPrefix'
<1> USE DEF StreamInv
<1>1. /\ rPc = "decrypting" /\ received = <<>> /\ rPc' = "over" /\ outcome' = "error"
      /\ UNCHANGED <<encrypted, sEnd, chunk, wire, plain>>
  BY DEF UnpackRaises, sender, progress
<1>2. Len(plain) \in Nat /\ sEnd \in {"ended", "failed"}
  BY <1>1 DEF TypeOK, Ended
<1>3. Len(plain) < PrefixLen + HeaderLen
  <2>1. CASE Len(plain) < PrefixLen
    BY <1>2, <2>1, StreamAssumption
  <2>2. CASE ~(Len(plain) < PrefixLen)
    <3>1. HeaderLens = {HeaderLen}
      BY <1>1, <1>2, <2>2, AllDecrypted, StreamAssumption
    <3>2. QED
      BY <2>2, <3>1 DEF UnpackRaises
  <2>3. QED
    BY <2>1, <2>2
<1>4. sEnd = "failed"
  <2>1. CASE sEnd = "ended"
    <3>1. Len(plain) = Total
      BY <1>1, <2>1, AllDecrypted
    <3>2. QED
      BY <1>3, <3>1, StreamAssumption DEF Total
  <2>2. QED
    BY <1>2, <2>1
<1>5. QED
  BY <1>1, <1>3, <1>4 DEF Ended, BodyIsPrefix

LEMMA StreamStep ==
    ASSUME StreamInv, [Next]_vars
    PROVE  StreamInv'
<1>1. TypeOK' /\ WellFormed'
  BY WellTypedStep DEF StreamInv
<1>2. KeysAligned' /\ InOrder' /\ Ended' /\ BodyIsPrefix'
  <2>1. CASE EncryptByte
    BY <2>1, EncryptStep
  <2>2. CASE SendChunk
    BY <2>2, SendStep
  <2>3. CASE SendEnd \/ SenderFails
    <3>1. /\ sEnd = "none" /\ (sEnd' = "ended" => chunk = <<>> /\ encrypted = Total)
          /\ UNCHANGED <<encrypted, sGen, chunk, wire, receiver>>
      BY <2>3 DEF SendEnd, AllSent, progress, SenderFails
    <3>2. rPc # "decrypting" /\ outcome = "none"
      BY <3>1 DEF StreamInv, Ended, TypeOK
    <3>3. UNCHANGED <<encrypted, sGen, chunk, wire, rGen, rPc, received, plain, outcome, body>>
      BY <3>1 DEF receiver
    <3>4. KeysAligned' /\ InOrder'
      BY <3>3 DEF StreamInv, KeysAligned, InOrder
    <3>5. Ended'
      BY <3>1, <3>2, <3>3 DEF Ended, Total
    <3>6. BodyIsPrefix'
      BY <3>2, <3>3 DEF BodyIsPrefix
    <3>7. QED
      BY <3>4, <3>5, <3>6
  <2>4. CASE RecvChunk
    BY <2>4, RecvStep
  <2>5. CASE StreamEnds \/ RecvFails
    <3>1. UNCHANGED <<encrypted, sGen, chunk, sEnd, wire, rGen, received, plain, outcome, body>>
      BY <2>5 DEF StreamEnds, RecvFails, sender, progress
    <3>2. Ended'
      BY <2>5, <3>1 DEF StreamInv, Ended, StreamEnds, RecvFails, Total
    <3>3. QED
      BY <3>1, <3>2 DEF StreamInv, KeysAligned, InOrder, BodyIsPrefix
  <2>6. CASE DecryptByte
    BY <2>6, DecryptStep
  <2>7. CASE Unpack
    <3>1. UNCHANGED <<encrypted, sGen, chunk, wire, rGen, received, plain>>
      BY <2>7 DEF Unpack, Data, sender, progress
    <3>2. QED
      BY <2>7, <3>1, UnpackStep DEF StreamInv, KeysAligned, InOrder
  <2>8. CASE UnpackRaises
    <3>1. UNCHANGED <<encrypted, sGen, chunk, wire, rGen, received, plain>>
      BY <2>8 DEF UnpackRaises, sender, progress
    <3>2. QED
      BY <2>8, <3>1, UnpackRaisesStep DEF StreamInv, KeysAligned, InOrder
  <2>9. CASE UNCHANGED vars
    <3>1. UNCHANGED <<encrypted, sGen, chunk, sEnd, wire, rGen, rPc, received, plain, outcome, body>>
      BY <2>9 DEF vars, sender, progress, receiver
    <3>2. QED
      BY <3>1 DEF StreamInv, KeysAligned, InOrder, Ended, BodyIsPrefix, Total
  <2>10. QED
    BY <2>1, <2>2, <2>3, <2>4, <2>5, <2>6, <2>7, <2>8, <2>9 DEF Next
<1>3. QED
  BY <1>1, <1>2 DEF StreamInv

LEMMA StreamInit ==
    Init => StreamInv
<1> SUFFICES ASSUME Init
             PROVE  StreamInv
  OBVIOUS
<1>1. TypeOK /\ WellFormed
  BY StreamAssumption DEF Init, TypeOK, WellFormed, Chunks, NewGenerator, Generators, Total
<1>2. Len(plain) = 0 /\ Len(chunk) = 0 /\ Len(received) = 0 /\ Len(wire) = 0
  BY DEF Init
<1>3. /\ Consecutive(received, Len(plain) + 1, 0)
      /\ Consecutive(wire, 0 + 1, encrypted - Len(chunk))
  BY <1>2 DEF Consecutive, Init
<1>4. InOrder
  BY <1>2, <1>3 DEF Init, InOrder, Numbered, NewGenerator
<1>5. KeysAligned /\ Ended /\ BodyIsPrefix
  BY <1>2 DEF Init, KeysAligned, Ended, BodyIsPrefix
<1>6. QED
  BY <1>1, <1>4, <1>5 DEF StreamInv

\* Whatever the sizes of payload, chunks and key buffers, the two ends use the same
\* key byte at the same byte of the payload (csprng.py:34-40, stream_cipher.py:25-50).
THEOREM KeysStayAligned == Spec => []KeysAligned
<1>1. StreamInv => KeysAligned
  BY DEF StreamInv
<1>2. QED
  BY <1>1, StreamInit, StreamStep, PTL DEF Spec

\* Whatever the sizes, what unpackPayload hands over is a beginning of the body, the
\* whole of it if the sender came to __END__, and it raises only on a header that a
\* failed sender cut (payload_formatter.py:19-37, server.py:175-202).
THEOREM BodyIsBeginning == Spec => []BodyIsPrefix
<1>1. StreamInv => BodyIsPrefix
  BY DEF StreamInv
<1>2. QED
  BY <1>1, StreamInit, StreamStep, PTL DEF Spec

-------------------------------------------------------------------------------
(* The counts of chunks and of progress events                              *)

\* Quotient and remainder.
LEMMA DivIs ==
    ASSUME NEW x \in Int, NEW d \in Nat \ {0}
    PROVE  /\ x \div d \in Int
           /\ d * (x \div d) <= x /\ x < d * (x \div d) + d
           /\ x % d = x - d * (x \div d)
OBVIOUS

\* The two forms of the product that the counts need.
LEMMA Products ==
    ASSUME NEW a \in Int, NEW b \in Int, NEW d \in Nat \ {0}
    PROVE  /\ (a + 1) * d = a * d + d /\ (a - 1) * d = a * d - d /\ (a - 2) * d = a * d - 2 * d
           /\ a * d \in Int /\ a * d = d * a
           /\ a * d < b * d => a < b
           /\ a < b => a * d + d <= b * d
<1>1. /\ (a + 1) * d = a * d + d /\ (a - 1) * d = a * d - d /\ (a - 2) * d = a * d - 2 * d
      /\ a * d \in Int /\ a * d = d * a
  OBVIOUS
<1>2. a < b => a * d + d <= b * d
  OBVIOUS
<1>3. b <= a => b * d <= a * d
  OBVIOUS
<1>4. a * d < b * d => a < b
  BY <1>1, <1>3
<1>5. QED
  BY <1>1, <1>2, <1>4

\* The chunks announced are as many as the payload fills, the last one perhaps not
\* to its end.
LEMMA AnnouncedFacts ==
    /\ Announced \in Nat /\ Total \in Nat
    /\ Total <= Announced * ChunkSize /\ Announced * ChunkSize < Total + ChunkSize
<1> DEFINE q == (-Total) \div ChunkSize
<1>1. Total \in Nat /\ ChunkSize \in Nat \ {0} /\ -Total \in Int
  BY StreamAssumption DEF Total
<1>2. q \in Int /\ ChunkSize * q <= -Total /\ -Total < ChunkSize * q + ChunkSize
  BY <1>1, DivIs
<1>3. Announced = -q
  BY DEF Announced
<1> HIDE DEF q
<1>4. (-q) * ChunkSize = -(ChunkSize * q) /\ ChunkSize * q \in Int
  BY <1>1, <1>2
<1>5. Total <= (-q) * ChunkSize /\ (-q) * ChunkSize < Total + ChunkSize
  BY <1>1, <1>2, <1>4
<1>6. -q >= 0
  <2>1. (-1) * ChunkSize = -ChunkSize /\ (-q) * ChunkSize \in Int
    BY <1>1, <1>2
  <2>2. -ChunkSize < (-q) * ChunkSize
    BY <1>1, <1>5, <2>1
  <2>3. (-1) * ChunkSize < (-q) * ChunkSize /\ -1 \in Int /\ -q \in Int
    BY <1>2, <2>1, <2>2
  <2>4. -1 < -q
    BY <1>1, <2>3, Products
  <2>5. QED
    BY <1>2, <2>4
<1>7. QED
  BY <1>1, <1>2, <1>3, <1>5, <1>6

\* The step of the progress events is at least one, and as long as the number of
\* updates aimed at allows.
LEMMA StepFacts == Step \in Nat \ {0} /\ Announced < (Step + 1) * Updates
<1> DEFINE q == Announced \div Updates
<1>1. Announced \in Nat /\ Updates \in Nat \ {0}
  BY AnnouncedFacts, StreamAssumption
<1>2. q \in Int /\ Announced < Updates * q + Updates
  BY <1>1, DivIs
<1>3. Step = IF q > 1 THEN q ELSE 1
  BY DEF Step
<1> HIDE DEF q
<1>4. (Step + 1) * Updates = Step * Updates + Updates /\ q * Updates = Updates * q
  BY <1>1, <1>2, <1>3, Products
<1>5. q <= Step /\ Step \in Nat \ {0}
  BY <1>2, <1>3
<1>6. q * Updates <= Step * Updates
  BY <1>1, <1>2, <1>5, Products
<1>7. q * Updates \in Int /\ Step * Updates \in Int
  BY <1>1, <1>2, <1>5, Products
<1>8. QED
  BY <1>1, <1>2, <1>4, <1>5, <1>6, <1>7

\* The chunks that were sent account for the bytes that were encrypted, and the
\* events for the chunks.
Counted ==
    /\ sentChunks <= Announced /\ Len(chunk) <= ChunkSize
    /\ \/ encrypted = sentChunks * ChunkSize + Len(chunk)
       \/ sentChunks = Announced /\ encrypted = Total /\ chunk = <<>>
    /\ sEnd = "ended" => encrypted = Total /\ chunk = <<>>
    /\ sentChunks = Announced => shown = Announced
    /\ (updates - 2) * Step < sentChunks
    /\ sentChunks < Announced => (updates - 1) * Step < sentChunks \/ updates = 0

\* The chunk that SendChunk sends.
LEMMA ChunkCounted ==
    ASSUME TypeOK, Counted, SendChunk
    PROVE  /\ sentChunks < Announced
           /\ encrypted = (sentChunks + 1) * ChunkSize
              \/ (sentChunks + 1 = Announced /\ encrypted = Total)
<1> DEFINE full == sentChunks * ChunkSize
           all == Announced * ChunkSize
<1>1. /\ sentChunks \in Nat /\ encrypted \in Nat /\ encrypted <= Total /\ Len(chunk) \in Nat \ {0}
      /\ ChunkSize \in Nat \ {0} /\ Announced \in Nat /\ Total \in Nat
      /\ Total <= all /\ all < Total + ChunkSize
  BY AnnouncedFacts, StreamAssumption DEF TypeOK, SendChunk
<1>2. /\ (sentChunks + 1) * ChunkSize = full + ChunkSize /\ full \in Int /\ all \in Int
      /\ (Announced - 1) * ChunkSize = all - ChunkSize
  BY <1>1, Products
<1>3. encrypted = full + Len(chunk) /\ (Len(chunk) = ChunkSize \/ encrypted = Total)
      /\ Len(chunk) <= ChunkSize
  BY DEF Counted, SendChunk
<1> HIDE DEF full, all
<1>4. sentChunks < Announced
  <2>1. full < all
    BY <1>1, <1>2, <1>3
  <2>2. QED
    BY <1>1, <2>1, Products DEF full, all
<1>5. CASE Len(chunk) = ChunkSize
  BY <1>2, <1>3, <1>4, <1>5
<1>6. CASE encrypted = Total /\ Len(chunk) < ChunkSize
  <2>1. all - ChunkSize < full + ChunkSize
    BY <1>1, <1>2, <1>3, <1>6
  <2>2. Announced - 1 < sentChunks + 1
    BY <1>1, <1>2, <2>1, Products
  <2>3. QED
    BY <1>1, <1>4, <1>6, <2>2
<1>7. QED
  BY <1>1, <1>3, <1>5, <1>6

LEMMA CountedSend == ASSUME TypeOK, Counted, SendChunk PROVE Counted'
<1>1. /\ sentChunks' = sentChunks + 1 /\ chunk' = <<>> /\ UNCHANGED <<encrypted, sEnd>>
      /\ sEnd = "none"
      /\ IF Reported(sentChunks) THEN shown' = sentChunks + 1 /\ updates' = updates + 1
         ELSE UNCHANGED <<shown, updates>>
  BY DEF SendChunk
<1>2. /\ sentChunks \in Nat /\ updates \in Nat /\ Announced \in Nat /\ Step \in Nat \ {0}
      /\ sentChunks < Announced /\ ChunkSize \in Nat \ {0} /\ Len(<<>>) = 0
  BY ChunkCounted, AnnouncedFacts, StepFacts, StreamAssumption DEF TypeOK
<1>3. \/ encrypted' = sentChunks' * ChunkSize + Len(chunk')
      \/ sentChunks' = Announced /\ encrypted' = Total /\ chunk' = <<>>
  <2>1. (sentChunks + 1) * ChunkSize \in Int
    BY <1>2, Products
  <2>2. QED
    BY <1>1, <1>2, <2>1, ChunkCounted
<1>4. sentChunks' = Announced => shown' = Announced
  BY <1>1, <1>2 DEF Reported
<1> DEFINE less == (updates - 1) * Step
           least == (updates - 2) * Step
<1>5. /\ least = less - Step /\ less \in Int /\ (updates - 1) * Step = less
      /\ updates * Step = less + Step
  BY <1>2, Products
<1>6. less < sentChunks \/ updates = 0
  BY <1>2 DEF Counted
<1> HIDE DEF less, least
<1>7. CASE sentChunks % Step = 0
  <2> DEFINE k == sentChunks \div Step
  <2>1. k \in Int /\ sentChunks = k * Step
    BY <1>2, <1>7, DivIs, Products
  <2> HIDE DEF k
  <2>2. updates * Step <= sentChunks
    <3>1. CASE updates = 0
      BY <1>2, <3>1
    <3>2. CASE less < sentChunks
      <4>1. (updates - 1) * Step < k * Step /\ updates - 1 \in Int
        BY <1>2, <1>5, <2>1, <3>2
      <4>2. (updates - 1) * Step + Step <= k * Step
        BY <1>2, <2>1, <4>1, Products
      <4>3. QED
        BY <1>2, <1>5, <2>1, <4>2
    <3>3. QED
      BY <1>6, <3>1, <3>2
  <2>3. /\ updates' = updates + 1 /\ updates' - 1 = updates /\ updates' - 2 = updates - 1
    BY <1>1, <1>2, <1>7 DEF Reported
  <2>4. (updates' - 1) * Step < sentChunks'
    BY <1>1, <1>2, <1>5, <2>2, <2>3
  <2>5. (updates' - 2) * Step < sentChunks'
    BY <1>1, <1>2, <1>5, <2>2, <2>3
  <2>6. QED
    BY <1>1, <1>2, <1>3, <1>4, <2>4, <2>5 DEF Counted
<1>8. CASE sentChunks % Step # 0 /\ sentChunks = Announced - 1
  <2>1. updates' = updates + 1 /\ updates' - 2 = updates - 1 /\ sentChunks' = Announced
    BY <1>1, <1>2, <1>8 DEF Reported
  <2>2. (updates' - 2) * Step < sentChunks'
    <3>1. CASE updates = 0
      BY <1>1, <1>2, <2>1, <3>1
    <3>2. CASE less < sentChunks
      BY <1>1, <1>2, <1>5, <2>1, <3>2
    <3>3. QED
      BY <1>6, <3>1, <3>2
  <2>3. QED
    BY <1>1, <1>2, <1>3, <1>4, <2>1, <2>2 DEF Counted
<1>9. CASE sentChunks % Step # 0 /\ sentChunks # Announced - 1
  <2>1. updates' = updates
    BY <1>1, <1>9 DEF Reported
  <2>2. (updates' - 2) * Step < sentChunks'
    BY <1>1, <1>2, <2>1, Products DEF Counted
  <2>3. (updates' - 1) * Step < sentChunks' \/ updates' = 0
    BY <1>1, <1>2, <1>5, <1>6, <2>1
  <2>4. QED
    BY <1>1, <1>2, <1>3, <1>4, <2>2, <2>3 DEF Counted
<1>10. QED
  BY <1>7, <1>8, <1>9

LEMMA CountedStep == ASSUME TypeOK, Counted, [Next]_vars PROVE Counted'
<1>0. encrypted \in Nat /\ sentChunks \in Nat /\ chunk \in Seq(CipherBytes)
  BY AnnouncedFacts DEF TypeOK
<1>1. CASE EncryptByte
  <2>1. /\ encrypted' = encrypted + 1 /\ encrypted < Total /\ Len(chunk) < ChunkSize
        /\ Len(chunk') = Len(chunk) + 1 /\ sEnd = "none"
        /\ UNCHANGED <<sentChunks, shown, updates, sEnd>>
    BY <1>0, <1>1 DEF EncryptByte, More, progress
  <2>2. encrypted = sentChunks * ChunkSize + Len(chunk) /\ Len(chunk) \in Nat
    BY <1>0, <2>1, AnnouncedFacts DEF Counted
  <2>3. sentChunks * ChunkSize \in Int /\ ChunkSize \in Nat
    BY <1>0, Products, StreamAssumption
  <2>4. encrypted' = sentChunks' * ChunkSize + Len(chunk') /\ Len(chunk') <= ChunkSize
    BY <1>0, <2>1, <2>2, <2>3
  <2>5. QED
    BY <2>1, <2>4 DEF Counted
<1>2. CASE SendChunk
  BY <1>2, CountedSend
<1>3. CASE SendEnd
  BY <1>3 DEF SendEnd, AllSent, progress, Counted
<1>4. CASE SenderFails
  BY <1>4 DEF SenderFails, progress, Counted
<1>5. CASE RecvChunk \/ StreamEnds \/ RecvFails \/ DecryptByte \/ UnpackRaises \/ Unpack
           \/ UNCHANGED vars
  <2>1. UNCHANGED sender
    BY <1>5 DEF RecvChunk, StreamEnds, RecvFails, DecryptByte, UnpackRaises, Unpack, vars
  <2>2. QED
    BY <2>1 DEF sender, progress, Counted
<1>6. QED
  BY <1>1, <1>2, <1>3, <1>4, <1>5 DEF Next

LEMMA CountedHolds == Spec => [](TypeOK /\ Counted)
<1>1. Init => Counted
  <2> SUFFICES ASSUME Init PROVE Counted
    OBVIOUS
  <2>1. /\ Announced \in Nat /\ Total \in Nat /\ Step \in Nat \ {0} /\ ChunkSize \in Nat \ {0}
        /\ Len(<<>>) = 0 /\ 0 * ChunkSize = 0
    BY AnnouncedFacts, StepFacts, StreamAssumption
  <2>2. (0 - 2) * Step < 0
    BY <2>1
  <2>3. QED
    BY <2>1, <2>2 DEF Init, Counted
<1>2. QED
  BY <1>1, CountedStep, TypeCorrect, PTL DEF Spec

\* Whatever the sizes, a sender that comes to __END__ has sent as many chunks as it
\* announced, and its last progress event says so (client.py:131-142).
THEOREM AnnouncedIsKept == Spec => []AnnouncedIsSent
<1>1. TypeOK /\ Counted => AnnouncedIsSent
  <2> SUFFICES ASSUME TypeOK, Counted, sEnd = "ended" PROVE sentChunks = Announced
    BY DEF AnnouncedIsSent, Counted
  <2>1. encrypted = Total /\ Len(chunk) = 0 /\ sentChunks <= Announced
    BY DEF Counted
  <2>2. /\ sentChunks \in Nat /\ Announced \in Nat /\ ChunkSize \in Nat \ {0} /\ Total \in Nat
        /\ Announced * ChunkSize < Total + ChunkSize
        /\ (Announced - 1) * ChunkSize = Announced * ChunkSize - ChunkSize
        /\ Announced * ChunkSize \in Int /\ sentChunks * ChunkSize \in Int
    BY AnnouncedFacts, StreamAssumption, Products DEF TypeOK
  <2>3. CASE encrypted = sentChunks * ChunkSize + Len(chunk)
    <3>1. (Announced - 1) * ChunkSize < sentChunks * ChunkSize
      BY <2>1, <2>2, <2>3
    <3>2. Announced - 1 < sentChunks
      BY <2>2, <3>1, Products
    <3>3. QED
      BY <2>1, <2>2, <3>2
  <2>4. QED
    BY <2>3 DEF Counted
<1>2. QED
  BY <1>1, CountedHolds, PTL

\* Whatever the sizes, the progress events are at most twice as many as are aimed
\* at: the step is rounded down and the last chunk is reported in any case
\* (client.py:133-142).
THEOREM UpdatesStayBounded == Spec => []UpdatesBounded
<1>1. TypeOK /\ Counted => UpdatesBounded
  <2> SUFFICES ASSUME TypeOK, Counted, updates > 2 * Updates PROVE FALSE
    BY StreamAssumption DEF UpdatesBounded, TypeOK
  <2>1. /\ updates \in Nat /\ sentChunks \in Nat /\ Updates \in Nat \ {0} /\ Step \in Nat \ {0}
        /\ Announced \in Nat /\ Announced < (Step + 1) * Updates /\ sentChunks <= Announced
        /\ (updates - 2) * Step < sentChunks
    BY StepFacts, AnnouncedFacts, StreamAssumption DEF TypeOK, Counted
  <2>2. (2 * Updates - 1) * Step <= (updates - 2) * Step
    BY <2>1
  <2>3. (2 * Updates - 1) * Step = 2 * (Updates * Step) - Step /\ Updates * Step \in Int
        /\ (Step + 1) * Updates = Updates * Step + Updates
    BY <2>1
  <2>4. Updates * Step < Step + Updates - 1
    BY <2>1, <2>2, <2>3
  <2>5. (Updates - 1) * (Step - 1) >= 0
    BY <2>1
  <2>6. (Updates - 1) * (Step - 1) = Updates * Step - Step - Updates + 1
    BY <2>1
  <2>7. QED
    BY <2>1, <2>3, <2>4, <2>5, <2>6
<1>2. QED
  BY <1>1, CountedHolds, PTL
===============================================================================
