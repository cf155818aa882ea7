----------------------------- MODULE FramingProofs ----------------------------
(***************************************************************************)
(* recvExact puts every item together from pieces of any size, for any     *)
(* items and any length of the prefix.                                     *)
(***************************************************************************)
EXTENDS Framing, SequenceTheorems, TLAPS

-------------------------------------------------------------------------------
(* The stream of bytes.                                                     *)

FirstByte(i) == Byte(i, IF i \in Raw THEN 1 ELSE 1 - PrefixLen)

\* The byte that comes after byte b.
After(b) ==
    IF b.item \in 1..Size /\ b.place = Lengths[b.item] THEN FirstByte(b.item + 1)
    ELSE Byte(b.item, b.place + 1)

\* The bytes of a sequence come one after the other.  Said of all pairs, so that
\* no induction is needed: the rest of an item follows each of its bytes, and then
\* the next item.
Chain(s) ==
    \A i, j \in 1..Len(s) : i <= j =>
        LET b == s[i] place == s[i].place + (j - i) IN
        /\ place <= Lengths[b.item] => s[j] = Byte(b.item, place)
        /\ place = Lengths[b.item] + 1 => s[j] = FirstByte(b.item + 1)

\* They lead from byte a to where byte b comes next.
Spans(a, s, b) == IF s = <<>> THEN a = b ELSE s[1] = a /\ After(s[Len(s)]) = b

-------------------------------------------------------------------------------

\* The item that the receiver is at, and the place of the last byte it has of it.
Item == Len(frames) + 1
Base == IF phase = "length" THEN -PrefixLen ELSE 0
Place == Base + Len(data)

\* What was sent and not read.
Flow == pipe \o out

\* What recvExact has so far is from the start of what it reads.
Collected ==
    /\ Len(data) <= need
    /\ \A j \in 1..Len(data) : data[j] = Byte(Item, Base + j)
    /\ IF phase = "length" THEN need = PrefixLen /\ Item \notin Raw
       ELSE need = Lengths[Item] /\ Item \in 1..Size

\* The flow leads from the byte that the receiver reads next to the next item.
Flows == Chain(Flow) /\ Spans(After(Byte(Item, Place)), Flow, FirstByte(sent + 1))

\* The inductive invariant.
Whole ==
    /\ phase \notin Ended => Collected /\ Flows
    /\ \A j \in 1..Len(pipe) : pipe[j].item <= sent
    /\ \A j \in 1..Len(out) : out[j].item = sent
    /\ Len(frames) <= sent
    /\ out # <<>> => Len(frames) < sent
    /\ WholeFrames

-------------------------------------------------------------------------------
(* Lemmas about the stream.                                                 *)

LEMMA Sizes == Size \in Nat /\ \A i \in 1..Size : Lengths[i] \in Nat
BY FramingAssumption DEF Size

\* A function on 1..n is a sequence.
LEMMA SeqOfFunction ==
    ASSUME NEW S, NEW n \in Nat, NEW f, f = [j \in 1..n |-> f[j]], \A j \in 1..n : f[j] \in S
    PROVE  f \in Seq(S) /\ Len(f) = n
OBVIOUS

\* The elements of two sequences joined.
LEMMA Joined ==
    ASSUME NEW S, NEW s \in Seq(S), NEW t \in Seq(S)
    PROVE  /\ s \o t \in Seq(S) /\ Len(s \o t) = Len(s) + Len(t)
           /\ Len(s) \in Nat /\ Len(t) \in Nat
           /\ \A i \in 1..Len(s) : (s \o t)[i] = s[i] /\ s[i] \in S
           /\ \A i \in 1..Len(t) : (s \o t)[Len(s) + i] = t[i] /\ t[i] \in S
OBVIOUS

LEMMA FieldsOf == \A i, p : Byte(i, p).item = i /\ Byte(i, p).place = p
BY DEF Byte

\* A chain followed by another that begins where it ends is a chain.
LEMMA ChainsJoin ==
    ASSUME NEW s \in Seq(Bytes), NEW t \in Seq(Bytes), Chain(s), Chain(t),
           s # <<>> /\ t # <<>> => t[1] = After(s[Len(s)])
    PROVE  Chain(s \o t)
<1> DEFINE u == s \o t
<1>1. /\ Len(s) \in Nat /\ Len(t) \in Nat /\ Len(u) = Len(s) + Len(t)
      /\ \A i \in 1..Len(s) : u[i] = s[i] /\ s[i] \in Bytes
      /\ \A i \in 1..Len(t) : u[Len(s) + i] = t[i] /\ t[i] \in Bytes
  OBVIOUS
<1> SUFFICES ASSUME NEW i \in 1..Len(u), NEW j \in 1..Len(u), i <= j
             PROVE  LET b == u[i] place == u[i].place + (j - i) IN
                    /\ place <= Lengths[b.item] => u[j] = Byte(b.item, place)
                    /\ place = Lengths[b.item] + 1 => u[j] = FirstByte(b.item + 1)
  BY DEF Chain
<1>2. CASE j <= Len(s)
  <2>1. i \in 1..Len(s) /\ j \in 1..Len(s)
    BY <1>1, <1>2
  <2>2. u[i] = s[i] /\ u[j] = s[j]
    BY <1>1, <2>1
  <2>3. QED
    BY <2>1, <2>2 DEF Chain
<1>3. CASE i > Len(s)
  <2>1. i - Len(s) \in 1..Len(t) /\ j - Len(s) \in 1..Len(t) /\ i - Len(s) <= j - Len(s)
    BY <1>1, <1>3
  <2>2. u[i] = t[i - Len(s)] /\ u[j] = t[j - Len(s)]
    BY <1>1, <2>1
  <2>3. (j - Len(s)) - (i - Len(s)) = j - i
    BY <1>1
  <2>4. QED
    BY <2>1, <2>2, <2>3 DEF Chain
<1>4. CASE i <= Len(s) /\ j > Len(s)
  <2> DEFINE l == Len(s)
             k == j - l
             b == s[i]
             p == b.place
             n == Lengths[b.item]
             c == t[1]
  <2>1. /\ l \in Nat /\ i \in Int /\ j \in Int /\ k \in Int /\ j = l + k /\ i <= l /\ 1 <= k
        /\ i \in 1..l /\ l \in 1..l /\ k \in 1..Len(t) /\ 1 \in 1..Len(t)
    BY <1>1, <1>4
  <2>2. u[i] = b /\ u[j] = t[k] /\ c = After(s[l])
    BY <1>1, <2>1
  <2>3. b.item \in 1..Size /\ p \in Int /\ n \in Nat
    BY <1>1, <2>1, Sizes DEF Bytes
  <2>4. p + (l - i) <= n => s[l] = Byte(b.item, p + (l - i))
    BY <2>1 DEF Chain
  <2>5. /\ c.place + (k - 1) <= Lengths[c.item] => t[k] = Byte(c.item, c.place + (k - 1))
        /\ c.place + (k - 1) = Lengths[c.item] + 1 => t[k] = FirstByte(c.item + 1)
    BY <2>1 DEF Chain
  <2>6. /\ p + (l - i) < n => c = Byte(b.item, p + (l - i) + 1)
        /\ p + (l - i) = n => c = FirstByte(b.item + 1)
    <3>1. n = Lengths[b.item]
      OBVIOUS
    <3> HIDE DEF p, n, l, b, c
    <3>2. \A q \in Int : /\ q < n => After(Byte(b.item, q)) = Byte(b.item, q + 1)
                         /\ q = n => After(Byte(b.item, q)) = FirstByte(b.item + 1)
      BY <2>3, <3>1 DEF After, Byte
    <3>3. p + (l - i) \in Int
      BY <2>1, <2>3
    <3>4. p + (l - i) <= n => c = After(Byte(b.item, p + (l - i)))
      BY <2>2, <2>4
    <3>5. QED
      BY <2>3, <3>2, <3>3, <3>4
  <2>7. ASSUME p + (l - i) < n
        PROVE  c.item = b.item /\ c.place + (k - 1) = p + (j - i)
    <3>1. c = Byte(b.item, p + (l - i) + 1)
      BY <2>6, <2>7
    <3>2. c.item = b.item /\ c.place = p + (l - i) + 1
      BY <3>1 DEF Byte
    <3> HIDE DEF p, n, l, b, c, k
    <3>3. QED
      BY <2>1, <2>3, <3>2
  <2>8. CASE p + (j - i) <= n
    <3>1. p + (l - i) < n
      <4> HIDE DEF p, n, l, b, c, k
      <4>1. QED
        BY <2>1, <2>3, <2>8
    <3>2. t[k] = Byte(b.item, p + (j - i))
      BY <2>5, <2>7, <2>8, <3>1
    <3>3. ~(p + (j - i) = n + 1)
      <4> HIDE DEF p, n, l, b, c, k
      <4>1. QED
        BY <2>1, <2>3, <2>8
    <3>4. QED
      BY <2>2, <3>2, <3>3
  <2>9. CASE p + (j - i) = n + 1
    <3>1. t[k] = FirstByte(b.item + 1)
      <4>1. CASE k = 1
        <5>1. p + (l - i) = n
          <6> HIDE DEF p, n, l, b, c, k
          <6>1. QED
            BY <2>1, <2>3, <2>9, <4>1
        <5>2. QED
          BY <2>6, <4>1, <5>1
      <4>2. CASE k # 1
        <5>1. p + (l - i) < n
          <6> HIDE DEF p, n, l, b, c, k
          <6>1. QED
            BY <2>1, <2>3, <2>9, <4>2
        <5>2. QED
          BY <2>5, <2>7, <2>9, <5>1
      <4>3. QED
        BY <4>1, <4>2
    <3>2. ~(p + (j - i) <= n)
      <4> HIDE DEF p, n, l, b, c, k
      <4>1. QED
        BY <2>1, <2>3, <2>9
    <3>3. QED
      BY <2>2, <3>1, <3>2
  <2>10. QED
    BY <2>2, <2>8, <2>9
<1>5. QED
  BY <1>1, <1>2, <1>3, <1>4

\* What is left of a chain is one.
LEMMA ChainRest ==
    ASSUME NEW s \in Seq(Bytes), NEW t \in Seq(Bytes), NEW n \in Nat, Chain(s),
           Len(t) + n = Len(s), \A i \in 1..Len(t) : t[i] = s[i + n]
    PROVE  Chain(t)
<1> SUFFICES ASSUME NEW i \in 1..Len(t), NEW j \in 1..Len(t), i <= j
             PROVE  LET b == t[i] place == t[i].place + (j - i) IN
                    /\ place <= Lengths[b.item] => t[j] = Byte(b.item, place)
                    /\ place = Lengths[b.item] + 1 => t[j] = FirstByte(b.item + 1)
  BY DEF Chain
<1>1. i + n \in 1..Len(s) /\ j + n \in 1..Len(s) /\ i + n <= j + n /\ (j + n) - (i + n) = j - i
  OBVIOUS
<1>2. t[i] = s[i + n] /\ t[j] = s[j + n]
  OBVIOUS
<1>3. LET b == s[i + n] place == s[i + n].place + ((j + n) - (i + n)) IN
      /\ place <= Lengths[b.item] => s[j + n] = Byte(b.item, place)
      /\ place = Lengths[b.item] + 1 => s[j + n] = FirstByte(b.item + 1)
  BY <1>1 DEF Chain
<1>4. QED
  BY <1>1, <1>2, <1>3

\* The bytes of an item are a chain from its first to the next item's.
LEMMA WireIsChain ==
    ASSUME NEW i \in 1..Size
    PROVE  /\ Wire(i) \in Seq(Bytes) /\ Wire(i) # <<>> /\ Chain(Wire(i))
           /\ \A j \in 1..Len(Wire(i)) : Wire(i)[j].item = i
           /\ Spans(FirstByte(i), Wire(i), FirstByte(i + 1))
<1> DEFINE from == IF i \in Raw THEN 0 ELSE -PrefixLen
           w == Wire(i)
<1>1. /\ Lengths[i] \in Nat /\ PrefixLen \in Nat \ {0} /\ from \in Int
      /\ i \in Raw => Lengths[i] = 1
      /\ i \in Nat
  BY Sizes, FramingAssumption
<1>2. /\ Payload(i) \in Seq(Bytes) /\ Len(Payload(i)) = Lengths[i]
      /\ \A j \in 1..Lengths[i] : Payload(i)[j] = Byte(i, j)
  <2>1. \A j \in 1..Lengths[i] : Byte(i, j) \in Bytes
    BY <1>1 DEF Bytes, Byte
  <2>2. Payload(i) = [j \in 1..Lengths[i] |-> Byte(i, j)]
    BY DEF Payload
  <2>3. /\ Payload(i) = [j \in 1..Lengths[i] |-> Payload(i)[j]]
        /\ \A j \in 1..Lengths[i] : Payload(i)[j] = Byte(i, j)
    BY <2>2
  <2>4. Lengths[i] \in Nat /\ \A j \in 1..Lengths[i] : Payload(i)[j] \in Bytes
    BY <1>1, <2>1, <2>3
  <2>5. QED
    BY <2>3, <2>4, SeqOfFunction, Zenon
<1>3. /\ Prefix(i) \in Seq(Bytes) /\ Len(Prefix(i)) = PrefixLen
      /\ \A j \in 1..PrefixLen : Prefix(i)[j] = Byte(i, j - PrefixLen)
  <2>1. \A j \in 1..PrefixLen : Byte(i, j - PrefixLen) \in Bytes
    BY <1>1 DEF Bytes, Byte
  <2>2. Prefix(i) = [j \in 1..PrefixLen |-> Byte(i, j - PrefixLen)]
    BY DEF Prefix
  <2>3. QED
    BY <1>1, <2>1, <2>2
<1>4. /\ w \in Seq(Bytes) /\ Len(w) = Lengths[i] - from /\ Len(w) >= 1
      /\ \A j \in 1..Len(w) : w[j] = Byte(i, from + j)
  <2>1. CASE i \in Raw
    BY <1>1, <1>2, <2>1 DEF Wire
  <2>2. CASE i \notin Raw
    <3>1. w = Prefix(i) \o Payload(i)
      BY <2>2 DEF Wire
    <3>2. w \in Seq(Bytes) /\ Len(w) = PrefixLen + Lengths[i]
      <4> DEFINE s == Prefix(i)
                 t == Payload(i)
      <4>1. s \in Seq(Bytes) /\ t \in Seq(Bytes) /\ Len(s) = PrefixLen /\ Len(t) = Lengths[i]
        BY <1>2, <1>3
      <4>2. w = s \o t
        BY <3>1
      <4> HIDE DEF s, t, w
      <4>3. s \o t \in Seq(Bytes) /\ Len(s \o t) = Len(s) + Len(t)
        BY <4>1, Joined
      <4>4. QED
        BY <4>1, <4>2, <4>3
    <3>3. ASSUME NEW j \in 1..Len(w) PROVE w[j] = Byte(i, j - PrefixLen)
      <4>1. CASE j <= PrefixLen
        BY <1>1, <1>2, <1>3, <3>1, <3>2, <4>1
      <4>2. CASE j > PrefixLen
        <5>1. j - PrefixLen \in 1..Lengths[i] /\ w[j] = Payload(i)[j - PrefixLen]
          BY <1>1, <1>2, <1>3, <3>1, <3>2, <4>2
        <5>2. QED
          BY <1>2, <5>1
      <4>3. QED
        BY <1>1, <3>2, <4>1, <4>2
    <3>4. from + PrefixLen = 0
      BY <1>1, <2>2
    <3>5. QED
      BY <1>1, <2>2, <3>2, <3>3, <3>4
  <2>3. QED
    BY <2>1, <2>2
<1> HIDE DEF w, from
<1>5. Chain(w)
  <2> SUFFICES ASSUME NEW j \in 1..Len(w), NEW k \in 1..Len(w), j <= k
               PROVE  LET b == w[j] place == w[j].place + (k - j) IN
                      /\ place <= Lengths[b.item] => w[k] = Byte(b.item, place)
                      /\ place = Lengths[b.item] + 1 => w[k] = FirstByte(b.item + 1)
    BY DEF Chain
  <2>1. w[j] = Byte(i, from + j) /\ w[k] = Byte(i, from + k)
    BY <1>4
  <2>2. w[j].item = i /\ w[j].place + (k - j) = from + k
    BY <1>1, <1>4, <2>1 DEF Byte
  <2>3. from + k <= Lengths[i]
    BY <1>1, <1>4
  <2>4. QED
    BY <1>1, <2>1, <2>2, <2>3
<1>6. Spans(FirstByte(i), w, FirstByte(i + 1))
  <2>1. w # <<>> /\ 1 \in 1..Len(w) /\ Len(w) \in 1..Len(w)
    BY <1>4
  <2>2. w[1] = FirstByte(i)
    BY <1>1, <1>4, <2>1 DEF FirstByte, Byte, from
  <2>3. w[Len(w)] = Byte(i, Lengths[i])
    <3>1. from + Len(w) = Lengths[i]
      BY <1>1, <1>4
    <3>2. QED
      BY <1>4, <2>1, <3>1
  <2>4. After(w[Len(w)]) = FirstByte(i + 1)
    BY <2>3 DEF After, Byte
  <2>5. QED
    BY <2>1, <2>2, <2>4 DEF Spans
<1>7. \A j \in 1..Len(w) : w[j].item = i
  BY <1>4, FieldsOf
<1>8. w # <<>>
  BY <1>4
<1>9. QED
  BY <1>4, <1>5, <1>6, <1>7, <1>8 DEF w

\* The two parts of a sequence.
LEMMA Parts ==
    ASSUME NEW S, NEW s \in Seq(S), NEW n \in 0..Len(s)
    PROVE  LET front == SubSeq(s, 1, n) rest == SubSeq(s, n + 1, Len(s)) IN
           /\ front \in Seq(S) /\ Len(front) = n /\ \A i \in 1..n : front[i] = s[i]
           /\ rest \in Seq(S) /\ Len(rest) = Len(s) - n
           /\ \A i \in 1..Len(s) - n : rest[i] = s[i + n]
<1>1. Len(s) \in Nat /\ n \in Nat /\ \A i \in 1..Len(s) : s[i] \in S
  OBVIOUS
<1>2. SubSeq(s, 1, n) \in Seq(S) /\ Len(SubSeq(s, 1, n)) = n
  BY <1>1, SubSeqProperties
<1>3. \A i \in 1..n : SubSeq(s, 1, n)[i] = s[i]
  BY <1>1
<1>4. SubSeq(s, n + 1, Len(s)) \in Seq(S) /\ Len(SubSeq(s, n + 1, Len(s))) = Len(s) - n
  BY <1>1, SubSeqProperties
<1>5. \A i \in 1..Len(s) - n : SubSeq(s, n + 1, Len(s))[i] = s[i + n]
  BY <1>1
<1>6. QED
  BY <1>2, <1>3, <1>4, <1>5

\* What moves from the front of one sequence to the end of another leaves the two
\* joined as they were.
LEMMA MovedOn ==
    ASSUME NEW S, NEW s \in Seq(S), NEW t \in Seq(S), NEW n \in 0..Len(t)
    PROVE  (s \o SubSeq(t, 1, n)) \o SubSeq(t, n + 1, Len(t)) = s \o t
<1> DEFINE front == SubSeq(t, 1, n)
           rest == SubSeq(t, n + 1, Len(t))
<1>1. /\ front \in Seq(S) /\ Len(front) = n /\ \A i \in 1..n : front[i] = t[i]
      /\ rest \in Seq(S) /\ Len(rest) = Len(t) - n
      /\ \A i \in 1..Len(t) - n : rest[i] = t[i + n]
  BY Parts
<1> HIDE DEF front, rest
<1>2. (s \o front) \o rest = s \o (front \o rest)
  <2>1. s \in Seq(S) /\ front \in Seq(S) /\ rest \in Seq(S)
    BY <1>1
  <2>2. QED
    BY <2>1, ConcatAssociative
<1>3. front \o rest = t
  <2>1. front \o rest \in Seq(S) /\ Len(front \o rest) = Len(t)
    <3>1. front \o rest \in Seq(S) /\ Len(front \o rest) = Len(front) + Len(rest)
      BY <1>1, ConcatProperties, Zenon
    <3>2. Len(t) \in Nat
      OBVIOUS
    <3>3. QED
      BY <1>1, <3>1, <3>2
  <2>2. \A i \in 1..Len(t) : (front \o rest)[i] = t[i]
    <3>1. \A i \in 1..Len(front) + Len(rest) :
             (front \o rest)[i] = IF i <= Len(front) THEN front[i] ELSE rest[i - Len(front)]
      <4>1. front \in Seq(S) /\ rest \in Seq(S)
        BY <1>1
      <4>2. QED
        BY <4>1, ConcatProperties
    <3> SUFFICES ASSUME NEW i \in 1..Len(t) PROVE (front \o rest)[i] = t[i]
      OBVIOUS
    <3>2. Len(t) \in Nat /\ i \in 1..Len(front) + Len(rest)
      BY <1>1
    <3>3. i <= n \/ (i - n \in 1..Len(t) - n /\ (i - n) + n = i /\ ~(i <= n))
      BY <1>1, <3>2
    <3>4. QED
      BY <1>1, <3>1, <3>2, <3>3
  <2>3. QED
    BY <2>1, <2>2, SeqEqual, Zenon
<1>4. QED
  BY <1>2, <1>3 DEF front, rest

\* In a chain each byte is the one after that in front of it.
LEMMA ChainNext ==
    ASSUME NEW s \in Seq(Bytes), Chain(s), NEW n \in 1..Len(s), n + 1 \in 1..Len(s),
           NEW i \in 1..Size, NEW p \in Int, s[n] = Byte(i, p), p <= Lengths[i]
    PROVE  s[n + 1] = After(s[n])
<1>1. /\ p + 1 <= Lengths[i] => s[n + 1] = Byte(i, p + 1)
      /\ p + 1 = Lengths[i] + 1 => s[n + 1] = FirstByte(i + 1)
  <2>1. s[n].item = i /\ s[n].place = p /\ (n + 1) - n = 1 /\ n <= n + 1
    BY FieldsOf
  <2>2. LET b == s[n] place == s[n].place + ((n + 1) - n) IN
        /\ place <= Lengths[b.item] => s[n + 1] = Byte(b.item, place)
        /\ place = Lengths[b.item] + 1 => s[n + 1] = FirstByte(b.item + 1)
    BY <2>1 DEF Chain
  <2>3. QED
    BY <2>1, <2>2
<1>2. Lengths[i] \in Nat
  BY Sizes
<1>3. CASE p = Lengths[i]
  <2>1. After(s[n]) = FirstByte(i + 1)
    BY <1>3, FieldsOf DEF After
  <2>2. QED
    BY <1>1, <1>2, <1>3, <2>1
<1>4. CASE p < Lengths[i]
  <2>1. After(s[n]) = Byte(i, p + 1)
    BY <1>2, <1>4, FieldsOf DEF After
  <2>2. QED
    BY <1>1, <1>2, <1>4, <2>1
<1>5. QED
  BY <1>2, <1>3, <1>4

\* Before an item is read, its first byte comes next.
LEMMA Starting ==
    ASSUME NEW i \in Nat
    PROVE  After(Byte(i, IF i \in Raw THEN 0 ELSE -PrefixLen)) = FirstByte(i)
<1>1. /\ PrefixLen \in Nat \ {0}
      /\ i \in Raw => i \in 1..Size /\ Lengths[i] = 1
      /\ i \in 1..Size => Lengths[i] \in Nat
  BY Sizes, FramingAssumption DEF Size
<1>2. CASE i \in Raw
  BY <1>1, <1>2, FieldsOf DEF After, FirstByte
<1>3. CASE i \notin Raw
  BY <1>1, <1>3, FieldsOf DEF After, FirstByte
<1>4. QED
  BY <1>2, <1>3

-------------------------------------------------------------------------------
(* Types.                                                                   *)

LEMMA AsksType == ASSUME NEW i, Asks(i) PROVE phase' \in {"length", "payload"} /\ need' \in Nat
BY FramingAssumption DEF Asks

LEMMA TypeStep == TypeOK /\ [Next]_vars => TypeOK'
<1> SUFFICES ASSUME TypeOK, [Next]_vars PROVE TypeOK'
  OBVIOUS
<1>0. Size \in Nat /\ sent \in Nat /\ Len(data) \in Nat /\ need \in Nat
  BY Sizes DEF TypeOK
<1>1. CASE SendItem
  <2>1. sent + 1 \in 1..Size
    BY <1>0, <1>1 DEF SendItem
  <2>2. out' \in Seq(Bytes)
    BY <1>1, <2>1, WireIsChain DEF SendItem
  <2>3. QED
    BY <1>1, <2>1, <2>2 DEF SendItem, TypeOK, receiver
<1>2. ASSUME NEW n \in 1..Len(out), KernelTakes(n) PROVE TypeOK'
  <2>1. out \in Seq(Bytes) /\ pipe \in Seq(Bytes) /\ n \in 0..Len(out)
    BY <1>2 DEF TypeOK
  <2>2. SubSeq(out, 1, n) \in Seq(Bytes) /\ SubSeq(out, n + 1, Len(out)) \in Seq(Bytes)
    BY <2>1, Parts
  <2>3. pipe \o SubSeq(out, 1, n) \in Seq(Bytes)
    BY <2>1, <2>2, ConcatProperties
  <2>4. out' \in Seq(Bytes) /\ pipe' \in Seq(Bytes)
    BY <1>2, <2>2, <2>3 DEF KernelTakes
  <2>5. QED
    BY <1>2, <2>4 DEF KernelTakes, TypeOK, receiver
<1>3. CASE SenderCloses
  BY <1>3 DEF SenderCloses, TypeOK, receiver
<1>4. ASSUME NEW n \in 1..Len(pipe), Recv(n) PROVE TypeOK'
  <2>1. data \in Seq(Bytes) /\ pipe \in Seq(Bytes) /\ n \in 0..Len(pipe)
    BY <1>4 DEF TypeOK
  <2>2. /\ SubSeq(pipe, 1, n) \in Seq(Bytes) /\ Len(SubSeq(pipe, 1, n)) = n
        /\ SubSeq(pipe, n + 1, Len(pipe)) \in Seq(Bytes)
    BY <2>1, Parts
  <2>3. /\ data \o SubSeq(pipe, 1, n) \in Seq(Bytes)
        /\ Len(data \o SubSeq(pipe, 1, n)) = Len(data) + Len(SubSeq(pipe, 1, n))
    BY <2>1, <2>2, ConcatProperties
  <2>4. Len(data') = Len(data) + n
    BY <1>4, <2>2, <2>3 DEF Recv
  <2>5. Len(data') <= need'
    BY <1>0, <1>4, <2>4 DEF Recv, Missing
  <2>6. data' \in Seq(Bytes) /\ pipe' \in Seq(Bytes)
    BY <1>4, <2>2, <2>3 DEF Recv
  <2>7. QED
    BY <1>4, <2>5, <2>6 DEF Recv, TypeOK
<1>5. CASE LengthRead
  <2>1. need' \in Nat
    <3>1. \A i \in 1..Size : Lengths[i] \in Nat
      BY Sizes
    <3>2. 0..PrefixLen \subseteq Nat
      BY FramingAssumption
    <3>3. LengthsIn(data) \subseteq Nat
      BY <3>1, <3>2 DEF LengthsIn
    <3>4. QED
      BY <1>5, <3>3 DEF LengthRead
  <2>2. data' \in Seq(Bytes) /\ Len(data') <= need'
    BY <1>5, <2>1 DEF LengthRead
  <2>3. QED
    BY <1>5, <2>1, <2>2 DEF LengthRead, TypeOK
<1>6. CASE FrameRead
  <2>1. frames' \in Seq(Seq(Bytes))
    BY <1>6, AppendProperties DEF FrameRead, TypeOK
  <2>2. phase' \in {"length", "payload"} \cup Ended /\ need' \in Nat
    BY <1>6, AsksType DEF FrameRead, Ended
  <2>3. data' \in Seq(Bytes) /\ Len(data') <= need'
    BY <1>6, <2>2 DEF FrameRead
  <2>4. QED
    BY <1>6, <2>1, <2>2, <2>3 DEF FrameRead, TypeOK
<1>7. CASE Eof \/ RecvRaises
  BY <1>7 DEF Eof, RecvRaises, Ended, TypeOK
<1>8. CASE UNCHANGED vars
  BY <1>8 DEF vars, TypeOK
<1>9. QED
  BY <1>1, <1>2, <1>3, <1>4, <1>5, <1>6, <1>7, <1>8 DEF Next, Sender, Receiver

\* The counts, the buffers and what has been read stay what they are declared to
\* be (framing.py:8-29).
THEOREM TypeCorrect == Spec => []TypeOK
<1>1. Init => TypeOK
  <2> SUFFICES ASSUME Init PROVE TypeOK
    OBVIOUS
  <2>1. phase \in {"length", "payload"} /\ need \in Nat
    BY FramingAssumption DEF Init
  <2>2. sent \in 0..Size
    BY Sizes DEF Init
  <2>3. out \in Seq(Bytes) /\ pipe \in Seq(Bytes) /\ data \in Seq(Bytes) /\ Len(data) = 0
    BY DEF Init
  <2>4. frames \in Seq(Seq(Bytes))
    BY EmptySeq DEF Init
  <2>5. closed \in BOOLEAN /\ reset \in BOOLEAN
    BY DEF Init
  <2>6. Len(data) <= need
    BY <2>1, <2>3
  <2>7. QED
    BY <2>1, <2>2, <2>3, <2>4, <2>5, <2>6 DEF TypeOK
<1>2. QED
  BY <1>1, TypeStep, PTL DEF Spec

-------------------------------------------------------------------------------
(* The steps.                                                               *)

LEMMA FlowFacts ==
    ASSUME TypeOK
    PROVE  /\ Flow \in Seq(Bytes) /\ Len(Flow) = Len(pipe) + Len(out)
           /\ Len(pipe) \in Nat /\ Len(out) \in Nat
           /\ \A j \in 1..Len(pipe) : Flow[j] = pipe[j]
           /\ \A j \in 1..Len(out) : Flow[Len(pipe) + j] = out[j]
           /\ \A j \in 1..Len(Flow) : Flow[j] \in Bytes
<1>1. pipe \in Seq(Bytes) /\ out \in Seq(Bytes)
  BY DEF TypeOK
<1>2. QED
  BY <1>1, Joined DEF Flow

\* Where the receiver is.
LEMMA PlaceFacts ==
    ASSUME TypeOK, Whole
    PROVE  /\ Item \in Nat \ {0} /\ Base \in Int /\ Place \in Int /\ Place = Base + Len(data)
           /\ Len(data) \in Nat /\ need \in Nat /\ sent \in 0..Size /\ Size \in Nat
           /\ phase \notin Ended => phase \in {"length", "payload"}
           /\ Item \in 1..Size => Lengths[Item] \in Nat
           /\ phase \notin Ended /\ Item \in 1..Size => Base + need <= Lengths[Item]
<1>1. Len(data) \in Nat /\ need \in Nat /\ sent \in 0..Size /\ Len(frames) \in Nat
  BY DEF TypeOK
<1>2. Base \in Int
  BY FramingAssumption DEF Base
<1>3. phase \notin Ended => phase \in {"length", "payload"}
  BY DEF TypeOK
<1>4. Item \in 1..Size => Lengths[Item] \in Nat
  BY Sizes
<1>5. phase \notin Ended /\ Item \in 1..Size => Base + need <= Lengths[Item]
  <2>1. CASE phase = "length" /\ Item \in 1..Size
    <3>1. phase \notin Ended
      BY <2>1 DEF Ended
    <3>2. need = PrefixLen /\ Base = -PrefixLen /\ PrefixLen \in Nat
      BY <2>1, <3>1, FramingAssumption DEF Whole, Collected, Base
    <3>3. QED
      BY <1>4, <2>1, <3>2
  <2>2. CASE phase # "length" /\ phase \notin Ended /\ Item \in 1..Size
    BY <1>4, <2>2 DEF Whole, Collected, Base
  <2>3. QED
    BY <2>1, <2>2
<1>6. QED
  BY <1>1, <1>2, <1>3, <1>4, <1>5, Sizes DEF Item, Place

\* When recvExact has all of a payload it has that of the item, and the item was
\* sent to its last byte.
LEMMA ReadIsWhole ==
    ASSUME TypeOK, Whole, phase = "payload", HasAll
    PROVE  /\ data = Payload(Item) /\ Item <= sent /\ (out # <<>> => Item < sent)
           /\ After(Byte(Item, Place)) = FirstByte(Item + 1)
<1>0. phase \notin Ended /\ phase # "length"
  BY DEF Ended
<1>1. /\ Item \in 1..Size /\ Lengths[Item] \in Nat /\ need = Lengths[Item] /\ Base = 0
      /\ Len(data) = Lengths[Item] /\ Place = Lengths[Item]
      /\ \A j \in 1..Len(data) : data[j] = Byte(Item, j)
  BY <1>0, PlaceFacts DEF Whole, Collected, Base, HasAll, Place
<1>2. data = Payload(Item)
  <2>1. data = [j \in 1..Len(data) |-> data[j]]
    BY DEF TypeOK
  <2>2. QED
    BY <1>1, <2>1 DEF Payload
<1>3. After(Byte(Item, Place)) = FirstByte(Item + 1)
  BY <1>1, FieldsOf DEF After
<1>4. Item \in Nat /\ sent \in Nat
  BY PlaceFacts
<1>5. CASE Flow = <<>>
  <2>1. FirstByte(Item + 1) = FirstByte(sent + 1)
    BY <1>0, <1>3, <1>5 DEF Whole, Flows, Spans
  <2>2. Item + 1 = sent + 1
    BY <2>1, FieldsOf DEF FirstByte
  <2>3. out = <<>>
    BY <1>5, FlowFacts DEF TypeOK
  <2>4. QED
    BY <1>2, <1>3, <1>4, <2>2, <2>3
<1>6. CASE Flow # <<>>
  <2>1. Flow[1] = FirstByte(Item + 1)
    BY <1>0, <1>3, <1>6 DEF Whole, Flows, Spans
  <2>2. Flow[1].item = Item + 1
    BY <2>1, FieldsOf DEF FirstByte
  <2>3. Flow[1].item <= sent
    <3>1. CASE pipe # <<>>
      <4>1. 1 \in 1..Len(pipe) /\ Flow[1] = pipe[1]
        BY <3>1, FlowFacts DEF TypeOK
      <4>2. QED
        BY <4>1 DEF Whole
    <3>2. CASE pipe = <<>>
      <4>1. Len(pipe) = 0 /\ Len(out) # 0
        BY <1>6, <3>2, FlowFacts
      <4>2. 1 \in 1..Len(out) /\ Flow[1] = out[1]
        BY <4>1, FlowFacts
      <4>3. QED
        BY <1>4, <4>2 DEF Whole
    <3>3. QED
      BY <3>1, <3>2
  <2>4. QED
    BY <1>2, <1>3, <1>4, <2>2, <2>3
<1>7. QED
  BY <1>5, <1>6

LEMMA WholeSend == ASSUME TypeOK, TypeOK', Whole, SendItem PROVE Whole'
<1> DEFINE a == After(Byte(Item, Place))
           w == Wire(sent + 1)
<1>1. /\ out = <<>> /\ out' = w /\ sent' = sent + 1 /\ sent \in Nat /\ sent + 1 \in 1..Size
      /\ UNCHANGED <<pipe, phase, need, data, frames>>
  BY PlaceFacts DEF SendItem, receiver
<1>2. /\ w \in Seq(Bytes) /\ w # <<>> /\ Chain(w) /\ \A j \in 1..Len(w) : w[j].item = sent + 1
      /\ Spans(FirstByte(sent + 1), w, FirstByte(sent + 2))
  BY <1>1, WireIsChain
<1>3. pipe \in Seq(Bytes) /\ Flow = pipe /\ Flow' = pipe \o w
  BY <1>1 DEF TypeOK, Flow
<1> HIDE DEF w
<1>4. ASSUME phase \notin Ended PROVE Flows'
  <2>1. Chain(pipe) /\ Spans(a, pipe, FirstByte(sent + 1))
    BY <1>3, <1>4 DEF Whole, Flows
  <2>2. pipe # <<>> => w[1] = After(pipe[Len(pipe)])
    BY <1>2, <2>1 DEF Spans
  <2>3. Chain(pipe \o w)
    BY <1>2, <1>3, <2>1, <2>2, ChainsJoin
  <2>4. /\ Len(pipe \o w) = Len(pipe) + Len(w) /\ Len(pipe) \in Nat /\ Len(w) \in Nat \ {0}
        /\ \A i \in 1..Len(pipe) : (pipe \o w)[i] = pipe[i]
        /\ \A i \in 1..Len(w) : (pipe \o w)[Len(pipe) + i] = w[i]
    BY <1>2, <1>3, Joined
  <2>5. (pipe \o w)[Len(pipe \o w)] = w[Len(w)] /\ pipe \o w # <<>>
    BY <2>4
  <2>6. (pipe \o w)[1] = a
    <3>1. CASE pipe = <<>>
      BY <1>2, <2>1, <2>4, <3>1 DEF Spans
    <3>2. CASE pipe # <<>>
      BY <1>3, <2>1, <2>4, <3>2 DEF Spans
    <3>3. QED
      BY <3>1, <3>2
  <2>7. Spans(a, pipe \o w, FirstByte(sent + 2))
    BY <1>2, <2>5, <2>6 DEF Spans
  <2>8. a' = a /\ FirstByte(sent + 1)' = FirstByte(sent + 2)
    BY <1>1 DEF Item, Place, Base
  <2>9. QED
    BY <1>3, <2>3, <2>7, <2>8 DEF Flows
<1>5. phase' \notin Ended => Collected'
  BY <1>1 DEF Whole, Collected, Item, Base
<1>6. \A j \in 1..Len(pipe') : pipe'[j].item <= sent'
  <2>1. \A j \in 1..Len(pipe) : pipe[j].item \in Int
    <3>1. \A j \in 1..Len(pipe) : pipe[j] \in Bytes
      BY <1>3
    <3>2. QED
      BY <3>1 DEF Bytes
  <2>2. QED
    BY <1>1, <2>1 DEF Whole
<1>7. \A j \in 1..Len(out') : out'[j].item = sent'
  BY <1>1, <1>2
<1>8. Len(frames') <= sent' /\ Len(frames') < sent' /\ WholeFrames'
  <2>1. Len(frames) \in Nat
    BY DEF TypeOK
  <2>2. QED
    BY <1>1, <2>1 DEF Whole, WholeFrames
<1>9. QED
  BY <1>1, <1>4, <1>5, <1>6, <1>7, <1>8 DEF Whole

LEMMA WholeKernel ==
    ASSUME TypeOK, Whole, NEW n \in 1..Len(out), KernelTakes(n)
    PROVE  Whole'
<1>1. /\ pipe' = pipe \o SubSeq(out, 1, n) /\ out' = SubSeq(out, n + 1, Len(out))
      /\ UNCHANGED <<sent, phase, need, data, frames>>
  BY DEF KernelTakes, receiver
<1>2. pipe \in Seq(Bytes) /\ out \in Seq(Bytes) /\ n \in 0..Len(out) /\ Len(out) \in Nat
  BY DEF TypeOK
<1>3. Flow' = Flow
  <2>1. (pipe \o SubSeq(out, 1, n)) \o SubSeq(out, n + 1, Len(out)) = pipe \o out
    BY <1>2, MovedOn
  <2>2. QED
    BY <1>1, <2>1 DEF Flow
<1>4. phase' \notin Ended => Collected' /\ Flows'
  BY <1>1, <1>3 DEF Whole, Collected, Flows, Item, Place, Base
<1>5. /\ SubSeq(out, 1, n) \in Seq(Bytes) /\ Len(SubSeq(out, 1, n)) = n
      /\ \A i \in 1..n : SubSeq(out, 1, n)[i] = out[i]
      /\ Len(SubSeq(out, n + 1, Len(out))) = Len(out) - n
      /\ \A i \in 1..Len(out) - n : SubSeq(out, n + 1, Len(out))[i] = out[i + n]
  BY <1>2, Parts
<1>6. \A j \in 1..Len(pipe') : pipe'[j].item <= sent'
  <2> DEFINE front == SubSeq(out, 1, n)
  <2>1. /\ Len(pipe \o front) = Len(pipe) + n /\ Len(pipe) \in Nat
        /\ \A i \in 1..Len(pipe) : (pipe \o front)[i] = pipe[i]
        /\ \A i \in 1..n : (pipe \o front)[Len(pipe) + i] = out[i]
    BY <1>2, <1>5, Joined
  <2> SUFFICES ASSUME NEW j \in 1..Len(pipe \o front) PROVE (pipe \o front)[j].item <= sent
    BY <1>1
  <2> HIDE DEF front
  <2>2. CASE j <= Len(pipe)
    BY <2>1, <2>2 DEF Whole
  <2>3. CASE j > Len(pipe)
    <3>1. j - Len(pipe) \in 1..n /\ j = Len(pipe) + (j - Len(pipe)) /\ j - Len(pipe) \in 1..Len(out)
      BY <1>2, <2>1, <2>3
    <3>2. (pipe \o front)[j] = out[j - Len(pipe)]
      BY <2>1, <3>1
    <3>3. out[j - Len(pipe)].item = sent /\ sent \in Nat
      BY <3>1, PlaceFacts DEF Whole
    <3>4. QED
      BY <3>2, <3>3
  <2>4. QED
    BY <2>1, <2>2, <2>3
<1>7. \A j \in 1..Len(out') : out'[j].item = sent'
  <2>1. \A j \in 1..Len(out) - n : j + n \in 1..Len(out)
    BY <1>2
  <2>2. QED
    BY <1>1, <1>5, <2>1 DEF Whole
<1>8. out' # <<>> => out # <<>>
  BY <1>2
<1>9. QED
  BY <1>1, <1>4, <1>6, <1>7, <1>8 DEF Whole, WholeFrames

\* The next n bytes of the flow are the next n of the item.
LEMMA NextBytes ==
    ASSUME TypeOK, Whole, phase \notin Ended, NEW n \in Nat, n <= Len(Flow), Len(data) + n <= need
    PROVE  /\ \A k \in 1..n : Flow[k] = Byte(Item, Place + k)
           /\ n # 0 => Item \in 1..Size
<1>1. /\ Flow \in Seq(Bytes) /\ Chain(Flow)
      /\ Spans(After(Byte(Item, Place)), Flow, FirstByte(sent + 1))
      /\ Len(Flow) \in Nat /\ \A j \in 1..Len(Flow) : Flow[j] \in Bytes
  BY FlowFacts DEF Whole, Flows
<1>2. /\ Place \in Int /\ Base \in Int /\ Place = Base + Len(data) /\ Len(data) \in Nat
      /\ Item \in Nat /\ need \in Nat
  BY PlaceFacts
<1> SUFFICES ASSUME n # 0
             PROVE  Item \in 1..Size /\ \A k \in 1..n : Flow[k] = Byte(Item, Place + k)
  OBVIOUS
<1>3. 1 \in 1..Len(Flow) /\ Flow # <<>>
  BY <1>1
<1>4. Flow[1] = After(Byte(Item, Place))
  BY <1>1, <1>3 DEF Spans
<1>5. Item \in 1..Size
  <2>1. CASE phase = "payload"
    BY <2>1 DEF Whole, Collected, Ended
  <2>2. CASE phase = "length"
    <3>1. Place # 0 /\ Place < 0
      BY <1>2, <2>2, FramingAssumption DEF Whole, Collected, Base, Ended
    <3>2. ~(Item \in 1..Size /\ Place = Lengths[Item])
      BY <3>1, Sizes
    <3>3. Flow[1] = Byte(Item, Place + 1)
      BY <1>4, <3>2, FieldsOf DEF After
    <3>4. Flow[1].item \in 1..Size
      BY <1>1, <1>3 DEF Bytes
    <3>5. QED
      BY <3>3, <3>4, FieldsOf
  <2>3. QED
    BY <2>1, <2>2, PlaceFacts
<1>6. Lengths[Item] \in Nat /\ Base + need <= Lengths[Item]
  BY <1>5, PlaceFacts
<1>7. Flow[1] = Byte(Item, Place + 1)
  <2>1. Place # Lengths[Item]
    BY <1>2, <1>6
  <2>2. QED
    BY <1>4, <2>1, FieldsOf DEF After
<1>8. ASSUME NEW k \in 1..n PROVE Flow[k] = Byte(Item, Place + k)
  <2>1. k \in 1..Len(Flow) /\ 1 <= k /\ Place + 1 + (k - 1) = Place + k
    BY <1>1, <1>2
  <2>2. Flow[1].item = Item /\ Flow[1].place + (k - 1) = Place + k
    BY <1>7, <2>1, FieldsOf
  <2>3. Flow[1].place + (k - 1) <= Lengths[Flow[1].item] =>
            Flow[k] = Byte(Flow[1].item, Flow[1].place + (k - 1))
    BY <1>1, <1>3, <2>1 DEF Chain
  <2>4. Place + k <= Lengths[Item]
    BY <1>2, <1>6
  <2>5. QED
    BY <2>2, <2>3, <2>4
<1>9. QED
  BY <1>5, <1>8

LEMMA WholeRecv ==
    ASSUME TypeOK, TypeOK', Whole, NEW n \in 1..Len(pipe), Recv(n)
    PROVE  Whole'
<1>1. /\ phase \notin Ended /\ data' = data \o SubSeq(pipe, 1, n)
      /\ pipe' = SubSeq(pipe, n + 1, Len(pipe)) /\ n <= need - Len(data)
      /\ UNCHANGED <<sent, out, phase, need, frames>>
  BY DEF Recv, Reading, Missing
<1>2. pipe \in Seq(Bytes) /\ data \in Seq(Bytes) /\ n \in 0..Len(pipe) /\ n \in Nat \ {0}
  BY DEF TypeOK
<1>3. /\ Place \in Int /\ Base \in Int /\ Place = Base + Len(data) /\ Len(data) \in Nat
      /\ Item \in Nat /\ need \in Nat
  BY PlaceFacts
<1>4. /\ SubSeq(pipe, 1, n) \in Seq(Bytes) /\ Len(SubSeq(pipe, 1, n)) = n
      /\ \A i \in 1..n : SubSeq(pipe, 1, n)[i] = pipe[i]
      /\ Len(pipe') = Len(pipe) - n
      /\ \A i \in 1..Len(pipe) - n : pipe'[i] = pipe[i + n]
  BY <1>1, <1>2, Parts
<1>5. /\ Flow \in Seq(Bytes) /\ Len(Flow) = Len(pipe) + Len(out)
      /\ Len(pipe) \in Nat /\ Len(out) \in Nat
      /\ \A j \in 1..Len(pipe) : Flow[j] = pipe[j]
      /\ \A j \in 1..Len(out) : Flow[Len(pipe) + j] = out[j]
  BY FlowFacts
<1>6. /\ Flow' \in Seq(Bytes) /\ Len(Flow') = Len(pipe') + Len(out)
      /\ \A j \in 1..Len(pipe') : Flow'[j] = pipe'[j]
      /\ \A j \in 1..Len(out) : Flow'[Len(pipe') + j] = out[j]
  <2>1. pipe' \in Seq(Bytes) /\ out \in Seq(Bytes) /\ Flow' = pipe' \o out
    BY <1>1 DEF TypeOK, Flow
  <2>2. QED
    BY <2>1, Joined
<1>7. n <= Len(Flow) /\ Len(data) + n <= need
  BY <1>1, <1>2, <1>3, <1>5
<1>8. Item \in 1..Size /\ \A k \in 1..n : Flow[k] = Byte(Item, Place + k)
  BY <1>1, <1>2, <1>7, NextBytes
<1>9. Len(data') = Len(data) + n
  BY <1>1, <1>2, <1>4, Joined
<1>10. Collected'
  <2>1. Item' = Item /\ Base' = Base
    BY <1>1 DEF Item, Base
  <2>2. ASSUME NEW j \in 1..Len(data) + n PROVE data'[j] = Byte(Item, Base + j)
    <3>1. CASE j <= Len(data)
      <4>1. data'[j] = data[j] /\ j \in 1..Len(data)
        BY <1>1, <1>2, <1>3, <1>4, <3>1, Joined
      <4>2. QED
        BY <1>1, <4>1 DEF Whole, Collected
    <3>2. CASE j > Len(data)
      <4> DEFINE k == j - Len(data)
      <4>1. k \in 1..n /\ j = Len(data) + k /\ Place + k = Base + j /\ k \in 1..Len(pipe)
        BY <1>2, <1>3, <3>2
      <4> HIDE DEF k
      <4>2. data'[j] = SubSeq(pipe, 1, n)[k]
        BY <1>1, <1>2, <1>4, <4>1, Joined
      <4>3. QED
        BY <1>4, <1>5, <1>8, <4>1, <4>2
    <3>3. QED
      BY <1>3, <3>1, <3>2
  <2>3. Len(data') <= need'
    BY <1>1, <1>7, <1>9
  <2>4. QED
    BY <1>1, <1>9, <2>1, <2>2, <2>3 DEF Whole, Collected
<1>11. Flows'
  <2>1. Chain(Flow) /\ Spans(After(Byte(Item, Place)), Flow, FirstByte(sent + 1)) /\ Flow # <<>>
    BY <1>1, <1>2, <1>5 DEF Whole, Flows
  <2>2. Len(Flow') + n = Len(Flow) /\ Len(Flow') \in Nat
    BY <1>2, <1>4, <1>5, <1>6
  <2>3. ASSUME NEW i \in 1..Len(Flow') PROVE Flow'[i] = Flow[i + n]
    <3>1. CASE i <= Len(pipe')
      <4>1. i \in 1..Len(pipe') /\ i \in 1..Len(pipe) - n /\ i + n \in 1..Len(pipe)
        BY <1>2, <1>4, <1>5, <3>1
      <4>2. Flow'[i] = pipe[i + n]
        BY <1>4, <1>6, <4>1
      <4>3. QED
        BY <1>5, <4>1, <4>2
    <3>2. CASE i > Len(pipe')
      <4> DEFINE k == i - Len(pipe')
      <4>1. k \in 1..Len(out) /\ i = Len(pipe') + k /\ i + n = Len(pipe) + k
        BY <1>2, <1>4, <1>5, <1>6, <3>2
      <4> HIDE DEF k
      <4>2. QED
        BY <1>5, <1>6, <4>1
    <3>3. QED
      BY <1>2, <1>4, <1>5, <3>1, <3>2
  <2>4. Chain(Flow')
    BY <1>2, <1>5, <1>6, <2>1, <2>2, <2>3, ChainRest
  <2>5. /\ Place + n \in Int /\ Lengths[Item] \in Nat /\ Place + n <= Lengths[Item]
        /\ Flow[n] = Byte(Item, Place + n)
    BY <1>1, <1>2, <1>3, <1>7, <1>8, PlaceFacts
  <2>6. After(Byte(Item, Place))' = After(Flow[n])
    <3>1. Place' = Place + n /\ Item' = Item
      BY <1>1, <1>3, <1>9 DEF Place, Base, Item
    <3>2. After(Byte(Item, Place))' = After(Byte(Item, Place + n))
      BY <3>1
    <3>3. QED
      BY <2>5, <3>2
  <2>7. CASE Flow' = <<>>
    <3>1. n = Len(Flow)
      BY <1>2, <1>5, <2>2, <2>7
    <3>2. After(Flow[n]) = FirstByte(sent + 1)
      BY <2>1, <3>1 DEF Spans
    <3>3. QED
      BY <1>1, <2>4, <2>6, <2>7, <3>2 DEF Flows, Spans
  <2>8. CASE Flow' # <<>>
    <3>1. /\ Len(Flow') \in 1..Len(Flow') /\ 1 \in 1..Len(Flow')
          /\ n \in 1..Len(Flow) /\ n + 1 \in 1..Len(Flow) /\ Len(Flow') + n = Len(Flow)
      BY <1>2, <1>5, <1>6, <2>2, <2>8
    <3>2. Flow[n + 1] = After(Flow[n])
      BY <1>5, <1>8, <2>1, <2>5, <3>1, ChainNext
    <3>3. Flow'[1] = After(Flow[n])
      BY <1>2, <2>3, <3>1, <3>2
    <3>4. Flow'[Len(Flow')] = Flow[Len(Flow)]
      BY <2>3, <3>1
    <3>5. After(Flow[Len(Flow)]) = FirstByte(sent + 1)
      BY <2>1 DEF Spans
    <3>6. QED
      BY <1>1, <2>4, <2>6, <2>8, <3>3, <3>4, <3>5 DEF Flows, Spans
  <2>9. QED
    BY <2>7, <2>8
<1>12. \A j \in 1..Len(pipe') : pipe'[j].item <= sent
  <2>1. \A j \in 1..Len(pipe') : j + n \in 1..Len(pipe) /\ pipe'[j] = pipe[j + n]
    BY <1>2, <1>4, <1>5
  <2>2. QED
    BY <2>1 DEF Whole
<1>13. QED
  BY <1>1, <1>10, <1>11, <1>12 DEF Whole, WholeFrames

LEMMA WholeLength == ASSUME TypeOK, Whole, LengthRead PROVE Whole'
<1>1. /\ phase = "length" /\ phase \notin Ended /\ phase' = "payload" /\ data' = <<>>
      /\ need' \in LengthsIn(data) /\ Len(data) >= need
      /\ UNCHANGED <<sent, out, pipe, frames>>
  BY DEF LengthRead, HasAll, Ended
<1>2. Item \in Nat /\ Len(data) \in Nat /\ need \in Nat /\ PrefixLen \in Nat \ {0}
  BY PlaceFacts, FramingAssumption
<1>3. /\ Len(data) = PrefixLen /\ Base = -PrefixLen /\ Place = 0
      /\ \A j \in 1..PrefixLen : data[j] = Byte(Item, j - PrefixLen)
  BY <1>1, <1>2 DEF Whole, Collected, Base, Place
<1>4. Item \in 1..Size
  <2>1. 1 \in 1..Len(data) /\ data[1] = Byte(Item, 1 - PrefixLen)
    BY <1>2, <1>3
  <2>2. data[1] \in Bytes
    BY <2>1 DEF TypeOK
  <2>3. data[1].item \in 1..Size
    BY <2>2 DEF Bytes
  <2>4. QED
    BY <2>1, <2>3, FieldsOf
<1>5. data = Prefix(Item)
  <2>1. data = [j \in 1..Len(data) |-> data[j]]
    BY DEF TypeOK
  <2>2. QED
    BY <1>3, <2>1 DEF Prefix
<1>6. \A i \in 1..Size : data = Prefix(i) => i = Item
  <2> SUFFICES ASSUME NEW i \in 1..Size, data = Prefix(i) PROVE i = Item
    OBVIOUS
  <2>1. Prefix(i)[1] = Byte(i, 1 - PrefixLen)
    BY <1>2 DEF Prefix
  <2>2. data[1] = Byte(Item, 1 - PrefixLen)
    BY <1>2, <1>3
  <2>3. QED
    BY <2>1, <2>2, FieldsOf
<1>7. need' = Lengths[Item]
  <2> DEFINE whole == {i \in 1..Size : data = Prefix(i)}
  <2>1. whole = {Item}
    BY <1>4, <1>5, <1>6
  <2>2. LengthsIn(data) = {Lengths[i] : i \in whole}
    BY <2>1 DEF LengthsIn
  <2>3. QED
    BY <1>1, <2>1, <2>2
<1>8. Item' = Item /\ Base' = 0 /\ Len(data') = 0 /\ Place' = 0 /\ phase' # "length"
  BY <1>1 DEF Item, Base, Place
<1>9. Collected'
  <2>1. Lengths[Item] \in Nat
    BY <1>4, Sizes
  <2>2. QED
    BY <1>4, <1>7, <1>8, <2>1 DEF Collected
<1>10. Flows'
  BY <1>1, <1>3, <1>8 DEF Whole, Flows, Flow
<1>11. QED
  BY <1>1, <1>9, <1>10 DEF Whole, WholeFrames

LEMMA WholeFrame == ASSUME TypeOK, TypeOK', Whole, FrameRead PROVE Whole'
<1>1. /\ phase = "payload" /\ HasAll /\ frames' = Append(frames, data) /\ data' = <<>>
      /\ UNCHANGED <<sent, out, pipe>>
      /\ phase' = "done" \/ Asks(Len(frames) + 2)
  BY DEF FrameRead
<1>2. /\ data = Payload(Item) /\ Item <= sent /\ (out # <<>> => Item < sent)
      /\ After(Byte(Item, Place)) = FirstByte(Item + 1)
  BY <1>1, ReadIsWhole
<1>3. /\ Len(frames) \in Nat /\ Len(frames') = Len(frames) + 1 /\ Item = Len(frames) + 1
      /\ Item' = Item + 1 /\ frames'[Item] = data
      /\ \A i \in 1..Len(frames) : frames'[i] = frames[i]
  BY <1>1 DEF TypeOK, Item
<1>4. WholeFrames'
  <2> SUFFICES ASSUME NEW i \in 1..Len(frames') PROVE i <= sent /\ frames'[i] = Payload(i)
    BY <1>1 DEF WholeFrames
  <2>1. CASE i = Item
    BY <1>2, <1>3, <2>1
  <2>2. CASE i # Item
    <3>1. i \in 1..Len(frames)
      BY <1>3, <2>2
    <3>2. QED
      BY <1>3, <3>1 DEF Whole, WholeFrames
  <2>3. QED
    BY <2>1, <2>2
<1>5. ASSUME phase' \notin Ended PROVE Collected' /\ Flows'
  <2>1. Asks(Item')
    BY <1>1, <1>3, <1>5 DEF Ended
  <2>2. /\ phase' = IF Item' \in Raw THEN "payload" ELSE "length"
        /\ need' = IF Item' \in Raw THEN 1 ELSE PrefixLen
    BY <2>1 DEF Asks
  <2>3. Item' \in Nat
    BY <1>3
  <2>4. Collected' /\ After(Byte(Item, Place))' = FirstByte(Item')
    <3>1. /\ PrefixLen \in Nat \ {0} /\ Len(data') = 0
          /\ Item' \in Raw => Item' \in 1..Size /\ Lengths[Item'] = 1
      BY <1>1, FramingAssumption DEF Size
    <3>2. Collected'
      BY <2>2, <3>1 DEF Collected
    <3>3. Base' = (IF Item' \in Raw THEN 0 ELSE -PrefixLen) /\ Base' \in Int
      BY <2>2, <3>1 DEF Base
    <3>4. Place' = Base'
      BY <3>1, <3>3 DEF Place
    <3>5. QED
      BY <2>3, <3>2, <3>3, <3>4, Starting
  <2>5. After(Byte(Item, Place))' = After(Byte(Item, Place)) /\ Flow' = Flow /\ sent' = sent
    BY <1>1, <1>2, <1>3, <2>4 DEF Flow
  <2>6. phase \notin Ended
    BY <1>1 DEF Ended
  <2>7. QED
    BY <2>4, <2>5, <2>6 DEF Whole, Flows
<1>6. QED
  BY <1>1, <1>2, <1>3, <1>4, <1>5 DEF Whole

-------------------------------------------------------------------------------

LEMMA InitIsWhole == Init => Whole
<1> SUFFICES ASSUME Init PROVE Whole
  OBVIOUS
<1>1. Item = 1 /\ Len(frames) = 0 /\ sent = 0 /\ out = <<>> /\ pipe = <<>> /\ data = <<>>
  BY DEF Init, Item
<1>2. Flow = <<>>
  BY <1>1 DEF Flow
<1>3. Collected /\ After(Byte(Item, Place)) = FirstByte(Item)
  <2>1. /\ PrefixLen \in Nat \ {0} /\ Len(data) = 0
        /\ Item \in Raw => Item \in 1..Size /\ Lengths[Item] = 1
    BY <1>1, FramingAssumption DEF Size
  <2>2. Collected
    BY <1>1, <2>1 DEF Init, Collected
  <2>3. Base = (IF Item \in Raw THEN 0 ELSE -PrefixLen) /\ Base \in Int
    BY <1>1, <2>1 DEF Init, Base
  <2>4. Place = Base
    BY <2>1, <2>3 DEF Place
  <2>5. QED
    BY <1>1, <2>2, <2>3, <2>4, Starting
<1>4. Chain(Flow)
  BY <1>2 DEF Chain
<1>5. Flows
  BY <1>1, <1>2, <1>3, <1>4 DEF Flows, Spans
<1>6. QED
  BY <1>1, <1>3, <1>5 DEF Whole, WholeFrames

LEMMA StepIsWhole == ASSUME TypeOK, TypeOK', Whole, [Next]_vars PROVE Whole'
<1>1. CASE SenderCloses
  BY <1>1
  DEF SenderCloses, receiver, Whole, Collected, Flows, Flow, Item, Place, Base, WholeFrames
<1>2. CASE Eof \/ RecvRaises
  BY <1>2 DEF Eof, RecvRaises, Ended, Whole, WholeFrames
<1>3. CASE UNCHANGED vars
  BY <1>3 DEF vars, Whole, Collected, Flows, Flow, Item, Place, Base, WholeFrames
<1>4. QED
  BY <1>1, <1>2, <1>3, WholeSend, WholeKernel, WholeRecv, WholeLength, WholeFrame
  DEF Next, Sender, Receiver

\* Every payload that is returned to the receiver is the whole payload of the item
\* in its place, however the kernel cuts the stream up and wherever the connection
\* breaks off: nothing of its neighbours, and nothing cut short (framing.py:8-24).
THEOREM FramesAreWhole == Spec => []WholeFrames
<1>1. Init => Whole
  BY InitIsWhole
<1>2. TypeOK /\ TypeOK' /\ Whole /\ [Next]_vars => Whole'
  BY StepIsWhole
<1>3. Whole => WholeFrames
  BY DEF Whole
<1>4. QED
  BY <1>1, <1>2, <1>3, TypeCorrect, PTL DEF Spec

-------------------------------------------------------------------------------
(* The FIFO of whole items.                                                 *)

\* What the refinement mapping makes of the state.
BarPut == IF closed /\ out # <<>> THEN sent - 1 ELSE sent
BarEnding == CASE phase = "end" -> "end"
               [] phase = "raised" -> "failed"
               [] OTHER -> "none"
bar == <<BarPut, Len(frames), closed, BarEnding>>

\* When recvExact finds the connection at its end, no item that was sent whole is
\* left unread.
LEMMA AllIsTaken ==
    ASSUME TypeOK, Whole, Reading, AtEof
    PROVE  Len(frames) = BarPut
<1>1. phase \notin Ended /\ Len(data) < need /\ pipe = <<>> /\ closed
  BY DEF Reading, AtEof
<1>2. /\ Place \in Int /\ Base \in Int /\ Place = Base + Len(data) /\ Len(data) \in Nat
      /\ need \in Nat /\ Len(frames) \in Nat /\ Item = Len(frames) + 1 /\ sent \in Nat
  BY PlaceFacts DEF TypeOK, Item
<1>3. Len(Flow) = Len(out) /\ Len(out) \in Nat /\ \A j \in 1..Len(out) : Flow[j] = out[j]
  <2>1. Len(pipe) = 0
    BY <1>1
  <2>2. QED
    BY <2>1, FlowFacts
<1>4. CASE out # <<>>
  <2>1. 1 <= Len(Flow) /\ Len(data) + 1 <= need /\ 1 \in 1..Len(out)
    BY <1>1, <1>2, <1>3, <1>4 DEF TypeOK
  <2>2. Flow[1] = Byte(Item, Place + 1)
    BY <1>1, <2>1, NextBytes
  <2>3. Flow[1].item = sent
    BY <1>3, <2>1 DEF Whole
  <2>4. Item = sent
    BY <2>2, <2>3, FieldsOf
  <2>5. QED
    BY <1>1, <1>2, <1>4, <2>4 DEF BarPut
<1>5. CASE out = <<>>
  <2>1. After(Byte(Item, Place)) = FirstByte(sent + 1)
    <3>1. Flow = <<>>
      BY <1>3, <1>5, FlowFacts
    <3>2. QED
      BY <1>1, <3>1 DEF Whole, Flows, Spans
  <2>2. ~(Item \in 1..Size /\ Place = Lengths[Item])
    BY <1>1, <1>2, PlaceFacts
  <2>3. After(Byte(Item, Place)) = Byte(Item, Place + 1)
    BY <2>2, FieldsOf DEF After
  <2>4. Item = sent + 1
    BY <2>1, <2>3, FieldsOf DEF FirstByte
  <2>5. QED
    BY <1>2, <1>5, <2>4 DEF BarPut
<1>6. QED
  BY <1>4, <1>5

LEMMA StepIsFifo ==
    ASSUME TypeOK, Whole, Next
    PROVE  Fifo!Next \/ UNCHANGED bar
<1>0. sent \in Nat /\ Len(frames) \in Nat /\ Size \in Nat
  BY PlaceFacts DEF TypeOK
<1>1. CASE SendItem
  <2>1. /\ ~closed /\ ~closed' /\ sent < Size /\ sent' = sent + 1
        /\ UNCHANGED <<closed, frames, phase>>
    BY <1>1 DEF SendItem, receiver
  <2>2. BarPut = sent /\ BarPut' = sent + 1 /\ BarEnding' = BarEnding
    BY <2>1 DEF BarPut, BarEnding
  <2>3. Fifo!Put
    BY <2>1, <2>2 DEF Fifo!Put, BarPut, BarEnding
  <2>4. QED
    BY <2>3 DEF Fifo!Next
<1>2. CASE \E n \in 1..Len(out) : KernelTakes(n)
  <2>1. ~closed /\ UNCHANGED <<closed, sent, frames, phase>>
    BY <1>2 DEF KernelTakes, receiver
  <2>2. QED
    BY <2>1 DEF bar, BarPut, BarEnding
<1>3. CASE SenderCloses
  <2>1. ~closed /\ closed' = TRUE /\ UNCHANGED <<sent, out, frames, phase>>
    BY <1>3 DEF SenderCloses, receiver
  <2>2. BarPut = sent /\ BarPut' = (IF out # <<>> THEN sent - 1 ELSE sent) /\ BarEnding' = BarEnding
    BY <2>1 DEF BarPut, BarEnding
  <2>3. BarPut' \in Len(frames)..sent
    BY <1>0, <2>2 DEF Whole
  <2>4. BarPut' \in {BarPut, BarPut - 1} \cap Len(frames)..BarPut
    BY <2>2, <2>3
  <2>5. Fifo!Close
    BY <2>1, <2>2, <2>4 DEF Fifo!Close, BarPut, BarEnding
  <2>6. QED
    BY <2>5 DEF Fifo!Next
<1>4. CASE LengthRead \/ \E n \in 1..Len(pipe) : Recv(n)
  <2>1. /\ UNCHANGED <<sent, out, closed, frames>>
        /\ phase' = phase \/ (phase = "length" /\ phase' = "payload")
    BY <1>4 DEF Recv, LengthRead
  <2>2. BarPut' = BarPut /\ BarEnding' = BarEnding
    BY <2>1 DEF BarPut, BarEnding
  <2>3. QED
    BY <2>1, <2>2 DEF bar
<1>5. CASE FrameRead
  <2>1. /\ phase = "payload" /\ HasAll /\ frames' = Append(frames, data)
        /\ phase' \in {"done", "payload", "length"} /\ UNCHANGED <<sent, out, closed>>
    BY <1>5 DEF FrameRead, Asks
  <2>2. Item <= sent /\ (out # <<>> => Item < sent) /\ Item = Len(frames) + 1
    BY <2>1, ReadIsWhole DEF Item
  <2>3. Len(frames) < BarPut
    BY <1>0, <2>2 DEF BarPut
  <2>4. BarEnding = "none" /\ BarEnding' = "none" /\ BarPut' = BarPut
    BY <2>1 DEF BarPut, BarEnding
  <2>5. Len(frames') = Len(frames) + 1
    BY <2>1 DEF TypeOK
  <2>6. Fifo!Take
    BY <2>1, <2>3, <2>4, <2>5 DEF Fifo!Take, BarPut, BarEnding
  <2>7. QED
    BY <2>6 DEF Fifo!Next
<1>6. CASE Eof
  <2>1. /\ phase \in {"length", "payload"} /\ phase' = "end" /\ closed
        /\ UNCHANGED <<sent, out, closed, frames>>
    BY <1>6, PlaceFacts DEF Eof, Reading, AtEof
  <2>2. Len(frames) = BarPut
    BY <1>6, AllIsTaken DEF Eof
  <2>3. BarEnding = "none" /\ BarEnding' = "end" /\ BarPut' = BarPut
    BY <2>1 DEF BarPut, BarEnding
  <2>4. Fifo!End
    BY <2>1, <2>2, <2>3 DEF Fifo!End, BarPut, BarEnding
  <2>5. QED
    BY <2>4 DEF Fifo!Next
<1>7. CASE RecvRaises
  <2>1. /\ phase \in {"length", "payload"} /\ phase' = "raised"
        /\ UNCHANGED <<sent, out, closed, frames>>
    BY <1>7, PlaceFacts DEF RecvRaises, Reading
  <2>2. BarEnding = "none" /\ BarEnding' = "failed" /\ BarPut' = BarPut
    BY <2>1 DEF BarPut, BarEnding
  <2>3. Fifo!Fail
    BY <2>1, <2>2 DEF Fifo!Fail, BarPut, BarEnding
  <2>4. QED
    BY <2>3 DEF Fifo!Next
<1>8. QED
  BY <1>1, <1>2, <1>3, <1>4, <1>5, <1>6, <1>7 DEF Next, Sender, Receiver

\* Framing is the FIFO of whole items that module Transport takes for granted: in
\* order, none skipped, and the end is reported after the last whole item and not
\* before (framing.py:8-29).
THEOREM FramingIsFifo == Spec => FifoSpec
<1>1. Init => Fifo!Init
  BY DEF Init, Fifo!Init
<1>2. TypeOK /\ Whole /\ [Next]_vars
          => [Fifo!Next]_<<BarPut, Len(frames), closed, BarEnding>>
  <2> SUFFICES ASSUME TypeOK, Whole, [Next]_vars PROVE Fifo!Next \/ UNCHANGED bar
    BY DEF bar
  <2>1. CASE UNCHANGED vars
    BY <2>1 DEF vars, bar, BarPut, BarEnding
  <2>2. QED
    BY <2>1, StepIsFifo
<1>3. Spec => [](TypeOK /\ Whole)
  BY TypeCorrect, InitIsWhole, StepIsWhole, PTL DEF Spec
<1>4. QED
  BY <1>1, <1>2, <1>3, PTL DEF Spec, FifoSpec, Fifo!Spec, Fifo!vars, BarPut, BarEnding

===============================================================================
