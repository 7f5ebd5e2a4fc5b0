---------------------------- MODULE PluginProofs ----------------------------
(***************************************************************************)
(* Theorems about the plugin in IDA: the stream that connects it with the  *)
(* center (Framing), for messages of any number and size; the plugin at    *)
(* its end (PluginClient), for any number of clients; and its text search  *)
(* (SearchText): wherever its calls stop, and whatever is edited between   *)
(* them, following the cursors neither repeats nor misses an item.         *)
(***************************************************************************)
EXTENDS Framing, PluginClient, SearchText, TLAPS

-----------------------------------------------------------------------------
(* The types of Framing.                                                   *)

LEMMA FrameType == ASSUME NEW m \in Messages PROVE Frame(m) \in Seq(Bytes)
<1>1. HeaderSize + PayloadSize[m] \in Nat
  BY SizeAssumption
<1>2. \A i \in 1..(HeaderSize + PayloadSize[m]) : Frame(m)[i] \in Bytes
  BY DEF Frame, Bytes
<1>3. Frame(m) \in [1..(HeaderSize + PayloadSize[m]) -> Bytes]
  BY <1>2 DEF Frame
<1> QED BY <1>1, <1>3

LEMMA LengthTypes == HeaderSize \in Nat \ {0} /\ Lengths \subseteq Nat
BY SizeAssumption DEF Lengths

(* What any sender does to the stream.                                     *)
LEMMA WriteTypes == ASSUME TypeOK, NEW m \in Messages, Write(m) PROVE TypeOK'
<1>1. wire' \in Seq(Bytes) /\ sent' \in Seq(Messages)
  BY FrameType DEF Write, TypeOK
<1> QED BY <1>1 DEF Write, readerVars, TypeOK

LEMMA CloseTypes == ASSUME TypeOK, Close PROVE TypeOK'
<1>1. ASSUME NEW m \in Messages, NEW n \in 1..(Len(Frame(m)) - 1)
      PROVE  SubSeq(Frame(m), 1, n) \in Seq(Bytes)
  BY FrameType
<1>2. ASSUME NEW s \in Seq(Bytes), wire' = wire \o s PROVE wire' \in Seq(Bytes)
  BY <1>2 DEF TypeOK
<1>3. wire' \in Seq(Bytes)
  BY <1>1, <1>2 DEF Close, TypeOK
<1> QED BY <1>3 DEF Close, readerVars, TypeOK

(* No read takes more than the buffer has room for.                        *)
LEMMA ReadTypes ==
    ASSUME TypeOK, NEW n \in 1..Len(wire), Read(n)
    PROVE  /\ wire' \in Seq(Bytes) /\ buffer' \in Seq(Bytes)
           /\ Len(buffer') <= IF part = "header" THEN HeaderSize ELSE length
<1>1. SubSeq(wire, 1, n) \in Seq(Bytes) /\ Len(SubSeq(wire, 1, n)) = n
  BY DEF TypeOK
<1>2. SubSeq(wire, n + 1, Len(wire)) \in Seq(Bytes)
  BY DEF TypeOK
<1>3. buffer' \in Seq(Bytes) /\ Len(buffer') = Len(buffer) + n
  BY <1>1 DEF TypeOK, Read
<1>4. Len(buffer') <= IF part = "header" THEN HeaderSize ELSE length
  BY <1>3, LengthTypes DEF TypeOK, Read, Wanted
<1> QED BY <1>2, <1>3, <1>4 DEF Read

LEMMA HeaderTypes == ASSUME TypeOK, NEW max, HeaderRead(max) PROVE TypeOK'
<1>1. CASE Fail /\ UNCHANGED <<part, length, buffer>>
  BY <1>1 DEF Fail, HeaderRead, senderVars, TypeOK
<1>2. CASE part' = "payload" /\ length' \in Lengths /\ buffer' = <<>> /\ UNCHANGED outcome
  BY <1>2, LengthTypes DEF HeaderRead, senderVars, TypeOK
<1> QED BY <1>1, <1>2 DEF HeaderRead

LEMMA PayloadTypes == ASSUME TypeOK, PayloadRead PROVE TypeOK'
<1>1. ASSUME NEW m \in Messages, delivered' = Append(delivered, m)
      PROVE  delivered' \in Seq(Messages)
  BY <1>1 DEF TypeOK
<1>2. delivered' \in Seq(Messages)
  BY <1>1 DEF PayloadRead, TypeOK
<1>3. outcome' \in {"reading", "failed"}
  BY DEF PayloadRead, Fail
<1> QED BY <1>2, <1>3, LengthTypes DEF PayloadRead, senderVars, TypeOK

LEMMA EndTypes == ASSUME TypeOK, EndOfStream PROVE TypeOK'
BY DEF EndOfStream, senderVars, TypeOK

LEMMA TypeInit == ASSUME Init PROVE TypeOK
BY LengthTypes DEF Init, TypeOK

(* In both directions.                                                     *)
LEMMA TypeNext == ASSUME TypeOK, [CenterNext \/ PluginNext]_vars PROVE TypeOK'
<1>1. CASE ReadMore
  BY <1>1, ReadTypes DEF ReadMore, senderVars, TypeOK
<1>2. CASE ReadAtOnce
  <2>1. outcome' \in {"reading", "failed"}
    BY <1>2 DEF ReadAtOnce, Fail
  <2> QED BY <1>2, <2>1, ReadTypes DEF ReadAtOnce, senderVars, TypeOK
<1>3. CASE UNCHANGED vars
  BY <1>3 DEF vars, senderVars, readerVars, TypeOK
<1>4. PluginWrites \/ CenterWrites => TypeOK'
  BY WriteTypes DEF PluginWrites, CenterWrites
<1>5. CASE CenterReads
  BY <1>1, <1>5, EndTypes, HeaderTypes, PayloadTypes DEF CenterReads
<1>6. CASE PluginReads
  BY <1>2, <1>6, EndTypes, HeaderTypes, PayloadTypes DEF PluginReads
<1> QED BY <1>3, <1>4, <1>5, <1>6, CloseTypes DEF CenterNext, PluginNext

(* Towards the center, the variables keep their types: neither reader puts *)
(* more into its buffer than the header or the payload it waits for.       *)
THEOREM CenterTypeCorrect == CenterSpec => []TypeOK
<1>1. Init => TypeOK
  BY TypeInit
<1>2. TypeOK /\ [CenterNext]_vars => TypeOK'
  BY TypeNext
<1> QED BY <1>1, <1>2, PTL DEF CenterSpec

(* And towards the plugin.                                                 *)
THEOREM PluginTypeCorrect == PluginSpec => []TypeOK
<1>1. Init => TypeOK
  BY TypeInit
<1>2. TypeOK /\ [PluginNext]_vars => TypeOK'
  BY TypeNext
<1> QED BY <1>1, <1>2, PTL DEF PluginSpec

-----------------------------------------------------------------------------
(* The promise of MessagePipe.                                             *)

Size(m) == HeaderSize + PayloadSize[m]
Byte(m, i) == [of |-> m, at |-> i]

LEMMA Sizes ==
    /\ HeaderSize \in Nat /\ HeaderSize > 0 /\ MaxPayload \in Nat
    /\ \A m \in Messages : /\ PayloadSize[m] \in Nat /\ PayloadSize[m] > 0
                           /\ Size(m) \in Nat /\ Size(m) = HeaderSize + PayloadSize[m]
BY SizeAssumption DEF Size

LEMMA CutOff ==
    ASSUME NEW S, NEW s \in Seq(S), NEW a \in Nat, NEW b \in Nat, a <= b, b <= Len(s)
    PROVE  /\ SubSeq(s, a + 1, b) \in Seq(S) /\ Len(SubSeq(s, a + 1, b)) = b - a
           /\ \A i \in 1..(b - a) : SubSeq(s, a + 1, b)[i] = s[a + i]
<1>1. /\ SubSeq(s, a + 1, b) \in Seq(S) /\ Len(SubSeq(s, a + 1, b)) = b - a
      /\ \A i \in 1..(b - a) : SubSeq(s, a + 1, b)[i] = s[(a + 1) + i - 1]
  OBVIOUS
<1>2. \A i \in 1..(b - a) : (a + 1) + i - 1 = a + i
  OBVIOUS
<1>3. \A i \in 1..(b - a) : SubSeq(s, a + 1, b)[i] = s[a + i]
  BY <1>1, <1>2, Zenon
<1> QED BY <1>1, <1>3, Zenon

LEMMA Joined ==
    ASSUME NEW S, NEW s \in Seq(S), NEW t \in Seq(S)
    PROVE  /\ s \o t \in Seq(S) /\ Len(s) \in Nat /\ Len(t) \in Nat
           /\ Len(s \o t) = Len(s) + Len(t)
           /\ \A i \in 1..Len(s) : (s \o t)[i] = s[i]
           /\ \A i \in 1..Len(t) : (s \o t)[Len(s) + i] = t[i]
OBVIOUS

LEMMA Same ==
    ASSUME NEW S, NEW s \in Seq(S), NEW t \in Seq(S), Len(s) = Len(t),
           \A i \in 1..Len(s) : s[i] = t[i]
    PROVE  s = t
OBVIOUS

LEMMA FrameFacts ==
    ASSUME NEW m \in Messages
    PROVE  /\ Len(Frame(m)) = Size(m) /\ Len(Header(m)) = HeaderSize
           /\ Len(Payload(m)) = PayloadSize[m]
           /\ \A i \in 1..Size(m) : Frame(m)[i] = Byte(m, i)
           /\ \A i \in 1..HeaderSize : Header(m)[i] = Byte(m, i)
           /\ \A i \in 1..PayloadSize[m] : Payload(m)[i] = Byte(m, HeaderSize + i)
           /\ Frame(m) \in Seq(Bytes) /\ Header(m) \in Seq(Bytes) /\ Payload(m) \in Seq(Bytes)
<1>1. Frame(m) \in Seq(Bytes)
  BY FrameType
<1>2. /\ Len(Frame(m)) = Size(m)
      /\ \A i \in 1..Size(m) : Frame(m)[i] = Byte(m, i)
  BY Sizes DEF Frame, Size, Byte
<1>3. /\ HeaderSize \in Nat /\ 0 \in Nat /\ Size(m) \in Nat /\ 0 <= HeaderSize
      /\ HeaderSize <= Size(m) /\ 0 + 1 = 1 /\ HeaderSize - 0 = HeaderSize
      /\ Size(m) - HeaderSize = PayloadSize[m]
      /\ \A i \in 1..HeaderSize : i \in 1..Size(m) /\ 0 + i = i
      /\ \A i \in 1..PayloadSize[m] : HeaderSize + i \in 1..Size(m)
  BY Sizes
<1> DEFINE f == Frame(m)
<1> HIDE DEF f
<1>4. f \in Seq(Bytes) /\ Len(f) = Size(m)
  BY <1>1, <1>2 DEF f
<1>5. /\ SubSeq(f, 1, HeaderSize) \in Seq(Bytes) /\ Len(SubSeq(f, 1, HeaderSize)) = HeaderSize
      /\ \A i \in 1..HeaderSize : SubSeq(f, 1, HeaderSize)[i] = f[i]
  BY <1>4, <1>3
<1>6. /\ SubSeq(f, HeaderSize + 1, Size(m)) \in Seq(Bytes)
      /\ Len(SubSeq(f, HeaderSize + 1, Size(m))) = PayloadSize[m]
      /\ \A i \in 1..PayloadSize[m] : SubSeq(f, HeaderSize + 1, Size(m))[i] = f[HeaderSize + i]
  <2> DEFINE d == Size(m) - HeaderSize
  <2>1. /\ SubSeq(f, HeaderSize + 1, Size(m)) \in Seq(Bytes)
        /\ Len(SubSeq(f, HeaderSize + 1, Size(m))) = d
        /\ \A i \in 1..d : SubSeq(f, HeaderSize + 1, Size(m))[i] = f[HeaderSize + i]
    BY <1>4, <1>3, CutOff
  <2>2. d = PayloadSize[m]
    BY <1>3
  <2> HIDE DEF d
  <2> QED BY <2>1, <2>2
<1>7. Header(m) = SubSeq(f, 1, HeaderSize)
  BY DEF Header, f
<1>8. Payload(m) = SubSeq(f, HeaderSize + 1, Size(m))
  BY <1>2 DEF Payload, f
<1>9. /\ Header(m) \in Seq(Bytes) /\ Len(Header(m)) = HeaderSize
      /\ \A i \in 1..HeaderSize : Header(m)[i] = Byte(m, i)
  BY <1>2, <1>3, <1>5, <1>7, Zenon DEF f
<1>10. /\ Payload(m) \in Seq(Bytes) /\ Len(Payload(m)) = PayloadSize[m]
       /\ \A i \in 1..PayloadSize[m] : Payload(m)[i] = Byte(m, HeaderSize + i)
  BY <1>2, <1>3, <1>6, <1>8, Zenon DEF f
<1> QED BY <1>1, <1>2, <1>9, <1>10

(* The bytes of a whole header or payload tell its message.                *)
LEMMA HeaderTells ==
    ASSUME NEW m \in Messages, NEW b \in Seq(Bytes), Len(b) = HeaderSize,
           \A i \in 1..HeaderSize : b[i] = Byte(m, i)
    PROVE  b = Header(m) /\ \A x \in Messages : b = Header(x) => x = m
<1>1. b = Header(m)
  BY FrameFacts, Same
<1>2. ASSUME NEW x \in Messages, b = Header(x) PROVE x = m
  <2>1. 1 \in 1..HeaderSize
    BY Sizes
  <2>2. b[1] = Byte(x, 1) /\ b[1] = Byte(m, 1)
    <3>1. Header(x)[1] = Byte(x, 1)
      BY <2>1, FrameFacts
    <3> QED BY <1>2, <2>1, <3>1, Zenon
  <2>3. Byte(x, 1) = Byte(m, 1)
    BY <2>2, Zenon
  <2> QED BY <2>3 DEF Byte
<1> QED BY <1>1, <1>2

LEMMA PayloadTells ==
    ASSUME NEW m \in Messages, NEW b \in Seq(Bytes), Len(b) = PayloadSize[m],
           \A i \in 1..PayloadSize[m] : b[i] = Byte(m, HeaderSize + i)
    PROVE  b = Payload(m) /\ \A x \in Messages : b = Payload(x) => x = m
<1>1. b = Payload(m)
  <2>1. /\ Payload(m) \in Seq(Bytes) /\ Len(Payload(m)) = PayloadSize[m]
        /\ \A i \in 1..PayloadSize[m] : Payload(m)[i] = Byte(m, HeaderSize + i)
    BY FrameFacts
  <2>2. Len(b) = Len(Payload(m)) /\ \A i \in 1..Len(b) : b[i] = Payload(m)[i]
    BY <2>1
  <2> QED BY <2>1, <2>2, Same
<1>2. ASSUME NEW x \in Messages, b = Payload(x) PROVE x = m
  <2>1. Len(b) = PayloadSize[x] /\ \A i \in 1..PayloadSize[x] : b[i] = Byte(x, HeaderSize + i)
    BY <1>2, FrameFacts
  <2>2. 1 \in 1..PayloadSize[m] /\ PayloadSize[m] = PayloadSize[x]
    BY <2>1, Sizes
  <2>3. b[1] = Byte(x, HeaderSize + 1) /\ b[1] = Byte(m, HeaderSize + 1)
    BY <2>1, <2>2
  <2> QED BY <2>3 DEF Byte
<1> QED BY <1>1, <1>2

(* The first n bytes ever written are bytes: message k begins after        *)
(* origin[k] of them, and r bytes of a message p that is cut off follow.    *)
Written(bytes, n, origin, p, r) ==
    /\ n \in Nat /\ r \in Nat /\ origin \in [Nat -> Nat]
    /\ \A k \in 1..Len(sent) :
          /\ origin[k + 1] = origin[k] + Size(sent[k])
          /\ \A i \in 1..Size(sent[k]) : bytes[origin[k] + i] = Byte(sent[k], i)
    /\ \A k \in 1..(Len(sent) + 1) : origin[k] <= n
    /\ n = origin[Len(sent) + 1] + r
    /\ r > 0 => /\ ~open /\ p \in Messages /\ r < Size(p)
                /\ \A i \in 1..r : bytes[origin[Len(sent) + 1] + i] = Byte(p, i)

(* Of these, the reader has in its buffer what follows the messages it has *)
(* delivered, the rest is on the wire, and a length is that of a message.  *)
Awaited(p) == IF Len(delivered) < Len(sent) THEN sent[Len(delivered) + 1] ELSE p
Base(origin) == origin[Len(delivered) + 1] + (IF part = "header" THEN 0 ELSE HeaderSize)

InBuffer(bytes, n, origin, p) ==
    /\ Len(delivered) <= Len(sent)
    /\ Base(origin) + Len(buffer) + Len(wire) = n
    /\ \A i \in 1..Len(buffer) : buffer[i] = bytes[Base(origin) + i]
    /\ \A i \in 1..Len(wire) : wire[i] = bytes[Base(origin) + Len(buffer) + i]
    /\ part = "payload" => length = PayloadSize[Awaited(p)] /\ length <= MaxPayload

StreamInv ==
    outcome = "reading" => \E bytes, n, origin, p, r :
        Written(bytes, n, origin, p, r) /\ InBuffer(bytes, n, origin, p)

Off == IF part = "header" THEN 0 ELSE HeaderSize

LEMMA Numbers ==
    ASSUME TypeOK, NEW bytes, NEW n, NEW origin, NEW p, NEW r,
           Written(bytes, n, origin, p, r), InBuffer(bytes, n, origin, p)
    PROVE  /\ Len(sent) \in Nat /\ Len(delivered) \in Nat /\ Len(delivered) <= Len(sent)
           /\ Len(buffer) \in Nat /\ Len(wire) \in Nat /\ length \in Nat
           /\ n \in Nat /\ r \in Nat /\ Off \in Nat
           /\ \A k \in Nat : origin[k] \in Nat
           /\ \A k \in 1..Len(sent) : sent[k] \in Messages
           /\ Base(origin) = origin[Len(delivered) + 1] + Off
           /\ origin[Len(delivered) + 1] \in Nat /\ Base(origin) \in Nat
           /\ Base(origin) + Len(buffer) + Len(wire) = n
<1>1. /\ Len(sent) \in Nat /\ Len(delivered) \in Nat
      /\ Len(buffer) \in Nat /\ Len(wire) \in Nat /\ length \in Nat
      /\ \A k \in 1..Len(sent) : sent[k] \in Messages
  BY LengthTypes DEF TypeOK
<1>2. n \in Nat /\ r \in Nat /\ \A k \in Nat : origin[k] \in Nat
  BY DEF Written
<1>3. Base(origin) = origin[Len(delivered) + 1] + Off /\ Off \in Nat
  BY Sizes DEF Base, Off
<1>4. origin[Len(delivered) + 1] \in Nat
  BY <1>1, <1>2
<1> QED BY <1>1, <1>2, <1>3, <1>4 DEF InBuffer

(* What is in the buffer belongs to the message that the reader awaits:    *)
(* the next one that was sent, of which every byte is there, or the one    *)
(* that was cut off, of which r bytes are.                                 *)
LEMMA Buffered ==
    ASSUME TypeOK, NEW bytes, NEW n, NEW origin, NEW p, NEW r,
           Written(bytes, n, origin, p, r), InBuffer(bytes, n, origin, p)
    PROVE  /\ Len(delivered) < Len(sent) =>
                  /\ Awaited(p) = sent[Len(delivered) + 1] /\ Awaited(p) \in Messages
                  /\ Off + Len(buffer) + Len(wire) >= Size(Awaited(p))
           /\ Len(delivered) = Len(sent) =>
                  /\ Awaited(p) = p /\ Off + Len(buffer) + Len(wire) = r
                  /\ r > 0 => ~open /\ p \in Messages /\ r < Size(p)
           /\ \A i \in 1..Len(buffer) : buffer[i] = Byte(Awaited(p), Off + i)
<1> DEFINE d == Len(delivered)
           st == origin[d + 1]
           needs == Size(Awaited(p))
<1>0. /\ d \in Nat /\ Len(sent) \in Nat /\ d <= Len(sent) /\ d + 1 \in Nat /\ d + 2 \in Nat
      /\ st \in Nat /\ Len(buffer) \in Nat /\ Len(wire) \in Nat /\ Off \in Nat
      /\ n \in Nat /\ r \in Nat /\ length \in Nat
      /\ Base(origin) = st + Off
      /\ (st + Off) + Len(buffer) + Len(wire) = n
  BY Numbers
<1> HIDE DEF d, st, needs
<1>1. CASE d < Len(sent)
  <2>1. /\ Awaited(p) = sent[d + 1] /\ d + 1 \in 1..Len(sent) /\ Awaited(p) \in Messages
        /\ d + 2 \in 1..(Len(sent) + 1) /\ (d + 1) + 1 = d + 2
    <3>1. d + 1 \in 1..Len(sent) /\ d + 2 \in 1..(Len(sent) + 1) /\ (d + 1) + 1 = d + 2
      BY <1>0, <1>1
    <3>2. \A k \in 1..Len(sent) : sent[k] \in Messages
      BY Numbers
    <3>3. Awaited(p) = sent[d + 1]
      BY <1>1, Zenon DEF Awaited, d
    <3> QED BY <3>1, <3>2, <3>3, Zenon
  <2>2. /\ origin[d + 2] = st + needs /\ origin[d + 2] <= n
        /\ \A i \in 1..needs : bytes[st + i] = Byte(Awaited(p), i)
    <3>1. origin[(d + 1) + 1] = st + Size(sent[d + 1])
      BY <2>1 DEF Written, st
    <3>2. \A i \in 1..Size(sent[d + 1]) : bytes[st + i] = Byte(sent[d + 1], i)
      BY <2>1 DEF Written, st
    <3>3. origin[d + 2] <= n
      BY <2>1 DEF Written
    <3> QED BY <2>1, <3>1, <3>2, <3>3 DEF needs
  <2>3. needs \in Nat /\ d + 1 \in Nat /\ d + 2 \in Nat
    BY <1>0, <2>1, Sizes DEF needs
  <2>4. Off + Len(buffer) + Len(wire) >= needs
    BY <1>0, <2>2, <2>3
  <2>5. ASSUME NEW i \in 1..Len(buffer) PROVE buffer[i] = Byte(Awaited(p), Off + i)
    <3>1. Off + i \in 1..needs /\ Base(origin) + i = st + (Off + i)
      <4>1. Off + Len(buffer) <= needs
        <5>1. CASE part = "header"
          <6>1. Len(buffer) <= HeaderSize /\ Off = 0
            BY <5>1 DEF TypeOK, Off
          <6>2. needs >= HeaderSize
            BY <2>1, Sizes DEF needs
          <6> QED BY <6>1, <6>2, <1>0, <2>3, Sizes
        <5>2. CASE part = "payload"
          <6>1. Len(buffer) <= length /\ Off = HeaderSize /\ length = PayloadSize[Awaited(p)]
            BY <5>2 DEF TypeOK, Off, InBuffer
          <6>2. /\ needs = HeaderSize + PayloadSize[Awaited(p)]
                /\ HeaderSize \in Nat /\ PayloadSize[Awaited(p)] \in Nat
            BY <2>1, Sizes DEF needs
          <6>3. PICK l, q : l = Len(buffer) /\ q = PayloadSize[Awaited(p)]
            OBVIOUS
          <6>4. l \in Nat /\ l <= q
            BY <1>0, <6>1, <6>3, Zenon
          <6>5. HeaderSize + l <= HeaderSize + q
            BY <6>2, <6>3, <6>4
          <6> QED BY <6>1, <6>2, <6>3, <6>5, Zenon
        <5> QED BY <5>1, <5>2 DEF TypeOK
      <4> QED BY <1>0, <2>3, <4>1
    <3>2. buffer[i] = bytes[Base(origin) + i]
      BY DEF InBuffer
    <3> QED BY <3>1, <3>2, <2>2
  <2> QED BY <1>0, <1>1, <2>1, <2>4, <2>5 DEF d, needs
<1>2. CASE d = Len(sent)
  <2>1. Awaited(p) = p /\ Off + Len(buffer) + Len(wire) = r /\ d + 1 \in Nat
    <3>1. n = st + r
      BY <1>2 DEF Written, d, st
    <3>3. Off + Len(buffer) + Len(wire) = r
      BY <1>0, <3>1
    <3> QED BY <1>0, <1>2, <3>3 DEF Awaited, d
  <2>2. /\ r > 0 => ~open /\ p \in Messages /\ r < Size(p)
        /\ r > 0 => \A i \in 1..r : bytes[st + i] = Byte(p, i)
    BY <1>2 DEF Written, d, st
  <2>3. ASSUME NEW i \in 1..Len(buffer) PROVE buffer[i] = Byte(Awaited(p), Off + i)
    <3>1. r > 0 /\ Off + i \in 1..r /\ Base(origin) + i = st + (Off + i)
      BY <1>0, <2>1
    <3>2. buffer[i] = bytes[Base(origin) + i]
      BY DEF InBuffer
    <3> QED BY <2>1, <2>2, <3>1, <3>2
  <2> QED BY <1>0, <1>2, <2>1, <2>2, <2>3 DEF d
<1> QED BY <1>0, <1>1, <1>2 DEF d

(* Bytes of a message follow the first n bytes.                            *)
Grown(bytes, n, m) == [j \in Nat |-> IF j <= n THEN bytes[j] ELSE Byte(m, j - n)]

LEMMA GrownBefore ==
    ASSUME NEW bytes, NEW n \in Nat, NEW m, NEW j \in Nat, j <= n
    PROVE  Grown(bytes, n, m)[j] = bytes[j]
BY DEF Grown

(* All that was written is still there, and q bytes of m are on the wire.  *)
Follows(more, n, origin, m, q) ==
    /\ Base(origin) + Len(buffer) + Len(wire') = n + q
    /\ \A k \in 1..Len(sent) : \A i \in 1..Size(sent[k]) :
          more[origin[k] + i] = Byte(sent[k], i)
    /\ \A i \in 1..Len(buffer) : buffer[i] = more[Base(origin) + i]
    /\ \A i \in 1..Len(wire') : wire'[i] = more[Base(origin) + Len(buffer) + i]
    /\ \A i \in 1..q : more[n + i] = Byte(m, i)

LEMMA Flow ==
    ASSUME TypeOK, NEW bytes, NEW n, NEW origin, NEW p, NEW r,
           Written(bytes, n, origin, p, r), InBuffer(bytes, n, origin, p),
           NEW m \in Messages, NEW t \in Seq(Bytes), wire' = wire \o t,
           \A i \in 1..Len(t) : t[i] = Byte(m, i)
    PROVE  Follows(Grown(bytes, n, m), n, origin, m, Len(t))
<1> DEFINE more == Grown(bytes, n, m)
           base == Base(origin)
           b == Len(buffer)
           w == Len(wire)
<1>0. n \in Nat
  BY Numbers
<1> HIDE DEF more, base, b, w
<1>1. /\ n \in Nat /\ base \in Nat /\ b \in Nat /\ w \in Nat /\ base + b + w = n
  BY Numbers DEF base, b, w
<1>2. /\ \A j \in Nat : j <= n => more[j] = bytes[j]
      /\ \A i \in Nat : i > 0 => more[n + i] = Byte(m, i)
  <2>1. ASSUME NEW j \in Nat, j <= n PROVE more[j] = bytes[j]
    BY <1>0, <2>1, GrownBefore DEF more
  <2>2. ASSUME NEW i \in Nat, i > 0 PROVE more[n + i] = Byte(m, i)
    <3>1. n + i \in Nat /\ ~(n + i <= n) /\ (n + i) - n = i
      BY <1>0, <2>2
    <3>2. more[n + i] = Byte(m, (n + i) - n)
      BY <3>1 DEF more, Grown
    <3> QED BY <3>1, <3>2
  <2> QED BY <2>1, <2>2
<1>3. /\ Len(t) \in Nat /\ Len(wire') = w + Len(t)
      /\ \A i \in 1..w : wire'[i] = wire[i]
      /\ \A i \in 1..Len(t) : wire'[w + i] = t[i]
  BY Joined DEF TypeOK, w
<1>4. /\ \A i \in 1..b : buffer[i] = bytes[base + i]
      /\ \A i \in 1..w : wire[i] = bytes[base + b + i]
  BY DEF InBuffer, base, b, w
<1>5. ASSUME NEW k \in 1..Len(sent), NEW i \in 1..Size(sent[k])
      PROVE  more[origin[k] + i] = Byte(sent[k], i)
  <2>1. origin[k + 1] = origin[k] + Size(sent[k]) /\ bytes[origin[k] + i] = Byte(sent[k], i)
    BY DEF Written
  <2>2. origin[k + 1] <= n
    BY Numbers DEF Written
  <2>3. origin[k] \in Nat /\ Size(sent[k]) \in Nat
    <3>1. sent[k] \in Messages
      BY Numbers
    <3>2. origin \in [Nat -> Nat]
      BY DEF Written
    <3>3. k \in Nat
      OBVIOUS
    <3>4. origin[k] \in Nat
      BY <3>2, <3>3
    <3> QED BY <3>1, <3>4, Sizes
  <2>4. origin[k] + i \in Nat /\ origin[k] + i <= n
    BY <1>1, <2>1, <2>2, <2>3
  <2> QED BY <1>2, <2>1, <2>4
<1>6. ASSUME NEW i \in 1..b PROVE buffer[i] = more[base + i]
  <2>1. base + i \in Nat /\ base + i <= n
    BY <1>1
  <2> QED BY <1>2, <1>4, <2>1
<1>7. ASSUME NEW i \in 1..Len(wire') PROVE wire'[i] = more[base + b + i]
  <2>1. CASE i <= w
    <3>1. base + b + i \in Nat /\ base + b + i <= n /\ i \in 1..w
      BY <1>1, <1>3, <2>1
    <3> QED BY <1>2, <1>3, <1>4, <3>1
  <2>2. CASE i > w
    <3>1. i - w \in 1..Len(t) /\ i = w + (i - w) /\ base + b + i = n + (i - w)
      BY <1>1, <1>3, <2>2
    <3>2. wire'[i] = t[i - w] /\ t[i - w] = Byte(m, i - w)
      BY <1>3, <3>1
    <3>3. more[n + (i - w)] = Byte(m, i - w)
      <4>1. i - w \in Nat /\ i - w > 0
        BY <3>1
      <4> QED BY <1>2, <4>1, Zenon
    <3> QED BY <3>1, <3>2, <3>3, Zenon
  <2> QED BY <1>1, <1>3, <2>1, <2>2
<1>8. /\ base + b + Len(wire') = n + Len(t)
      /\ \A i \in 1..Len(t) : more[n + i] = Byte(m, i)
  <2>1. base + b + Len(wire') = n + Len(t)
    <3> DEFINE lt == Len(t)
               lw == Len(wire')
    <3>1. lt \in Nat /\ lw = w + lt
      BY <1>3
    <3> HIDE DEF lt, lw
    <3>2. base + b + lw = n + lt
      BY <1>1, <3>1
    <3> QED BY <3>2 DEF lt, lw
  <2>2. ASSUME NEW i \in 1..Len(t) PROVE more[n + i] = Byte(m, i)
    <3>1. i \in Nat /\ i > 0
      BY <1>3
    <3> QED BY <1>2, <3>1
  <2> QED BY <2>1, <2>2
<1> QED BY <1>5, <1>6, <1>7, <1>8 DEF Follows, more, base, b, w

LEMMA WriteInv ==
    ASSUME TypeOK, StreamInv, NEW m \in Messages, Write(m)
    PROVE  StreamInv'
<1> SUFFICES ASSUME outcome = "reading"
             PROVE  \E bytes, n, origin, p, r :
                        Written(bytes, n, origin, p, r)' /\ InBuffer(bytes, n, origin, p)'
  BY DEF StreamInv, Write, readerVars
<1>1. PICK bytes, n, origin, p, r :
          Written(bytes, n, origin, p, r) /\ InBuffer(bytes, n, origin, p)
  BY DEF StreamInv
<1> DEFINE l == Len(sent)
           d == Len(delivered)
<1>2. /\ l \in Nat /\ d \in Nat /\ d <= l /\ n \in Nat
      /\ Size(m) \in Nat /\ Size(m) > 0
  <2>1. Size(m) \in Nat /\ Size(m) > 0
    BY Sizes
  <2>2. l \in Nat /\ d \in Nat /\ d <= l /\ n \in Nat
    BY <1>1, Numbers
  <2> QED BY <1>1, <2>1, <2>2
<1>3. r = 0
  BY <1>1, Numbers DEF Written, Write
<1>4. PICK starts :
      /\ \A k \in Nat : k # l + 2 => starts[k] = origin[k]
      /\ starts[l + 2] = n + Size(m) /\ starts \in [Nat -> Nat]
      /\ n = origin[l + 1]
  <2>1. l + 2 \in Nat /\ n + Size(m) \in Nat /\ l + 1 \in Nat
    BY <1>2
  <2>2. origin \in [Nat -> Nat] /\ n = origin[l + 1] + r
    BY <1>1 DEF Written
  <2>3. n = origin[l + 1]
    BY <1>3, <2>1, <2>2
  <2> WITNESS [origin EXCEPT ![l + 2] = n + Size(m)]
  <2> QED BY <2>1, <2>2, <2>3
<1>5. /\ Len(sent') = l + 1 /\ sent'[l + 1] = m
      /\ \A k \in 1..l : sent'[k] = sent[k]
  BY DEF Write, TypeOK
<1>6. PICK more : Follows(more, n, origin, m, Size(m))
  <2>1. Frame(m) \in Seq(Bytes) /\ Len(Frame(m)) = Size(m) /\ wire' = wire \o Frame(m)
        /\ \A i \in 1..Size(m) : Frame(m)[i] = Byte(m, i)
    BY FrameFacts DEF Write
  <2>2. Follows(Grown(bytes, n, m), n, origin, m, Len(Frame(m)))
    BY <1>1, <2>1, Flow
  <2> QED BY <2>1, <2>2
<1>7. Written(more, n + Size(m), starts, p, 0)'
  <2>1. ASSUME NEW k \in 1..(l + 1)
        PROVE  /\ starts[k + 1] = starts[k] + Size(sent'[k])
               /\ \A i \in 1..Size(sent'[k]) : more[starts[k] + i] = Byte(sent'[k], i)
    <3>1. CASE k = l + 1
      <4>1. starts[k] = n /\ starts[k + 1] = n + Size(m) /\ sent'[k] = m
        <5>1. l + 1 \in Nat /\ l + 1 # l + 2 /\ (l + 1) + 1 = l + 2
          BY <1>2
        <5> QED BY <1>4, <1>5, <3>1, <5>1
      <4> QED BY <1>6, <4>1 DEF Follows
    <3>2. CASE k \in 1..l
      <4>1. starts[k] = origin[k] /\ starts[k + 1] = origin[k + 1] /\ sent'[k] = sent[k]
        <5>1. k \in Nat /\ k + 1 \in Nat /\ k # l + 2 /\ k + 1 # l + 2
          BY <1>2, <3>2
        <5> QED BY <1>4, <1>5, <3>2, <5>1
      <4>2. origin[k + 1] = origin[k] + Size(sent[k])
        BY <1>1, <3>2 DEF Written
      <4> QED BY <1>6, <3>2, <4>1, <4>2 DEF Follows
    <3> QED BY <1>2, <3>1, <3>2
  <2>2. ASSUME NEW k \in 1..(l + 2) PROVE starts[k] <= n + Size(m)
    <3>1. CASE k = l + 2
      BY <1>2, <1>4, <3>1
    <3>2. CASE k \in 1..(l + 1)
      <4>1. origin[k] <= n /\ origin[k] \in Nat
        BY <1>1, <3>2 DEF Written
      <4>2. k \in Nat /\ k # l + 2 /\ n + Size(m) >= n
        BY <1>2, <3>2
      <4>3. starts[k] = origin[k]
        BY <1>4, <4>2
      <4>4. origin[k] <= n + Size(m)
        BY <1>2, <4>1
      <4> QED BY <4>3, <4>4
    <3> QED BY <1>2, <3>1, <3>2
  <2>3. n + Size(m) = starts[Len(sent') + 1] + 0 /\ n + Size(m) \in Nat
    <3>1. Len(sent') + 1 = l + 2 /\ n + Size(m) \in Nat
      BY <1>2, <1>5
    <3> QED BY <1>4, <3>1
  <2>4. Len(sent') = l + 1 /\ Len(sent') + 1 = l + 2
    BY <1>2, <1>5
  <2>5. ~(0 > 0) /\ 0 \in Nat
    OBVIOUS
  <2> QED BY <1>4, <2>1, <2>2, <2>3, <2>4, <2>5 DEF Written, Size, Byte
<1>8. InBuffer(more, n + Size(m), starts, p)'
  <2>1. UNCHANGED <<part, length, buffer, delivered, outcome>>
    BY DEF Write, readerVars
  <2>2. Base(starts)' = Base(origin)
    <3>1. d + 1 \in Nat /\ d + 1 # l + 2
      BY <1>2
    <3>2. starts[d + 1] = origin[d + 1]
      BY <1>4, <3>1
    <3> QED BY <2>1, <3>2 DEF Base
  <2>3. part = "payload" => d < l
    <3> SUFFICES ASSUME part = "payload", d = l PROVE FALSE
      BY <1>2
    <3>1. Off + Len(buffer) + Len(wire) = 0
      BY <1>1, <1>3, Buffered
    <3>2. Off > 0
      BY Sizes DEF Off
    <3> QED BY <1>1, <3>1, <3>2, Numbers
  <2>4. part = "payload" => Awaited(p)' = Awaited(p)
    BY <1>2, <1>5, <2>1, <2>3 DEF Awaited
  <2>5. part = "payload" => length = PayloadSize[Awaited(p)] /\ length <= MaxPayload
    BY <1>1 DEF InBuffer
  <2>6. Len(delivered') <= Len(sent')
    BY <1>2, <1>5, <2>1
  <2>7. part' = "payload" => length' = PayloadSize[Awaited(p)'] /\ length' <= MaxPayload
    BY <2>1, <2>4, <2>5
  <2> QED BY <1>6, <2>1, <2>2, <2>6, <2>7 DEF Follows, InBuffer
<1> QED BY <1>7, <1>8

LEMMA CloseInv == ASSUME TypeOK, StreamInv, Close PROVE StreamInv'
<1> SUFFICES ASSUME outcome = "reading"
             PROVE  \E bytes, n, origin, p, r :
                        Written(bytes, n, origin, p, r)' /\ InBuffer(bytes, n, origin, p)'
  BY DEF StreamInv, Close, readerVars
<1>1. PICK bytes, n, origin, p, r :
          Written(bytes, n, origin, p, r) /\ InBuffer(bytes, n, origin, p)
  BY DEF StreamInv
<1>2. ~open' /\ UNCHANGED <<sent, part, length, buffer, delivered, outcome>>
  BY DEF Close, readerVars
<1>3. r = 0
  BY <1>1, Numbers DEF Written, Close
<1>4. CASE UNCHANGED wire
  <2>1. Written(bytes, n, origin, p, r)'
    BY <1>1, <1>2, <1>3 DEF Written, Size, Byte
  <2>2. InBuffer(bytes, n, origin, p)'
    BY <1>1, <1>2, <1>4 DEF InBuffer, Base, Awaited
  <2> QED BY <2>1, <2>2
<1>5. ASSUME NEW m \in Messages, NEW q \in 1..(Len(Frame(m)) - 1),
             wire' = wire \o SubSeq(Frame(m), 1, q)
      PROVE  \E more : Written(more, n + q, origin, m, q)' /\ InBuffer(more, n + q, origin, m)'
  <2> DEFINE l == Len(sent)
             d == Len(delivered)
  <2>0. PICK t : t = SubSeq(Frame(m), 1, q)
    OBVIOUS
  <2>1. q \in Nat /\ q > 0 /\ q < Size(m) /\ Size(m) \in Nat /\ Len(Frame(m)) = Size(m)
    BY FrameFacts, Sizes
  <2>2. t \in Seq(Bytes) /\ Len(t) = q /\ \A i \in 1..q : t[i] = Byte(m, i)
    <3>1. Frame(m) \in Seq(Bytes) /\ \A i \in 1..Size(m) : Frame(m)[i] = Byte(m, i)
      BY FrameFacts
    <3>2. t \in Seq(Bytes) /\ Len(t) = q /\ \A i \in 1..q : t[i] = Frame(m)[i]
      BY <2>0, <2>1, <3>1
    <3>3. \A i \in 1..q : i \in 1..Size(m)
      BY <2>1
    <3> QED BY <3>1, <3>2, <3>3
  <2>3. PICK more : Follows(more, n, origin, m, q)
    <3>1. wire' = wire \o t /\ \A i \in 1..Len(t) : t[i] = Byte(m, i)
      BY <1>5, <2>0, <2>2
    <3>2. Follows(Grown(bytes, n, m), n, origin, m, Len(t))
      BY <1>1, <2>2, <3>1, Flow
    <3> QED BY <2>2, <3>2
  <2>4. l \in Nat /\ d \in Nat /\ d <= l /\ n \in Nat /\ n + q \in Nat /\ n <= n + q
    <3>1. l \in Nat /\ d \in Nat /\ d <= l /\ n \in Nat
      BY <1>1, Numbers, Zenon
    <3> QED BY <2>1, <3>1
  <2>5. Written(more, n + q, origin, m, q)'
    <3>1. /\ origin \in [Nat -> Nat] /\ n = origin[l + 1] + r
          /\ \A k \in 1..l : origin[k + 1] = origin[k] + Size(sent[k])
          /\ \A k \in 1..(l + 1) : origin[k] <= n
      BY <1>1 DEF Written
    <3>2. l + 1 \in Nat /\ n = origin[l + 1]
      <4>1. l + 1 \in Nat
        BY <2>4
      <4>2. origin[l + 1] \in Nat
        BY <3>1, <4>1
      <4>3. origin[l + 1] + 0 = origin[l + 1]
        BY <4>2
      <4> QED BY <1>3, <3>1, <4>1, <4>3
    <3>3. ASSUME NEW k \in 1..(l + 1) PROVE origin[k] <= n + q
      <4>1. origin[k] \in Nat /\ origin[k] <= n
        BY <3>1
      <4> QED BY <2>4, <4>1
    <3>4. \A i \in 1..q : more[origin[l + 1] + i] = Byte(m, i)
      BY <2>3, <3>2 DEF Follows
    <3>5. n + q = origin[l + 1] + q
      BY <3>2
    <3> QED BY <1>2, <2>1, <2>3, <2>4, <3>1, <3>3, <3>4, <3>5 DEF Follows, Written, Size, Byte
  <2>6. InBuffer(more, n + q, origin, m)'
    <3>1. part = "payload" => d < l
      <4> SUFFICES ASSUME part = "payload", d = l PROVE FALSE
        BY <2>4
      <4>1. Off + Len(buffer) + Len(wire) = 0
        BY <1>1, <1>3, Buffered
      <4>2. Off > 0
        BY Sizes DEF Off
      <4> QED BY <1>1, <4>1, <4>2, Numbers
    <3>2. part = "payload" => Awaited(m)' = Awaited(p)
      BY <1>2, <2>4, <3>1 DEF Awaited
    <3>3. part' = "payload" => length' = PayloadSize[Awaited(m)'] /\ length' <= MaxPayload
      BY <1>1, <1>2, <3>2 DEF InBuffer
    <3>4. Base(origin)' = Base(origin)
      BY <1>2 DEF Base
    <3> QED BY <1>2, <2>3, <2>4, <3>3, <3>4 DEF Follows, InBuffer
  <2> QED BY <2>5, <2>6
<1> QED BY <1>4, <1>5 DEF Close

LEMMA ReadInv == ASSUME TypeOK, StreamInv, ReadMore PROVE StreamInv'
<1>1. PICK bytes, n, origin, p, r :
          Written(bytes, n, origin, p, r) /\ InBuffer(bytes, n, origin, p)
  BY DEF StreamInv, ReadMore
<1>2. UNCHANGED <<sent, open, part, length, delivered, outcome>>
  BY DEF ReadMore, senderVars
<1>3. PICK q \in 1..Len(wire) : Read(q)
  BY DEF ReadMore
<1> DEFINE base == Base(origin)
           b == Len(buffer)
           w == Len(wire)
<1>4. /\ base \in Nat /\ b \in Nat /\ w \in Nat /\ base + b + w = n
      /\ q \in Nat /\ q <= w
  BY <1>1, Numbers
<1>5. /\ \A i \in 1..b : buffer[i] = bytes[base + i]
      /\ \A i \in 1..w : wire[i] = bytes[base + b + i]
  BY <1>1 DEF InBuffer
<1> DEFINE taken == SubSeq(wire, 1, q)
           left == SubSeq(wire, q + 1, Len(wire))
<1>6. /\ taken \in Seq(Bytes) /\ Len(taken) = q /\ \A i \in 1..q : taken[i] = wire[i]
      /\ Len(left) = w - q /\ \A i \in 1..(w - q) : left[i] = wire[q + i]
  <2>1. wire \in Seq(Bytes)
    BY DEF TypeOK
  <2>2. /\ taken \in Seq(Bytes) /\ Len(taken) = q /\ \A i \in 1..q : taken[i] = wire[i]
    BY <1>4, <2>1
  <2>3. Len(left) = w - q /\ \A i \in 1..(w - q) : left[i] = wire[q + i]
    <3>1. q \in Nat /\ Len(wire) \in Nat /\ q <= Len(wire) /\ Len(wire) <= Len(wire)
      BY <1>4
    <3> QED BY <2>1, <3>1, CutOff
  <2> QED BY <2>2, <2>3
<1>7. buffer' = buffer \o taken /\ wire' = left
  BY <1>3 DEF Read
<1> HIDE DEF base, b, w, taken, left
<1>8. /\ Len(buffer') = b + q
      /\ \A i \in 1..b : buffer'[i] = buffer[i]
      /\ \A i \in 1..q : buffer'[b + i] = taken[i]
  <2>1. buffer \in Seq(Bytes)
    BY DEF TypeOK
  <2>2. taken \in Seq(Bytes) /\ Len(taken) = q
    BY <1>6
  <2>3. /\ Len(buffer \o taken) = Len(buffer) + Len(taken)
        /\ \A i \in 1..Len(buffer) : (buffer \o taken)[i] = buffer[i]
        /\ \A i \in 1..Len(taken) : (buffer \o taken)[Len(buffer) + i] = taken[i]
    BY <2>1, <2>2
  <2> QED BY <1>7, <2>2, <2>3 DEF b
<1>9. ASSUME NEW i \in 1..Len(buffer') PROVE buffer'[i] = bytes[base + i]
  <2>1. CASE i <= b
    <3>1. i \in 1..b
      BY <1>4, <1>8, <2>1
    <3> QED BY <1>5, <1>8, <3>1
  <2>2. CASE i > b
    <3>1. i - b \in 1..q /\ i = b + (i - b) /\ base + b + (i - b) = base + i
      BY <1>4, <1>8, <2>2
    <3>2. i - b \in 1..w
      BY <1>4, <3>1
    <3>3. buffer'[i] = taken[i - b] /\ taken[i - b] = wire[i - b]
      BY <1>6, <1>8, <3>1
    <3>4. wire[i - b] = bytes[base + b + (i - b)]
      BY <1>5, <3>2
    <3> QED BY <3>1, <3>3, <3>4
  <2> QED BY <1>4, <1>8, <2>1, <2>2
<1>10. ASSUME NEW i \in 1..Len(wire') PROVE wire'[i] = bytes[base + Len(buffer') + i]
  <2>1. /\ i \in 1..(w - q) /\ q + i \in 1..w /\ base + b + (q + i) = base + Len(buffer') + i
    BY <1>4, <1>6, <1>7, <1>8
  <2>2. wire'[i] = wire[q + i]
    BY <1>6, <1>7, <2>1
  <2>3. wire[q + i] = bytes[base + b + (q + i)]
    BY <1>5, <2>1
  <2> QED BY <2>1, <2>2, <2>3
<1>11. base + Len(buffer') + Len(wire') = n
  <2>1. Len(buffer') = b + q /\ Len(wire') = w - q
    BY <1>6, <1>7, <1>8
  <2> QED BY <1>4, <2>1
<1>12. Base(origin)' = base
  BY <1>2 DEF Base, base
<1>13. Written(bytes, n, origin, p, r)'
  BY <1>1, <1>2 DEF Written, Size, Byte
<1>14. InBuffer(bytes, n, origin, p)'
  BY <1>1, <1>2, <1>9, <1>10, <1>11, <1>12 DEF InBuffer, Awaited
<1> QED BY <1>13, <1>14 DEF StreamInv

(* The end of the stream is after everything that was sent.                *)
LEMMA EndStep ==
    ASSUME TypeOK, StreamInv, EndOfStream
    PROVE  StreamInv' /\ (Pipe!End \/ Pipe!Fail)
<1>1. PICK bytes, n, origin, p, r :
          Written(bytes, n, origin, p, r) /\ InBuffer(bytes, n, origin, p)
  BY DEF StreamInv, EndOfStream
<1>2. Len(delivered) < Len(sent) => FALSE
  <2> SUFFICES ASSUME Len(delivered) < Len(sent) PROVE FALSE
    OBVIOUS
  <2>1. Awaited(p) \in Messages /\ Off + Len(buffer) + Len(wire) >= Size(Awaited(p))
    BY <1>1, Buffered
  <2>2. Len(wire) = 0 /\ Len(buffer) \in Nat /\ length \in Nat
    BY <1>1, Numbers DEF EndOfStream
  <2>3. /\ HeaderSize \in Nat /\ PayloadSize[Awaited(p)] \in Nat /\ PayloadSize[Awaited(p)] > 0
        /\ Size(Awaited(p)) = HeaderSize + PayloadSize[Awaited(p)]
    BY <2>1, Sizes
  <2>4. CASE part = "header"
    <3>1. Len(buffer) < HeaderSize /\ Off = 0
      BY <2>2, <2>3, <2>4 DEF EndOfStream, Wanted, Off
    <3> QED BY <2>1, <2>2, <2>3, <3>1
  <2>5. CASE part = "payload"
    <3>1. Len(buffer) < length /\ Off = HeaderSize
      BY <2>2, <2>3, <2>5 DEF EndOfStream, Wanted, Off
    <3>2. length = PayloadSize[Awaited(p)]
      BY <1>1, <2>5 DEF InBuffer
    <3> QED BY <2>1, <2>2, <2>3, <3>1, <3>2
  <2> QED BY <2>4, <2>5 DEF TypeOK
<1>3. StreamInv'
  BY DEF EndOfStream, StreamInv
<1>4. ~Pipe!Pending
  BY <1>2 DEF Pipe!Pending
<1> QED BY <1>3, <1>4 DEF EndOfStream, senderVars, Pipe!End, Pipe!Fail

LEMMA HeaderStep ==
    ASSUME TypeOK, StreamInv, HeaderRead(MaxPayload)
    PROVE  StreamInv' /\ (Pipe!Fail \/ UNCHANGED Pipe!pipeVars)
<1>1. PICK bytes, n, origin, p, r :
          Written(bytes, n, origin, p, r) /\ InBuffer(bytes, n, origin, p)
  BY DEF StreamInv, HeaderRead
<1> DEFINE m == Awaited(p)
<1>2. part = "header" /\ Len(buffer) = HeaderSize /\ Off = 0 /\ outcome = "reading"
  <2>1. part = "header" /\ HeaderSize - Len(buffer) = 0 /\ outcome = "reading"
    BY DEF HeaderRead, Wanted
  <2>2. Len(buffer) \in Nat /\ HeaderSize \in Nat
    BY <1>1, Numbers, Sizes
  <2> QED BY <2>1, <2>2 DEF Off
<1>3. /\ m \in Messages
      /\ IF Len(delivered) < Len(sent) THEN m = sent[Len(delivered) + 1] ELSE ~open
  <2>1. CASE Len(delivered) < Len(sent)
    BY <1>1, <2>1, Buffered
  <2>2. CASE Len(delivered) = Len(sent)
    <3>1. m = p /\ Off + Len(buffer) + Len(wire) = r
      BY <1>1, <2>2, Buffered
    <3>2. r > 0
      BY <1>1, <1>2, <3>1, Sizes, Numbers
    <3> QED BY <1>1, <2>2, <3>1, <3>2, Buffered, Numbers
  <2> QED BY <1>1, <2>1, <2>2, Numbers
<1>4. \A i \in 1..HeaderSize : buffer[i] = Byte(m, i)
  <2>1. ASSUME NEW i \in 1..HeaderSize PROVE buffer[i] = Byte(m, i)
    <3>1. buffer[i] = Byte(m, Off + i)
      BY <1>1, <1>2, Buffered
    <3>2. Off + i = i
      BY <1>2
    <3> QED BY <3>1, <3>2
  <2> QED BY <2>1
<1> HIDE DEF m
<1>5. buffer = Header(m) /\ \A x \in Messages : buffer = Header(x) => x = m
  <2>1. buffer \in Seq(Bytes)
    BY DEF TypeOK
  <2> QED BY <1>2, <1>3, <1>4, <2>1, HeaderTells
<1>6. PICK s \in Lengths :
          /\ Says(buffer, s)
          /\ IF s > MaxPayload
             THEN Fail /\ UNCHANGED <<part, length, buffer>>
             ELSE /\ part' = "payload" /\ length' = s /\ buffer' = <<>>
                  /\ UNCHANGED outcome
  BY DEF HeaderRead
<1>7. s = PayloadSize[m]
  <2>1. \E x \in Messages : buffer = Header(x) /\ s = PayloadSize[x]
    BY <1>3, <1>5, <1>6 DEF Says
  <2> QED BY <1>5, <2>1
<1>8. UNCHANGED <<sent, open, wire, delivered>>
  BY DEF HeaderRead, senderVars
<1>9. CASE s > MaxPayload
  <2>1. outcome' = "failed"
    BY <1>6, <1>9 DEF Fail
  <2>2. Pipe!Fail
    <3>1. IF Len(delivered) < Len(sent)
          THEN sent[Len(delivered) + 1] \in {x \in Messages : PayloadSize[x] > MaxPayload}
          ELSE ~open
      BY <1>3, <1>7, <1>9
    <3> QED BY <1>2, <1>8, <2>1, <3>1 DEF Pipe!Fail, Pipe!Pending, Pipe!NextMessage
  <2> QED BY <2>1, <2>2 DEF StreamInv
<1>10. CASE ~(s > MaxPayload)
  <2>1. part' = "payload" /\ length' = s /\ buffer' = <<>> /\ UNCHANGED outcome
    BY <1>6, <1>10
  <2>2. s \in Nat /\ s <= MaxPayload
    BY <1>3, <1>7, <1>10, Sizes
  <2>3. /\ Base(origin)' = origin[Len(delivered) + 1] + HeaderSize
        /\ Base(origin) = origin[Len(delivered) + 1]
        /\ origin[Len(delivered) + 1] \in Nat
        /\ Base(origin) + HeaderSize + Len(wire) = n
    <3>1. Base(origin)' = origin[Len(delivered) + 1] + HeaderSize
      BY <1>8, <2>1 DEF Base
    <3> QED BY <1>1, <1>2, <3>1, Numbers
  <2>4. Awaited(p)' = m
    BY <1>8 DEF Awaited, m
  <2>5. Written(bytes, n, origin, p, r)'
    BY <1>1, <1>8 DEF Written, Size, Byte
  <2>6. InBuffer(bytes, n, origin, p)'
    <3>1. Len(delivered) <= Len(sent) /\ Len(wire) \in Nat /\ HeaderSize \in Nat
      BY <1>1, Numbers, Sizes
    <3>2. Len(buffer') = 0 /\ \A i \in 1..Len(buffer') : FALSE
      BY <2>1
    <3>3. Base(origin)' + Len(buffer') + Len(wire') = n
      BY <1>8, <2>3, <3>1, <3>2
    <3>4. ASSUME NEW i \in 1..Len(wire)
          PROVE  wire[i] = bytes[Base(origin)' + Len(buffer') + i]
      <4>1. wire[i] = bytes[Base(origin) + Len(buffer) + i]
        BY <1>1 DEF InBuffer
      <4>2. Base(origin)' + Len(buffer') + i = Base(origin) + Len(buffer) + i
        BY <1>2, <2>3, <3>1, <3>2
      <4> QED BY <4>1, <4>2
    <3> QED BY <1>7, <1>8, <2>1, <2>2, <2>4, <3>1, <3>2, <3>3, <3>4 DEF InBuffer
  <2>7. UNCHANGED Pipe!pipeVars
    BY <1>8, <2>1 DEF Pipe!pipeVars
  <2> QED BY <2>5, <2>6, <2>7 DEF StreamInv
<1> QED BY <1>9, <1>10

LEMMA PayloadStep ==
    ASSUME TypeOK, StreamInv, PayloadRead
    PROVE  StreamInv' /\ Pipe!Deliver
<1>1. PICK bytes, n, origin, p, r :
          Written(bytes, n, origin, p, r) /\ InBuffer(bytes, n, origin, p)
  BY DEF StreamInv, PayloadRead
<1> DEFINE m == Awaited(p)
           d == Len(delivered)
<1>2. /\ part = "payload" /\ Off = HeaderSize /\ outcome = "reading"
      /\ length = PayloadSize[m] /\ length <= MaxPayload /\ Len(buffer) = length
  <2>1. part = "payload" /\ length - Len(buffer) = 0 /\ outcome = "reading"
    BY DEF PayloadRead, Wanted
  <2>2. Len(buffer) \in Nat /\ length \in Nat
    BY <1>1, Numbers
  <2>3. length = PayloadSize[m] /\ length <= MaxPayload
    BY <1>1, <2>1 DEF InBuffer
  <2> QED BY <2>1, <2>2, <2>3 DEF Off
<1>3. d < Len(sent)
  <2> SUFFICES ASSUME d = Len(sent) PROVE FALSE
    BY <1>1, Numbers
  <2>1. m = p /\ HeaderSize + length + Len(wire) = r
    BY <1>1, <1>2, Buffered
  <2>2. r > 0
    BY <1>1, <2>1, Numbers, Sizes
  <2>3. p \in Messages /\ r < Size(p)
    BY <1>1, <2>2, Buffered
  <2>4. Size(p) = HeaderSize + length /\ Size(p) \in Nat
    BY <1>2, <2>1, <2>3, Sizes
  <2> QED BY <1>1, <2>1, <2>3, <2>4, Numbers
<1>4. m = sent[d + 1] /\ m \in Messages
  BY <1>1, <1>3, Buffered
<1>5. \A i \in 1..PayloadSize[m] : buffer[i] = Byte(m, HeaderSize + i)
  BY <1>1, <1>2, Buffered
<1>6. buffer = Payload(m) /\ \A x \in Messages : buffer = Payload(x) => x = m
  <2>1. buffer \in Seq(Bytes)
    BY DEF TypeOK
  <2> HIDE DEF m
  <2> QED BY <1>2, <1>4, <1>5, <2>1, PayloadTells
<1>7. /\ delivered' = Append(delivered, m)
      /\ part' = "header" /\ length' = 0 /\ buffer' = <<>>
      /\ UNCHANGED <<sent, open, wire, outcome>>
  <2> HIDE DEF m
  <2>1. delivered' = Append(delivered, m) /\ UNCHANGED outcome
    BY <1>4, <1>6 DEF PayloadRead
  <2> QED BY <2>1 DEF PayloadRead, senderVars
<1>8. d \in Nat /\ Len(delivered') = d + 1
  BY <1>7 DEF TypeOK
<1>9. Pipe!Deliver
  <2>1. m \notin {x \in Messages : PayloadSize[x] > MaxPayload}
    BY <1>2, <1>4, Sizes
  <2> QED BY <1>2, <1>3, <1>4, <1>7, <2>1 DEF Pipe!Deliver, Pipe!Pending, Pipe!NextMessage
<1>10. Written(bytes, n, origin, p, r)'
  BY <1>1, <1>7 DEF Written, Size, Byte
<1>11. Base(origin)' = Base(origin) + Len(buffer) /\ Base(origin) \in Nat
  <2>1. d + 1 \in 1..Len(sent) /\ (d + 1) + 1 = Len(delivered') + 1
    BY <1>1, <1>3, <1>8, Numbers
  <2>2. origin[(d + 1) + 1] = origin[d + 1] + Size(sent[d + 1])
    BY <1>1, <2>1 DEF Written
  <2>3. Base(origin)' = origin[Len(delivered') + 1] + 0
    BY <1>7 DEF Base
  <2>4. Base(origin) = origin[d + 1] + HeaderSize /\ origin[d + 1] \in Nat /\ Base(origin) \in Nat
    BY <1>1, <1>2, Numbers
  <2>5. Size(m) = HeaderSize + Len(buffer) /\ HeaderSize \in Nat /\ Len(buffer) \in Nat
    BY <1>1, <1>2, <1>4, Sizes, Numbers
  <2>6. origin[Len(delivered') + 1] = origin[d + 1] + (HeaderSize + Len(buffer))
    BY <1>4, <2>1, <2>2, <2>5
  <2> QED BY <2>3, <2>4, <2>5, <2>6
<1>12. InBuffer(bytes, n, origin, p)'
  <2>1. Len(delivered') <= Len(sent)
    BY <1>1, <1>3, <1>8, Numbers
  <2>2. Len(buffer') = 0 /\ \A i \in 1..Len(buffer') : FALSE
    BY <1>7
  <2>3. Len(buffer) \in Nat /\ Len(wire) \in Nat /\ Base(origin) + Len(buffer) + Len(wire) = n
    BY <1>1, Numbers
  <2>4. Base(origin)' + Len(buffer') + Len(wire) = n
    BY <1>11, <2>2, <2>3
  <2>5. ASSUME NEW i \in 1..Len(wire) PROVE wire[i] = bytes[Base(origin)' + Len(buffer') + i]
    <3>1. wire[i] = bytes[Base(origin) + Len(buffer) + i]
      BY <1>1 DEF InBuffer
    <3>2. Base(origin)' + Len(buffer') + i = Base(origin) + Len(buffer) + i
      BY <1>11, <2>2, <2>3
    <3> QED BY <3>1, <3>2
  <2> QED BY <1>7, <2>1, <2>2, <2>4, <2>5 DEF InBuffer
<1> QED BY <1>9, <1>10, <1>12 DEF StreamInv

LEMMA StreamInit == ASSUME Init PROVE StreamInv
<1> DEFINE zero == [k \in Nat |-> 0]
<1>1. Written(<<>>, 0, zero, 0, 0)
  <2>1. /\ 0 \in Nat /\ zero \in [Nat -> Nat] /\ Len(sent) = 0 /\ ~(0 > 0)
        /\ \A k \in 1..Len(sent) : FALSE
        /\ \A k \in 1..(Len(sent) + 1) : zero[k] = 0
    BY DEF Init
  <2>2. zero[Len(sent) + 1] + 0 = 0
    BY <2>1
  <2> QED BY <2>1, <2>2 DEF Written
<1>2. InBuffer(<<>>, 0, zero, 0)
  <2>1. /\ Len(delivered) = 0 /\ Len(sent) = 0 /\ Len(buffer) = 0 /\ Len(wire) = 0
        /\ \A i \in 1..Len(buffer) : FALSE
        /\ \A i \in 1..Len(wire) : FALSE
        /\ part = "header"
    BY DEF Init
  <2>2. Base(zero) = 0
    BY <2>1 DEF Base
  <2> HIDE DEF zero
  <2> QED BY <2>1, <2>2 DEF InBuffer
<1> QED BY <1>1, <1>2 DEF StreamInv

(* Every step of the stream and its reader is a step of the pipe, or is    *)
(* not seen by its users.                                                  *)
LEMMA PipeStep ==
    ASSUME TypeOK, StreamInv, [CenterNext]_vars
    PROVE  StreamInv' /\ [Pipe!Next]_(Pipe!pipeVars)
<1>1. CASE PluginWrites
  <2>1. PICK m \in Messages : Write(m)
    BY <1>1 DEF PluginWrites
  <2>2. Pipe!Send(m)
    BY <2>1 DEF Write, readerVars, Pipe!Send
  <2> QED BY <2>1, <2>2, WriteInv DEF Pipe!Next
<1>2. CASE Close
  <2>1. Pipe!Close
    BY <1>2 DEF Close, readerVars, Pipe!Close
  <2> QED BY <1>2, <2>1, CloseInv DEF Pipe!Next
<1>3. CASE ReadMore
  <2>1. UNCHANGED Pipe!pipeVars
    BY <1>3 DEF ReadMore, senderVars, Pipe!pipeVars
  <2> QED BY <1>3, <2>1, ReadInv
<1>4. CASE EndOfStream
  BY <1>4, EndStep DEF Pipe!Next
<1>5. CASE HeaderRead(MaxPayload)
  BY <1>5, HeaderStep DEF Pipe!Next
<1>6. CASE PayloadRead
  BY <1>6, PayloadStep DEF Pipe!Next
<1>7. CASE UNCHANGED vars
  <2>1. UNCHANGED Pipe!pipeVars
    BY <1>7 DEF vars, senderVars, readerVars, Pipe!pipeVars
  <2>2. StreamInv'
    <3>1. UNCHANGED <<sent, open, wire, part, length, buffer, delivered, outcome>>
      BY <1>7 DEF vars, senderVars, readerVars
    <3>2. ASSUME NEW bytes, NEW n, NEW origin, NEW p, NEW r
          PROVE  /\ Written(bytes, n, origin, p, r)' = Written(bytes, n, origin, p, r)
                 /\ InBuffer(bytes, n, origin, p)' = InBuffer(bytes, n, origin, p)
      BY <3>1 DEF Written, InBuffer, Base, Awaited, Size, Byte
    <3> QED BY <3>1, <3>2 DEF StreamInv
  <2> QED BY <2>1, <2>2
<1> QED BY <1>1, <1>2, <1>3, <1>4, <1>5, <1>6, <1>7 DEF CenterNext, CenterReads

(* The bytes in the buffer of the center and on the wire are those that    *)
(* were written and not yet handed over, in their order, up to the end of  *)
(* the last frame or, once the sender is gone, to where it was cut off.    *)
THEOREM StreamInvariant == CenterSpec => [](TypeOK /\ StreamInv)
<1>1. Init => TypeOK /\ StreamInv
  BY TypeInit, StreamInit
<1>2. TypeOK /\ StreamInv /\ [CenterNext]_vars => (TypeOK /\ StreamInv)'
  BY TypeNext, PipeStep
<1> QED BY <1>1, <1>2, PTL DEF CenterSpec

(* However the stream cuts frames into pieces, ReadAsync makes a pipe of   *)
(* it that delivers whole messages, in the order they were sent, sees the  *)
(* end where it is, and fails only at a message that is too large or at    *)
(* one that the end cuts off.                                              *)
THEOREM PipePromiseKept == CenterSpec => KeepsPipePromise
<1>1. Init => Pipe!Init
  BY DEF Init, Pipe!Init
<1>2. TypeOK /\ StreamInv /\ [CenterNext]_vars => [Pipe!Next]_(Pipe!pipeVars)
  BY PipeStep
<1>3. CenterSpec => [](TypeOK /\ StreamInv)
  BY StreamInvariant
<1> QED BY <1>1, <1>2, <1>3, PTL DEF CenterSpec, KeepsPipePromise, Pipe!Spec

-----------------------------------------------------------------------------
(* The plugin: run_on_ida_thread.                                          *)

LEMMA IdaTypeInit == IdaInit => IdaTypeOK
BY DEF IdaInit, IdaTypeOK

LEMMA IdaTypeCaller ==
    ASSUME IdaTypeOK, NEW w \in Callers,
           \/ Submit(w) \/ Enter(w)
           \/ Collect(w, "value") \/ Collect(w, "error")
    PROVE  IdaTypeOK'
<1>1. CASE Submit(w)
  BY <1>1 DEF IdaTypeOK, Submit
<1>2. CASE Collect(w, "value") \/ Collect(w, "error")
  BY <1>2 DEF IdaTypeOK, Collect
<1>3. CASE Enter(w)
  BY <1>3 DEF IdaTypeOK, Enter
<1> QED BY <1>1, <1>2, <1>3

LEMMA IdaTypeWrapper == IdaTypeOK /\ Wrapper => IdaTypeOK'
<1> SUFFICES ASSUME IdaTypeOK, Wrapper PROVE IdaTypeOK'
  OBVIOUS
<1>1. CASE CallbackReturns \/ CallbackRaises
  BY <1>1 DEF IdaTypeOK, CallbackReturns, CallbackRaises, Advance
<1>2. CASE TakeMutex \/ Insert \/ ReleaseMutex
  BY <1>2 DEF IdaTypeOK, TakeMutex, Insert, ReleaseMutex, Advance
<1>3. CASE PutError
  BY <1>3 DEF IdaTypeOK, PutError, Advance
<1>4. CASE Restore
  BY <1>4 DEF IdaTypeOK, Restore, Leave
<1> QED BY <1>1, <1>2, <1>3, <1>4 DEF Wrapper

LEMMA IdaTypeTimeout == IdaTypeOK /\ Timeout => IdaTypeOK'
<1> SUFFICES ASSUME IdaTypeOK, Timeout PROVE IdaTypeOK'
  OBVIOUS
<1>1. CASE FireInCallback \/ FireBeforePut
  BY <1>1 DEF IdaTypeOK, FireInCallback, FireBeforePut, Fire,
         Advance
<1>2. CASE FireInPut
  BY <1>2 DEF IdaTypeOK, FireInPut, Fire, Advance
<1>3. CASE FireInRecover
  BY <1>3 DEF IdaTypeOK, FireInRecover, Fire, Advance
<1>4. CASE FireInFinally
  BY <1>4 DEF IdaTypeOK, FireInFinally, Fire, Leave
<1> QED BY <1>1, <1>2, <1>3, <1>4 DEF Timeout

-----------------------------------------------------------------------------
(* The variables of PluginClient.                                          *)

OwnTypeOK ==
    /\ plugin \in Callers \cup {NoCaller}
    /\ joining \in BOOLEAN
    /\ stopping \in [Callers -> BOOLEAN]
    /\ thread \in [Callers -> ThreadStates]
    /\ sock \in [Callers -> {"none", "open", "cut", "drained"}]
    /\ greeted \in [Callers -> BOOLEAN]
    /\ center \in BOOLEAN

LEMMA ClientTypeParts == ClientTypeOK <=> IdaTypeOK /\ OwnTypeOK
BY DEF ClientTypeOK, OwnTypeOK

LEMMA ClientTypeThread ==
    ASSUME OwnTypeOK, NEW w \in Callers, Thread(w)
    PROVE  OwnTypeOK'
<1> USE DEF OwnTypeOK, ThreadStates, Go, KeepSocket
<1>1. CASE \/ ThreadExits(w) \/ BeginConnect(w)
           \/ ConnectFails(w) \/ PauseEnds(w)
  BY <1>1 DEF ThreadExits, BeginConnect, ConnectFails, PauseEnds
<1>2. CASE Connect(w)
  BY <1>2 DEF Connect
<1>3. CASE SendHello(w)
  BY <1>3 DEF SendHello, HangUp
<1>4. CASE SendHeartbeat(w) \/ Reply(w)
  BY <1>4 DEF SendHeartbeat, Reply, SendThen, HangUp
<1>5. CASE MetadataFails(w) \/ LeaveLoop(w) \/ CenterClosed(w)
  BY <1>5 DEF MetadataFails, LeaveLoop, CenterClosed, HangUp
<1>6. CASE \/ BeginHeartbeat(w) \/ NoHeartbeatDue(w)
           \/ PollNothing(w) \/ ToolEnds(w)
  BY <1>6 DEF BeginHeartbeat, NoHeartbeatDue, PollNothing, ToolEnds
<1>7. CASE ReadIdaTool(w) \/ ReadOtherTool(w)
  BY <1>7 DEF ReadIdaTool, ReadOtherTool, ReadToolCall
<1> QED BY <1>1, <1>2, <1>3, <1>4, <1>5, <1>6, <1>7 DEF Thread

LEMMA IdaTypeThread ==
    ASSUME IdaTypeOK, NEW w \in Callers, Thread(w)
    PROVE  IdaTypeOK'
<1>1. CASE Connect(w) \/ BeginHeartbeat(w) \/ ReadIdaTool(w)
  BY <1>1, IdaTypeCaller DEF Connect, BeginHeartbeat, ReadIdaTool
<1>2. CASE \/ SendHello(w) \/ SendHeartbeat(w)
           \/ MetadataFails(w) \/ ToolEnds(w)
  BY <1>2, IdaTypeCaller DEF SendHello, SendHeartbeat, MetadataFails,
         ToolEnds
<1>3. CASE UNCHANGED idaVars
  BY <1>3 DEF IdaTypeOK, idaVars
<1> QED BY <1>1, <1>2, <1>3
        DEF Thread, ThreadExits, BeginConnect, ConnectFails,
               PauseEnds, LeaveLoop, NoHeartbeatDue, PollNothing,
               CenterClosed, ReadOtherTool, Reply

LEMMA ClientTypeNext == ClientTypeOK /\ [ClientNext]_pluginVars => ClientTypeOK'
<1> SUFFICES ASSUME IdaTypeOK, OwnTypeOK, [ClientNext]_pluginVars
             PROVE  IdaTypeOK' /\ OwnTypeOK'
  BY ClientTypeParts DEF ClientTypeOK, OwnTypeOK, IdaTypeOK, ThreadStates
<1>1. CASE PluginTerm \/ JoinEnds
  BY <1>1 DEF PluginTerm, JoinEnds, Alive, IdaTypeOK, idaVars,
         OwnTypeOK
<1>2. CASE Work
  BY <1>2, IdaTypeWrapper DEF Work, clientVars, OwnTypeOK
<1>3. CASE Late
  BY <1>3, IdaTypeTimeout DEF Late, clientVars, OwnTypeOK
<1>4. ASSUME NEW w \in Callers, PluginInit(w) PROVE IdaTypeOK' /\ OwnTypeOK'
  BY <1>4 DEF PluginInit, IdaTypeOK, idaVars, OwnTypeOK, ThreadStates
<1>5. ASSUME NEW w \in Callers, Serve(w) PROVE IdaTypeOK' /\ OwnTypeOK'
  BY <1>5, IdaTypeCaller DEF Serve, clientVars, OwnTypeOK
<1>6. ASSUME NEW w \in Callers, Thread(w) PROVE IdaTypeOK' /\ OwnTypeOK'
  BY <1>6, IdaTypeThread, ClientTypeThread
<1>7. ASSUME NEW w \in Callers, CenterDrops(w) PROVE IdaTypeOK' /\ OwnTypeOK'
  BY <1>7 DEF CenterDrops, Cut, IdaTypeOK, idaVars, OwnTypeOK
<1>8. CASE CenterStops \/ CenterStarts
  <2>1. IdaTypeOK'
    BY <1>8 DEF CenterStops, CenterStarts, IdaTypeOK, idaVars
  <2>2. UNCHANGED <<plugin, joining, stopping, thread, greeted>> /\ center' \in BOOLEAN
    BY <1>8 DEF CenterStops, CenterStarts
  <2>3. sock' \in [Callers -> {"none", "open", "cut", "drained"}]
    <3>1. CASE CenterStops
      <4>1. PICK how \in {"cut", "drained"} :
              sock' = [w \in Callers |-> IF w \in Callers /\ sock[w] = "open" THEN how ELSE sock[w]]
        BY <3>1 DEF CenterStops, Cut
      <4> QED BY <4>1 DEF OwnTypeOK
    <3>2. CASE CenterStarts
      BY <3>2 DEF CenterStarts, OwnTypeOK
    <3> QED BY <1>8, <3>1, <3>2
  <2> QED BY <2>1, <2>2, <2>3 DEF OwnTypeOK
<1>9. CASE UNCHANGED pluginVars
  BY <1>9 DEF pluginVars, idaVars, clientVars, IdaTypeOK, OwnTypeOK
<1> QED BY <1>1, <1>2, <1>3, <1>4, <1>5, <1>6, <1>7, <1>8, <1>9 DEF ClientNext

(* Every reachable state of the plugin is well typed.                      *)
THEOREM ClientTypeCorrect == ClientSpec => []ClientTypeOK
<1>1. ClientInit => ClientTypeOK
  BY IdaTypeInit DEF ClientInit, ClientTypeOK, ThreadStates
<1> QED BY <1>1, ClientTypeNext, PTL DEF ClientSpec

-----------------------------------------------------------------------------
(* While IDA runs its own code, no profile function of run_on_ida_thread   *)
(* is installed, whenever and wherever the deadline passed.                *)
THEOREM NoHookIsLeft == ClientSpec => []NoHookLeft
<1>1. ClientInit => NoHookLeft
  BY DEF ClientInit, IdaInit, NoHookLeft
<1>2. NoHookLeft /\ [ClientNext]_pluginVars => NoHookLeft'
  <2> SUFFICES ASSUME NoHookLeft, [ClientNext]_pluginVars PROVE NoHookLeft'
    OBVIOUS
  <2>1. CASE Work
    BY <2>1 DEF Work, Wrapper, NoHookLeft, CallbackReturns,
           CallbackRaises, TakeMutex, Insert, ReleaseMutex,
           PutError, Restore, Advance
  <2>2. CASE Late
    BY <2>2 DEF Late, Timeout, NoHookLeft, FireInCallback,
           FireBeforePut, FireInPut, FireInRecover, FireInFinally,
           Fire
  <2>3. ASSUME NEW w \in Callers, Serve(w) PROVE NoHookLeft'
    BY <2>3 DEF Serve, Enter, NoHookLeft
  <2>4. ASSUME NEW w \in Callers, Thread(w) PROVE UNCHANGED <<step, hooked>>
    BY <2>4 DEF Thread, ThreadExits, BeginConnect, Connect,
           ConnectFails, PauseEnds, SendHello, SendHeartbeat,
           MetadataFails, LeaveLoop, BeginHeartbeat, NoHeartbeatDue,
           PollNothing, CenterClosed, ReadIdaTool, ReadOtherTool,
           ToolEnds, Reply, Submit, Collect, idaVars
  <2>5. CASE UNCHANGED idaVars
    BY <2>5 DEF idaVars, NoHookLeft
  <2> QED BY <2>1, <2>2, <2>3, <2>4, <2>5
          DEF ClientNext, PluginTerm, JoinEnds, PluginInit,
                 CenterDrops, CenterStops, CenterStarts, pluginVars,
                 NoHookLeft
<1> QED BY <1>1, <1>2, PTL DEF ClientSpec

-----------------------------------------------------------------------------
(* The socket is there only while the thread is in _connect_and_pump.      *)
NoSocketOutside ==
    \A w \in Callers :
        thread[w] \in {"none", "pause", "retry", "connect", "exited"} => sock[w] = "none"

LEMMA SocketThread ==
    ASSUME ClientTypeOK, NoSocketOutside, NEW v \in Callers, Thread(v)
    PROVE  NoSocketOutside'
<1> USE DEF ClientTypeOK, NoSocketOutside, Go, KeepSocket
<1>1. CASE \/ ThreadExits(v) \/ BeginConnect(v)
           \/ ConnectFails(v) \/ PauseEnds(v)
  BY <1>1 DEF ThreadExits, BeginConnect, ConnectFails, PauseEnds
<1>2. CASE Connect(v)
  BY <1>2 DEF Connect
<1>3. CASE SendHello(v)
  BY <1>3 DEF SendHello, HangUp
<1>4. CASE SendHeartbeat(v) \/ Reply(v)
  BY <1>4 DEF SendHeartbeat, Reply, SendThen, HangUp
<1>5. CASE MetadataFails(v) \/ LeaveLoop(v) \/ CenterClosed(v)
  BY <1>5 DEF MetadataFails, LeaveLoop, CenterClosed, HangUp
<1>6. CASE \/ BeginHeartbeat(v) \/ NoHeartbeatDue(v)
           \/ PollNothing(v) \/ ToolEnds(v)
  BY <1>6 DEF BeginHeartbeat, NoHeartbeatDue, PollNothing, ToolEnds
<1>7. CASE ReadIdaTool(v) \/ ReadOtherTool(v)
  BY <1>7 DEF ReadIdaTool, ReadOtherTool, ReadToolCall
<1> QED BY <1>1, <1>2, <1>3, <1>4, <1>5, <1>6, <1>7 DEF Thread

(* Whichever way a thread leaves _connect_and_pump, its socket is closed,  *)
(* so that the center learns that the window is gone.                      *)
THEOREM SocketsAreClosed == ClientSpec => []ExitClosesSocket
<1>1. ClientInit => NoSocketOutside
  BY DEF ClientInit, NoSocketOutside
<1>2. ClientTypeOK /\ NoSocketOutside /\ [ClientNext]_pluginVars => NoSocketOutside'
  <2> SUFFICES ASSUME ClientTypeOK, NoSocketOutside, [ClientNext]_pluginVars
               PROVE  NoSocketOutside'
    OBVIOUS
  <2>1. ASSUME NEW v \in Callers, PluginInit(v) PROVE NoSocketOutside'
    <3>1. v \in Nat
      BY ClientAssumption
    <3>2. v >= v
      BY <3>1
    <3>3. thread[v] = "none"
      BY <2>1, <3>2 DEF PluginInit
    <3> QED BY <2>1, <3>3 DEF PluginInit, ClientTypeOK, NoSocketOutside
  <2>2. ASSUME NEW v \in Callers, Thread(v) PROVE NoSocketOutside'
    BY <2>2, SocketThread
  <2>3. ASSUME NEW v \in Callers, CenterDrops(v) PROVE NoSocketOutside'
    BY <2>3 DEF CenterDrops, Cut, NoSocketOutside
  <2>4. CASE CenterStops
    BY <2>4 DEF CenterStops, Cut, NoSocketOutside
  <2>5. CASE UNCHANGED <<thread, sock>>
    BY <2>5 DEF NoSocketOutside
  <2>6. CASE \/ PluginTerm \/ JoinEnds
             \/ Work \/ Late \/ CenterStarts
    BY <2>5, <2>6 DEF PluginTerm, JoinEnds, Work, Late,
           CenterStarts, clientVars
  <2>7. ASSUME NEW v \in Callers, Serve(v) PROVE NoSocketOutside'
    BY <2>5, <2>7 DEF Serve, clientVars
  <2>8. CASE UNCHANGED pluginVars
    BY <2>5, <2>8 DEF pluginVars, clientVars
  <2> QED BY <2>1, <2>2, <2>3, <2>4, <2>6, <2>7, <2>8 DEF ClientNext
<1>3. NoSocketOutside => ExitClosesSocket
  BY DEF NoSocketOutside, ExitClosesSocket
<1> QED BY <1>1, <1>2, <1>3, ClientTypeCorrect, PTL DEF ClientSpec

-----------------------------------------------------------------------------
(* What a segment is known to be like.                                     *)
LEMMA SegmentFacts ==
    ASSUME segments \in Layouts, NEW i \in 1..Len(segments)
    PROVE  /\ Len(segments) \in Nat /\ i \in Nat
           /\ segments[i][1] \in Nat /\ segments[i][2] \in Nat
           /\ segments[i][1] < segments[i][2]
           /\ \A j \in 1..(i - 1) : segments[j][2] <= segments[i][1]
<1>1. segments \in Seq(Addresses \X (1..Top)) /\ i \in DOMAIN segments
  BY LayoutAssumption
<1>2. segments[i] \in Addresses \X (1..Top)
  BY <1>1
<1>3. segments[i][1] \in Addresses /\ segments[i][2] \in 1..Top
  BY <1>2
<1>4. Len(segments) \in Nat /\ i \in Nat /\ segments[i][1] \in Nat /\ segments[i][2] \in Nat
  BY <1>1, <1>3, LimitAssumption DEF Addresses
<1>5. /\ segments[i][1] < segments[i][2]
      /\ \A j \in 1..(i - 1) : segments[j][2] <= segments[i][1]
  BY <1>1, LayoutAssumption
<1> QED BY <1>4, <1>5

LEMMA SearchConstants ==
    /\ Addresses \subseteq Nat /\ Limit \in Nat \ {0} /\ ScanLimit \in Nat \ {0, 1}
    /\ NoCursor \notin Int
BY LimitAssumption DEF Addresses

LEMMA Values == ASSUME NEW s \in Seq(Addresses) PROVE \A n \in DOMAIN s : s[n] \in Nat
<1>1. \A n \in DOMAIN s : s[n] \in Addresses
  OBVIOUS
<1> QED BY <1>1, SearchConstants

(* A hit more at the end of all that was found.                            *)
LEMMA FoundAppend ==
    ASSUME NEW r \in Seq(Addresses), NEW t \in Seq(Addresses), NEW h \in Addresses
    PROVE  /\ DOMAIN (r \o Append(t, h)) = 1..(Len(r) + Len(t) + 1)
           /\ DOMAIN (r \o t) = 1..(Len(r) + Len(t))
           /\ \A i \in 1..(Len(r) + Len(t)) : (r \o Append(t, h))[i] = (r \o t)[i]
           /\ (r \o Append(t, h))[Len(r) + Len(t) + 1] = h
           /\ \A i \in 1..(Len(r) + Len(t)) : (r \o t)[i] \in Addresses
OBVIOUS

LEMMA NothingAppended == ASSUME NEW r \in Seq(Addresses) PROVE r \o <<>> = r
OBVIOUS

LEMMA FoundType == SearchTypeOK => Found \in Seq(Addresses) /\ \A i \in DOMAIN Found : Found[i] \in Addresses
BY DEF SearchTypeOK, Found

-----------------------------------------------------------------------------
(* Types.                                                                  *)
LEMMA InitInv == SearchInit => SearchInv
<1> SUFFICES ASSUME SearchInit PROVE SearchInv
  OBVIOUS
<1>1. Len(segments) \in Nat
  BY LayoutAssumption DEF SearchInit
<1> QED BY <1>1, LimitAssumption
        DEF SearchInit, SearchInv, SearchTypeOK, NoHitTwice, Ascending, NothingMissed, AskInv, ScanInv, Addresses

(* The variables that the steps of a call change.                          *)
CallTypeOK ==
    /\ state \in {"ask", "scan", "done"}
    /\ start \in Nat \cup {NoCursor}
    /\ segmentIndex \in 1..(Len(segments) + 1)
    /\ cursor \in Nat
    /\ hits \in Seq(Addresses) /\ Len(hits) <= Limit
    /\ scanned \in 0..ScanLimit
    /\ nextCursor \in Nat \cup {NoCursor}
    /\ received \in Seq(Addresses)

(* The numbers of a call, whatever it is doing.                            *)
LEMMA SearchNumbers ==
    ASSUME SearchTypeOK
    PROVE  /\ Len(segments) \in Nat /\ segmentIndex \in 1..(Len(segments) + 1)
           /\ cursor \in Nat /\ matching \subseteq heads
           /\ Len(hits) \in Nat /\ Limit \in Nat
<1>1. segments \in Seq(Addresses \X (1..Top))
  BY LayoutAssumption DEF SearchTypeOK
<1>2. Len(segments) \in Nat
  BY <1>1
<1>3. /\ segmentIndex \in 1..(Len(segments) + 1)
      /\ cursor \in Nat /\ matching \subseteq heads
  BY DEF SearchTypeOK
<1>4. Len(hits) \in Nat /\ Limit \in Nat
  BY LimitAssumption DEF SearchTypeOK
<1> QED BY <1>2, <1>3, <1>4

LEMMA TypeParts == SearchTypeOK /\ UNCHANGED database /\ CallTypeOK' => SearchTypeOK'
BY DEF SearchTypeOK, CallTypeOK, database, ItemsFit, InSegments

LEMMA FromType == ASSUME SearchTypeOK, segments # <<>> PROVE From \in Nat
<1>1. 1 \in 1..Len(segments)
  BY LayoutAssumption DEF SearchTypeOK
<1>2. segments[1][1] \in Nat
  BY <1>1, SegmentFacts, SearchConstants DEF SearchTypeOK
<1> QED BY <1>2 DEF SearchTypeOK, From

LEMMA TypeBegin == ASSUME SearchInv, BeginCall PROVE CallTypeOK'
<1> USE DEF SearchInv, SearchTypeOK
<1>1. Len(segments) \in Nat
  BY LayoutAssumption
<1>2. /\ UNCHANGED <<segments, start, received>>
      /\ hits' = <<>> /\ scanned' = 0 /\ nextCursor' = NoCursor
  BY DEF BeginCall, database
<1>3. CASE segments = <<>>
  BY <1>2, <1>3, LimitAssumption DEF BeginCall, CallTypeOK
<1>4. CASE segments # <<>>
  <2>1. PICK i \in 1..(Len(segments) + 1) :
           /\ state' = "scan" /\ segmentIndex' = i
           /\ cursor' = IF i <= Len(segments) /\ From < segments[i][1]
                        THEN segments[i][1] ELSE From
    BY <1>4 DEF BeginCall
  <2>2. ASSUME i <= Len(segments) PROVE segments[i][1] \in Nat
    <3>1. i \in 1..Len(segments)
      BY <1>1, <2>2
    <3> QED BY <3>1, SegmentFacts, SearchConstants
  <2>3. cursor' \in Nat
    BY <2>1, <2>2, <1>4, FromType
  <2> QED BY <1>1, <1>2, <2>1, <2>3, LimitAssumption DEF CallTypeOK
<1> QED BY <1>3, <1>4

LEMMA TypeCall == ASSUME SearchInv, Call PROVE SearchTypeOK'
<1> USE DEF SearchInv, CallTypeOK
<1>1. CASE BeginCall
  BY <1>1, TypeBegin, TypeParts DEF BeginCall
<1>2. CASE ScanHead
  <2>1. PICK h \in heads : NextHead(h) /\ Scan(h)
    BY <1>2 DEF ScanHead
  <2>2. h \in Addresses /\ h \in Nat /\ size[h] \in Nat
    BY SearchConstants DEF SearchTypeOK
  <2>3. Len(hits) < Limit /\ Len(hits) \in Nat /\ Limit \in Nat /\ ScanLimit \in Nat
    BY <1>2, LimitAssumption DEF ScanHead, Scanning, SearchTypeOK
  <2>4. hits' \in Seq(Addresses) /\ Len(hits') <= Limit
    BY <2>1, <2>2, <2>3 DEF Scan, SearchTypeOK
  <2>5. cursor' \in Nat /\ nextCursor' \in Nat \cup {NoCursor}
    BY <2>1, <2>2 DEF Scan, SearchTypeOK
  <2>6. scanned' \in 0..ScanLimit
    BY <1>2, <2>1, <2>3 DEF ScanHead, Scan, SearchTypeOK
  <2> QED BY <1>2, <2>4, <2>5, <2>6, TypeParts DEF ScanHead, SearchTypeOK, database
<1>3. CASE ScanLimitReached \/ TimeLimitReached
  <2>1. PICK h \in heads : StopAt(h)
    BY <1>3 DEF ScanLimitReached, TimeLimitReached
  <2>2. scanned < ScanLimit /\ ScanLimit \in Nat
    BY <1>3, LimitAssumption DEF ScanLimitReached, TimeLimitReached, Scanning, ScanInv
  <2>3. scanned' \in 0..ScanLimit /\ nextCursor' \in Nat
    BY <2>1, <2>2, SearchConstants DEF StopAt, SearchTypeOK
  <2> QED BY <2>1, <2>3, TypeParts DEF StopAt, SearchTypeOK, database
<1>4. CASE NextSegment
  <2>1. Len(segments) \in Nat
    BY LayoutAssumption DEF SearchTypeOK
  <2>2. ASSUME segmentIndex < Len(segments) PROVE segments[segmentIndex + 1][1] \in Nat
    <3>1. segmentIndex + 1 \in 1..Len(segments)
      BY <2>1, <2>2 DEF SearchTypeOK
    <3> QED BY <3>1, SegmentFacts, SearchConstants DEF SearchTypeOK
  <2>3. segmentIndex' \in 1..(Len(segments) + 1) /\ cursor' \in Nat
    BY <1>4, <2>1, <2>2 DEF NextSegment, Scanning, SearchTypeOK
  <2> QED BY <1>4, <2>3, TypeParts DEF NextSegment, SearchTypeOK, database
<1>5. CASE Answer
  BY <1>5, TypeParts DEF Answer, callVars, SearchTypeOK, database
<1> QED BY <1>1, <1>2, <1>3, <1>4, <1>5 DEF Call

-----------------------------------------------------------------------------
(* Where items lie.                                                        *)
LEMMA ItemPlace ==
    ASSUME SearchTypeOK, NEW h \in heads
    PROVE  /\ h \in Addresses /\ size[h] \in Nat \ {0}
           /\ \E i \in 1..Len(segments) : segments[i][1] <= h /\ h < segments[i][2]
           /\ \A a \in heads : h < a => h + size[h] <= a
<1>1. h \in Addresses /\ h \in Nat /\ size[h] \in Nat \ {0}
  BY SearchConstants DEF SearchTypeOK
<1>2. h \in h..(h + size[h] - 1)
  BY <1>1
<1>3. InSegments(h)
  BY <1>2 DEF SearchTypeOK, ItemsFit
<1>4. DOMAIN segments = 1..Len(segments)
  BY LayoutAssumption DEF SearchTypeOK
<1>5. ASSUME NEW a \in heads, h < a PROVE h + size[h] <= a
  <2>1. a \in Nat
    BY SearchConstants DEF SearchTypeOK
  <2>2. a \in h..(h + size[h] - 1) => a = h
    BY DEF SearchTypeOK, ItemsFit
  <2> QED BY <1>1, <1>5, <2>1, <2>2
<1> QED BY <1>1, <1>3, <1>4, <1>5 DEF InSegments

(* No item lies between the cursor and the next head.                      *)
LEMMA NothingBetween ==
    ASSUME SearchInv, Scanning, NEW h \in heads, NextHead(h)
    PROVE  /\ cursor <= h /\ h < segments[segmentIndex][2]
           /\ segments[segmentIndex][1] <= h
           /\ \A a \in heads : a < h => a < cursor
<1>0. /\ segmentIndex \in 1..Len(segments) /\ cursor \in Nat
      /\ segments[segmentIndex][1] <= cursor
      /\ \A a \in heads : a \in Nat
  BY SearchNumbers, SearchConstants DEF SearchInv, SearchTypeOK, Scanning, ScanInv
<1>1. cursor <= h /\ segments[segmentIndex][1] <= h /\ h < segments[segmentIndex][2]
  BY DEF NextHead, HeadsLeft
<1>2. ASSUME NEW a \in heads, a < h, cursor <= a PROVE FALSE
  <2>3. segments[segmentIndex][1] \in Nat /\ segments[segmentIndex][2] \in Nat /\ a \in Nat /\ h \in Nat
    BY <1>0, SegmentFacts DEF SearchInv, SearchTypeOK
  <2>4. segments[segmentIndex][1] <= a /\ a < segments[segmentIndex][2]
    BY <1>0, <1>1, <1>2, <2>3
  <2>5. a \in HeadsLeft
    BY <1>2, <2>4 DEF HeadsLeft
  <2>6. h <= a
    BY <2>5 DEF NextHead
  <2> QED BY <1>2, <2>3, <2>6
<1> QED BY <1>0, <1>1, <1>2

-----------------------------------------------------------------------------
(* The steps of a call.                                                    *)

(* Where a call starts there is nothing between the address it was given   *)
(* and its cursor, and nothing in the segments before.                     *)
LEMMA BeginPlace ==
    ASSUME SearchInv, segments # <<>>, NEW i \in 1..(Len(segments) + 1), SegmentFor(From, i),
           NEW c, c = IF i <= Len(segments) /\ From < segments[i][1] THEN segments[i][1] ELSE From
    PROVE  /\ c \in Nat /\ From <= c
           /\ i <= Len(segments) => segments[i][1] <= c /\ From < segments[i][2]
           /\ \A h \in heads : h < c => h < From
           /\ \A h \in heads, j \in 1..(i - 1) : c <= h => segments[j][2] <= h
<1> USE DEF SearchInv
<1>1. From \in Nat /\ Len(segments) \in Nat /\ i \in Nat
  BY FromType, SearchNumbers
<1>2. ASSUME i <= Len(segments)
      PROVE  /\ segments[i][1] \in Nat /\ segments[i][2] \in Nat
             /\ \A j \in 1..(i - 1) : segments[j][2] <= segments[i][1]
  <2>1. i \in 1..Len(segments)
    BY <1>1, <1>2
  <2> QED BY <2>1, SegmentFacts, SearchConstants DEF SearchTypeOK
<1>3. c \in Nat /\ From <= c
  BY <1>1, <1>2
<1>4. i <= Len(segments) => segments[i][1] <= c /\ From < segments[i][2]
  BY <1>1, <1>2 DEF SegmentFor
<1>5. ASSUME NEW h \in heads, h < c PROVE h < From
  <2>1. h \in Nat
    BY ItemPlace, SearchConstants
  <2>2. SUFFICES ASSUME From <= h PROVE FALSE
    BY <1>1, <2>1
  <2>3. i <= Len(segments) /\ h < segments[i][1]
    BY <1>1, <1>5, <2>1, <2>2
  <2>4. PICK j \in 1..Len(segments) : segments[j][1] <= h /\ h < segments[j][2]
    BY ItemPlace
  <2>5. j \in Nat /\ segments[j][1] \in Nat /\ segments[j][2] \in Nat /\ segments[j][1] < segments[j][2]
    BY SegmentFacts DEF SearchTypeOK
  <2>6. CASE j < i
    <3>1. segments[j][2] <= From
      BY <1>1, <2>5, <2>6 DEF SegmentFor
    <3> QED BY <1>1, <2>1, <2>2, <2>4, <2>5, <3>1
  <2>7. CASE j = i
    BY <1>2, <2>1, <2>3, <2>4, <2>7
  <2>8. CASE j > i
    <3>1. i \in 1..(j - 1)
      BY <1>1, <2>5, <2>8
    <3>2. segments[i][2] <= segments[j][1]
      BY <3>1, SegmentFacts DEF SearchTypeOK
    <3>3. segments[i][1] < segments[i][2]
      BY <2>3, <1>1, SegmentFacts DEF SearchTypeOK
    <3> QED BY <1>2, <2>1, <2>3, <2>4, <2>5, <3>2, <3>3
  <2> QED BY <1>1, <2>5, <2>6, <2>7, <2>8
<1>6. ASSUME NEW h \in heads, NEW j \in 1..(i - 1), c <= h PROVE segments[j][2] <= h
  <2>1. h \in Nat
    BY ItemPlace, SearchConstants
  <2>2. j \in 1..Len(segments)
    BY <1>1
  <2>3. segments[j][2] \in Nat
    BY <2>2, SegmentFacts DEF SearchTypeOK
  <2>4. segments[j][2] <= From
    BY DEF SegmentFor
  <2> QED BY <1>1, <1>3, <1>6, <2>1, <2>3, <2>4
<1> QED BY <1>3, <1>4, <1>5, <1>6

(* BeginCall keeps the invariant.                                          *)
LEMMA BeginStep == ASSUME SearchInv, BeginCall PROVE SearchInv'
<1> USE DEF SearchInv
<1>1. SearchTypeOK'
  BY TypeCall DEF Call
<1>2. /\ state = "ask" /\ hits' = <<>> /\ scanned' = 0 /\ nextCursor' = NoCursor
      /\ UNCHANGED <<segments, heads, size, matching, touched, start, received>>
  BY DEF BeginCall, database
<1>3. Found' = received
  BY <1>2, NothingAppended DEF Found, SearchTypeOK
<1>4. CASE segments = <<>>
  <2>1. heads = {}
    <3>1. SUFFICES ASSUME NEW h \in heads PROVE FALSE
      OBVIOUS
    <3>2. Len(segments) = 0
      BY <1>4
    <3> QED BY <3>2, ItemPlace
  <2>2. matching = {}
    BY <2>1 DEF SearchTypeOK
  <2>3. state' = "done"
    BY <1>4 DEF BeginCall
  <2> QED BY <1>1, <1>2, <2>2, <2>3 DEF NoHitTwice, Ascending, NothingMissed, AskInv, ScanInv
<1>5. CASE segments # <<>>
  <2>1. PICK i \in 1..(Len(segments) + 1) :
           /\ SegmentFor(From, i)
           /\ state' = "scan" /\ segmentIndex' = i
           /\ cursor' = IF i <= Len(segments) /\ From < segments[i][1]
                        THEN segments[i][1] ELSE From
    BY <1>5 DEF BeginCall
  <2>2. /\ cursor' \in Nat /\ From <= cursor'
        /\ i <= Len(segments) => segments[i][1] <= cursor' /\ From < segments[i][2]
        /\ \A h \in heads : h < cursor' => h < From
        /\ \A h \in heads, j \in 1..(i - 1) : cursor' <= h => segments[j][2] <= h
    BY <1>5, <2>1, BeginPlace
  <2>3. /\ \A n \in DOMAIN received : received[n] < From
        /\ \A h \in matching \ touched : h < From => \E n \in DOMAIN received : received[n] = h
    <3>1. CASE start # NoCursor
      BY <1>2, <3>1 DEF AskInv, Divides, From
    <3>2. CASE start = NoCursor
      <4>1. received = <<>> /\ From = segments[1][1]
        BY <1>2, <3>2 DEF AskInv, From
      <4>2. ASSUME NEW h \in heads PROVE ~(h < From)
        <5>1. PICK j \in 1..Len(segments) : segments[j][1] <= h /\ h < segments[j][2]
          BY <4>2, ItemPlace
        <5>2. j \in Nat /\ h \in Nat /\ Len(segments) \in Nat
          BY ItemPlace, SearchConstants, SearchNumbers DEF SearchTypeOK
        <5>3. segments[1][1] \in Nat /\ segments[j][1] \in Nat /\ segments[1][2] \in Nat
              /\ segments[1][1] < segments[1][2]
              /\ (j > 1 => segments[1][2] <= segments[j][1])
          <6>1. 1 \in 1..Len(segments) /\ (j > 1 => 1 \in 1..(j - 1))
            BY <5>2
          <6> QED BY <6>1, SegmentFacts, SearchConstants DEF SearchTypeOK
        <5> QED BY <4>1, <5>1, <5>2, <5>3
      <4> QED BY <4>1, <4>2 DEF SearchTypeOK
    <3> QED BY <3>1, <3>2
  <2>4. \A n \in DOMAIN received : received[n] \in Nat
    BY Values DEF SearchTypeOK
  <2>5. From \in Nat
    BY <1>5, FromType
  <2>6. Divides(cursor, received)'
    <3>1. \A n \in DOMAIN received : received[n] < cursor'
      BY <2>2, <2>3, <2>4, <2>5
    <3>2. \A h \in matching \ touched : h < cursor' => \E n \in DOMAIN received : received[n] = h
      BY <2>2, <2>3 DEF SearchTypeOK
    <3> QED BY <1>2, <3>1, <3>2 DEF Divides
  <2>7. i <= Len(segments) => \A n \in DOMAIN received : received[n] < segments[i][2]
    <3>1. i <= Len(segments) => segments[i][2] \in Nat
      <4>1. i <= Len(segments) => i \in 1..Len(segments)
        BY SearchNumbers
      <4> QED BY <4>1, SegmentFacts DEF SearchTypeOK
    <3> QED BY <2>2, <2>3, <2>4, <2>5, <3>1
  <2>8. ScanInv'
    <3>1. Ascending(Found)'
      BY <1>2, <1>3 DEF Ascending, NoHitTwice
    <3>2. Divides(cursor, Found)'
      BY <1>2, <1>3, <2>6 DEF Divides
    <3>3. (Len(hits) < Limit /\ scanned < ScanLimit)'
      BY <1>2, LimitAssumption
    <3> QED BY <1>2, <1>3, <2>1, <2>2, <2>7, <3>1, <3>2, <3>3 DEF ScanInv
  <2> QED BY <1>1, <1>2, <2>1, <2>8 DEF NoHitTwice, Ascending, NothingMissed, AskInv
<1> QED BY <1>4, <1>5

(* A match at the next head is found, and the cursor passes behind it.     *)
LEMMA ScanStep == ASSUME SearchInv, ScanHead PROVE SearchInv'
<1> USE DEF SearchInv
<1>1. SearchTypeOK'
  BY TypeCall DEF Call
<1>2. PICK h \in heads : NextHead(h) /\ Scan(h)
  BY DEF ScanHead
<1>3. /\ state = "scan" /\ nextCursor = NoCursor /\ segmentIndex <= Len(segments)
      /\ scanned + 1 < ScanLimit
      /\ UNCHANGED <<segments, heads, size, matching, touched, state, start, segmentIndex, received>>
  BY DEF ScanHead, Scanning, database
<1>4. /\ cursor <= h /\ h < segments[segmentIndex][2]
      /\ \A a \in heads : a < h => a < cursor
  BY <1>2, NothingBetween DEF ScanHead
<1>5. /\ h \in Addresses /\ h \in Nat /\ size[h] \in Nat \ {0}
      /\ \A a \in heads : a \in Nat /\ (h < a => h + size[h] <= a)
  BY ItemPlace, SearchConstants DEF SearchTypeOK
<1>6. cursor' = h + size[h] /\ cursor' \in Nat /\ cursor \in Nat /\ h < cursor'
  BY <1>2, <1>5 DEF Scan, SearchTypeOK
<1>7. segments[segmentIndex][1] \in Nat /\ segments[segmentIndex][2] \in Nat
  <2>1. segmentIndex \in 1..Len(segments)
    BY <1>3, SearchNumbers
  <2> QED BY <2>1, SegmentFacts DEF SearchTypeOK
<1>8. \A n \in DOMAIN Found : Found[n] \in Nat /\ Found[n] < cursor /\ Found[n] < segments[segmentIndex][2]
  BY <1>3, FoundType, SearchConstants DEF ScanInv, Divides
<1>9. /\ \A n \in DOMAIN Found' : Found'[n] = h \/ (n \in DOMAIN Found /\ Found'[n] = Found[n])
      /\ \A n \in DOMAIN Found : n \in DOMAIN Found' /\ Found'[n] = Found[n]
      /\ h \in matching => \E n \in DOMAIN Found' : Found'[n] = h
      /\ Ascending(Found')
  <2>1. CASE h \in matching
    <3>1. Found' = received \o Append(hits, h)
      BY <1>2, <1>3, <2>1 DEF Scan, Found
    <3>2. received \in Seq(Addresses) /\ hits \in Seq(Addresses) /\ Len(received) \in Nat /\ Len(hits) \in Nat
      BY DEF SearchTypeOK
    <3>3. /\ DOMAIN Found' = 1..(Len(received) + Len(hits) + 1)
          /\ DOMAIN Found = 1..(Len(received) + Len(hits))
          /\ \A n \in 1..(Len(received) + Len(hits)) : Found'[n] = Found[n]
          /\ Found'[Len(received) + Len(hits) + 1] = h
      BY <1>5, <3>1, <3>2, FoundAppend DEF Found
    <3>4. /\ \A n \in DOMAIN Found' : Found'[n] = h \/ (n \in DOMAIN Found /\ Found'[n] = Found[n])
          /\ \A n \in DOMAIN Found : n \in DOMAIN Found' /\ Found'[n] = Found[n]
          /\ \E n \in DOMAIN Found' : Found'[n] = h
      BY <3>2, <3>3
    <3>5. Ascending(Found')
      <4>1. SUFFICES ASSUME NEW m \in DOMAIN Found', NEW n \in DOMAIN Found', m < n
                     PROVE  Found'[m] < Found'[n]
        BY DEF Ascending
      <4>2. m \in 1..(Len(received) + Len(hits)) /\ Found'[m] = Found[m]
        BY <3>2, <3>3, <4>1
      <4>3. CASE n = Len(received) + Len(hits) + 1
        BY <1>4, <1>5, <1>6, <1>8, <3>3, <4>2, <4>3
      <4>4. CASE n # Len(received) + Len(hits) + 1
        <5>1. n \in DOMAIN Found /\ Found'[n] = Found[n]
          <6>1. n \in 1..(Len(received) + Len(hits) + 1)
            BY <3>3
          <6>2. n \in 1..(Len(received) + Len(hits))
            BY <3>2, <4>4, <6>1
          <6> QED BY <3>3, <6>2
        <5>2. Ascending(Found)
          BY <1>3 DEF ScanInv
        <5> QED BY <3>3, <4>1, <4>2, <5>1, <5>2 DEF Ascending
      <4> QED BY <4>3, <4>4
    <3> QED BY <3>4, <3>5
  <2>2. CASE h \notin matching
    <3>1. Found' = Found /\ Ascending(Found)
      BY <1>2, <1>3, <2>2 DEF Scan, Found, ScanInv
    <3> QED BY <2>2, <3>1
  <2> QED BY <2>1, <2>2
<1>10. Divides(cursor, Found)'
  <2>1. \A n \in DOMAIN Found' : Found'[n] < cursor'
    BY <1>4, <1>5, <1>6, <1>8, <1>9
  <2>2. ASSUME NEW a \in matching \ touched, a < cursor'
        PROVE  \E n \in DOMAIN Found' : Found'[n] = a
    <3>1. a \in heads /\ a \in Nat
      BY <1>5 DEF SearchTypeOK
    <3>2. CASE a = h
      BY <1>9, <3>2
    <3>3. CASE a # h
      <4>1. a < cursor
        BY <1>4, <1>5, <1>6, <2>2, <3>1, <3>3
      <4>2. PICK n \in DOMAIN Found : Found[n] = a
        BY <1>3, <4>1 DEF ScanInv, Divides
      <4> QED BY <1>9, <4>2
    <3> QED BY <3>2, <3>3
  <2> QED BY <1>3, <2>1, <2>2 DEF Divides
<1>11. nextCursor' # NoCursor => nextCursor' = cursor'
  BY <1>2 DEF Scan
<1>12. nextCursor' = NoCursor => Len(hits') < Limit /\ scanned' < ScanLimit
  <2>1. Len(hits) < Limit /\ Len(hits) \in Nat /\ Limit \in Nat
    BY <1>3, LimitAssumption DEF ScanInv, SearchTypeOK
  <2>2. cursor' # NoCursor
    BY <1>6, SearchConstants
  <2>3. scanned' < ScanLimit
    BY <1>2, <1>3 DEF Scan
  <2>4. CASE h \in matching /\ Len(hits) + 1 >= Limit
    BY <1>2, <2>2, <2>4 DEF Scan
  <2>5. CASE h \in matching /\ ~(Len(hits) + 1 >= Limit)
    BY <1>2, <2>1, <2>3, <2>5 DEF Scan, SearchTypeOK
  <2>6. CASE h \notin matching
    BY <1>2, <2>1, <2>3, <2>6 DEF Scan
  <2> QED BY <2>4, <2>5, <2>6
<1>13. ScanInv'
  <2>1. /\ segments[segmentIndex][1] <= cursor'
        /\ \A n \in DOMAIN Found' : Found'[n] < segments[segmentIndex][2]
    <3>1. segments[segmentIndex][1] <= cursor
      BY <1>3 DEF ScanInv
    <3> QED BY <1>4, <1>5, <1>6, <1>7, <1>8, <1>9, <3>1
  <2>2. ASSUME NEW a \in heads, NEW j \in 1..(segmentIndex - 1), cursor' <= a
        PROVE  segments[j][2] <= a
    <3>1. cursor <= a
      BY <1>4, <1>5, <1>6, <2>2
    <3> QED BY <1>3, <3>1 DEF ScanInv
  <2>3. nextCursor' # NoCursor => Divides(nextCursor, Found)'
    BY <1>10, <1>11 DEF Divides
  <2>4. Ascending(Found)'
    BY <1>9 DEF Ascending
  <2> QED BY <1>3, <1>10, <1>12, <2>1, <2>2, <2>3, <2>4 DEF ScanInv
<1> QED BY <1>1, <1>3, <1>13 DEF NoHitTwice, Ascending, NothingMissed, AskInv

(* A limit stops the call at a head, with nothing between cursor and head. *)
LEMMA StopStep == ASSUME SearchInv, ScanLimitReached \/ TimeLimitReached PROVE SearchInv'
<1> USE DEF SearchInv
<1>1. SearchTypeOK'
  BY TypeCall DEF Call
<1>2. PICK h \in heads : NextHead(h) /\ StopAt(h)
  BY DEF ScanLimitReached, TimeLimitReached
<1>3. /\ Scanning /\ state = "scan" /\ nextCursor' = h
      /\ UNCHANGED <<segments, heads, matching, touched, state, start, segmentIndex, cursor, hits, received>>
  BY <1>2 DEF ScanLimitReached, TimeLimitReached, Scanning, StopAt, database
<1>4. cursor <= h /\ \A a \in heads : a < h => a < cursor
  BY <1>2, <1>3, NothingBetween
<1>5. h \in Nat /\ cursor \in Nat /\ matching \subseteq heads
  BY ItemPlace, SearchConstants DEF SearchTypeOK
<1>6. Found' = Found /\ \A n \in DOMAIN Found : Found[n] \in Nat
  BY <1>3, FoundType, SearchConstants DEF Found
<1>7. Divides(cursor, Found)
  BY <1>3 DEF ScanInv
<1>8. Divides(cursor, Found)' /\ Divides(nextCursor, Found)'
  BY <1>3, <1>4, <1>5, <1>6, <1>7 DEF Divides
<1>9. nextCursor' # NoCursor
  BY <1>3, <1>5, SearchConstants
<1>10. Ascending(Found)'
  BY <1>3, <1>6 DEF ScanInv, Ascending
<1>11. ScanInv'
  BY <1>3, <1>6, <1>8, <1>9, <1>10 DEF ScanInv
<1> QED BY <1>1, <1>3, <1>11 DEF NoHitTwice, Ascending, NothingMissed, AskInv

(* Without a head left, nothing remains below the start of the next        *)
(* segment, and nothing at all behind the last.                            *)
LEMMA SegmentStep == ASSUME SearchInv, NextSegment PROVE SearchInv'
<1> USE DEF SearchInv
<1>1. SearchTypeOK'
  BY TypeCall DEF Call
<1>2. /\ state = "scan" /\ nextCursor = NoCursor /\ segmentIndex <= Len(segments)
      /\ HeadsLeft = {} /\ segmentIndex' = segmentIndex + 1
      /\ cursor' = IF segmentIndex < Len(segments) THEN segments[segmentIndex + 1][1] ELSE cursor
      /\ UNCHANGED <<segments, heads, matching, touched, state, start, hits, scanned, nextCursor, received>>
  BY DEF NextSegment, Scanning, database
<1> DEFINE k == segmentIndex
<1>3. /\ Len(segments) \in Nat /\ k \in Nat /\ cursor \in Nat /\ matching \subseteq heads
      /\ k \in 1..Len(segments)
  <2>1. segmentIndex <= Len(segments)
    BY <1>2
  <2>2. SearchTypeOK
    OBVIOUS
  <2> HIDE DEF SearchInv
  <2> QED BY <2>1, <2>2, SearchNumbers
<1>4. /\ segments[k][1] \in Nat /\ segments[k][2] \in Nat /\ segments[k][1] < segments[k][2]
      /\ segments[k][1] <= cursor
  BY <1>2, <1>3, SegmentFacts DEF ScanInv, SearchTypeOK
<1>5. Found' = Found /\ \A n \in DOMAIN Found : Found[n] \in Nat /\ Found[n] < segments[k][2]
  BY <1>2, FoundType, SearchConstants DEF Found, ScanInv
<1>6. ASSUME NEW h \in heads, cursor <= h
      PROVE  \E j \in 1..Len(segments) : j > k /\ segments[j][1] <= h
  <2>1. PICK j \in 1..Len(segments) : segments[j][1] <= h /\ h < segments[j][2]
    BY ItemPlace
  <2>2. h \in Nat /\ j \in Nat /\ segments[j][2] \in Nat
    BY ItemPlace, SearchConstants, SegmentFacts DEF SearchTypeOK
  <2>3. ~(j < k)
    <3>1. SUFFICES ASSUME j < k PROVE FALSE
      OBVIOUS
    <3>2. j \in 1..(segmentIndex - 1)
      BY <1>3, <2>2, <3>1
    <3>3. segments[j][2] <= h
      BY <1>2, <1>6, <3>2 DEF ScanInv
    <3> QED BY <2>1, <2>2, <3>3
  <2>4. j # k
    BY <1>2, <1>6, <2>1 DEF HeadsLeft
  <2> QED BY <1>3, <2>1, <2>2, <2>3, <2>4
<1>7. ASSUME k < Len(segments)
      PROVE  /\ cursor' = segments[k + 1][1] /\ cursor' \in Nat /\ segments[k + 1][2] \in Nat
             /\ segments[k + 1][1] < segments[k + 1][2]
             /\ \A j \in 1..k : segments[j][2] <= cursor'
  <2>1. k + 1 \in 1..Len(segments) /\ (k + 1) - 1 = k
    BY <1>3, <1>7
  <2> QED BY <1>2, <1>7, <2>1, SegmentFacts DEF SearchTypeOK
<1>8. ASSUME NEW h \in heads, k < Len(segments), h < cursor' PROVE h < cursor
  <2>h. h \in Nat
    BY ItemPlace, SearchConstants DEF SearchTypeOK
  <2>1. SUFFICES ASSUME cursor <= h PROVE FALSE
    BY <1>3, <2>h
  <2>2. PICK j \in 1..Len(segments) : j > k /\ segments[j][1] <= h
    BY <1>6, <2>1
  <2>3. j \in Nat /\ segments[j][1] \in Nat /\ h \in Nat
    BY ItemPlace, SearchConstants, SegmentFacts DEF SearchTypeOK
  <2>4. cursor' <= segments[j][1]
    <3>1. CASE j = k + 1
      BY <1>7, <1>8, <2>3, <3>1
    <3>2. CASE j > k + 1
      <4>1. k + 1 \in 1..(j - 1)
        BY <1>3, <2>3, <3>2
      <4>2. segments[k + 1][2] <= segments[j][1]
        BY <4>1, SegmentFacts DEF SearchTypeOK
      <4> QED BY <1>7, <1>8, <2>3, <4>2
    <3> QED BY <1>3, <2>2, <2>3, <3>1, <3>2
  <2> QED BY <1>7, <1>8, <2>2, <2>3, <2>4
<1>9. ASSUME ~(k < Len(segments)), NEW h \in heads, cursor <= h PROVE FALSE
  <2>1. PICK j \in 1..Len(segments) : j > k /\ segments[j][1] <= h
    BY <1>6, <1>9
  <2> QED BY <1>3, <1>9, <2>1
<1>10. Divides(cursor, Found)'
  <2>1. Divides(cursor, Found)
    BY <1>2 DEF ScanInv
  <2>2. CASE k < Len(segments)
    <3>1. \A n \in DOMAIN Found : Found[n] < cursor'
      <4>1. segments[k][2] <= cursor'
        BY <1>3, <1>7, <2>2
      <4> QED BY <1>4, <1>5, <1>7, <2>2, <4>1
    <3>2. \A h \in matching : h < cursor' => h < cursor
      BY <1>3, <1>8, <2>2
    <3> QED BY <1>2, <1>5, <2>1, <3>1, <3>2 DEF Divides
  <2>3. CASE ~(k < Len(segments))
    BY <1>2, <1>5, <2>1, <2>3 DEF Divides
  <2> QED BY <2>2, <2>3
<1>11. ScanInv'
  <2>1. ASSUME NEW h \in heads, NEW j \in 1..(segmentIndex' - 1), cursor' <= h
        PROVE  segments[j][2] <= h
    <3>1. k < Len(segments)
      BY <1>2, <1>9, <2>1
    <3>2. j \in 1..k /\ j \in 1..Len(segments)
      BY <1>2, <1>3
    <3>3. segments[j][2] <= cursor' /\ segments[j][2] \in Nat /\ cursor' \in Nat /\ h \in Nat
      BY <1>7, <3>1, <3>2, SegmentFacts, ItemPlace, SearchConstants DEF SearchTypeOK
    <3> QED BY <2>1, <3>3
  <2>2. ASSUME segmentIndex' <= Len(segments)
        PROVE  /\ segments[segmentIndex'][1] <= cursor'
               /\ \A n \in DOMAIN Found : Found[n] < segments[segmentIndex'][2]
    <3>1. k < Len(segments)
      BY <1>2, <1>3, <2>2
    <3>2. segments[k][2] <= cursor'
      BY <1>3, <1>7, <3>1
    <3>3. \A n \in DOMAIN Found : Found[n] < segments[k + 1][2]
      BY <1>4, <1>5, <1>7, <3>1, <3>2
    <3>4. segments[k + 1][1] <= cursor'
      BY <1>7, <3>1
    <3> QED BY <1>2, <3>3, <3>4
  <2>3. Ascending(Found)'
    BY <1>2, <1>5 DEF ScanInv, Ascending
  <2>4. Len(hits) < Limit /\ scanned < ScanLimit
    BY <1>2 DEF ScanInv
  <2> QED BY <1>2, <1>5, <1>10, <2>1, <2>2, <2>3, <2>4 DEF ScanInv
<1> QED BY <1>1, <1>2, <1>11 DEF NoHitTwice, Ascending, NothingMissed, AskInv

(* An answer with a cursor leaves to come what is not below it; without    *)
(* one, the call has come to the end of the last segment.                  *)
LEMMA AnswerStep == ASSUME SearchInv, Answer PROVE SearchInv'
<1> USE DEF SearchInv
<1>1. SearchTypeOK'
  BY TypeCall DEF Call
<1>2. /\ state = "scan" /\ ~Scanning
      /\ received' = Found /\ start' = nextCursor
      /\ state' = IF nextCursor = NoCursor THEN "done" ELSE "ask"
      /\ UNCHANGED <<segments, heads, matching, touched>>
  BY DEF Answer, database, Found
<1>3. NoHitTwice'
  BY <1>2 DEF ScanInv, NoHitTwice, Ascending
<1>4. CASE nextCursor = NoCursor
  <2>1. /\ Len(segments) \in Nat /\ segmentIndex \in 1..(Len(segments) + 1)
        /\ Len(hits) \in Nat /\ Limit \in Nat
    BY SearchNumbers
  <2>2. segmentIndex = Len(segments) + 1
    BY <1>2, <1>4, <2>1 DEF Scanning, ScanInv
  <2>3. ASSUME NEW h \in heads PROVE h < cursor
    <3>1. h \in Nat /\ cursor \in Nat
      BY ItemPlace, SearchConstants DEF SearchTypeOK
    <3>2. PICK j \in 1..Len(segments) : h < segments[j][2]
      BY ItemPlace
    <3>3. segments[j][2] \in Nat /\ j \in 1..(segmentIndex - 1)
      BY <2>1, <2>2, SegmentFacts DEF SearchTypeOK
    <3> QED BY <1>2, <3>1, <3>2, <3>3 DEF ScanInv
  <2>4. NothingMissed'
    BY <1>2, <2>3 DEF NothingMissed, ScanInv, Divides, SearchTypeOK
  <2>5. state' = "done"
    BY <1>2, <1>4
  <2> QED BY <1>1, <1>3, <2>4, <2>5 DEF AskInv, ScanInv
<1>5. CASE nextCursor # NoCursor
  <2>1. AskInv'
    BY <1>2, <1>5 DEF AskInv, ScanInv, Divides
  <2>2. state' = "ask"
    BY <1>2, <1>5
  <2> QED BY <1>1, <1>3, <2>1, <2>2 DEF ScanInv, NothingMissed
<1> QED BY <1>4, <1>5

(* Whoever edits an item may lose or gain a hit there, and nowhere else.   *)
LEMMA EditStep ==
    ASSUME SearchInv, NEW a \in Addresses, UndoItem(a) \/ MakeItem(a) \/ ChangeText(a)
    PROVE  SearchInv'
<1> USE DEF SearchInv
<1>1. /\ state = "ask" /\ touched' = touched \cup {a}
      /\ edits < MaxEdits /\ edits' = edits + 1
      /\ UNCHANGED <<segments, size, state, start, callVars, received>>
      /\ matching' \ {a} \subseteq matching
  BY DEF UndoItem, MakeItem, ChangeText, Edit
<1>2. heads' \subseteq Addresses /\ matching' \subseteq heads' /\ ItemsFit(heads, size)'
  <2>1. CASE UndoItem(a)
    BY <1>1, <2>1 DEF UndoItem, SearchTypeOK, ItemsFit, InSegments
  <2>2. CASE MakeItem(a)
    BY <1>1, <2>2 DEF MakeItem, SearchTypeOK, ItemsFit, InSegments
  <2>3. CASE ChangeText(a)
    BY <1>1, <2>3 DEF ChangeText, SearchTypeOK, ItemsFit, InSegments
  <2> QED BY <2>1, <2>2, <2>3
<1>3. SearchTypeOK'
  BY <1>1, <1>2, LimitAssumption DEF SearchTypeOK, callVars
<1>4. matching' \ touched' \subseteq matching \ touched
  BY <1>1
<1>5. AskInv'
  BY <1>1, <1>4 DEF AskInv, Divides
<1> QED BY <1>1, <1>3, <1>5 DEF NoHitTwice, Ascending, NothingMissed, ScanInv

LEMMA InvNext == SearchInv /\ [SearchNext]_searchVars => SearchInv'
<1> SUFFICES ASSUME SearchInv, [SearchNext]_searchVars PROVE SearchInv'
  OBVIOUS
<1>1. CASE Call
  BY <1>1, BeginStep, ScanStep, StopStep, SegmentStep, AnswerStep DEF Call
<1>2. CASE \E a \in Addresses : UndoItem(a) \/ MakeItem(a) \/ ChangeText(a)
  BY <1>2, EditStep
<1>3. CASE UNCHANGED searchVars
  BY <1>3 DEF searchVars, database, callVars, SearchInv, SearchTypeOK, ItemsFit, InSegments, NoHitTwice,
              Ascending, NothingMissed, AskInv, ScanInv, Divides, Found
<1> QED BY <1>1, <1>2, <1>3 DEF SearchNext

-----------------------------------------------------------------------------
(* The invariant of a search, for any database, any limits and any edits.  *)
THEOREM SearchInvariant == SearchSpec => []SearchInv
BY InitInv, InvNext, PTL DEF SearchSpec

(* Every reachable state of a search is well typed.                        *)
THEOREM SearchTypes == SearchSpec => []SearchTypeOK
<1>1. SearchInv => SearchTypeOK
  BY DEF SearchInv
<1> QED BY <1>1, SearchInvariant, PTL

(* Whoever follows the cursors of search_text is given no address twice.   *)
THEOREM HitsAreNew == SearchSpec => []NoHitTwice
<1>1. SearchInv => NoHitTwice
  BY DEF SearchInv
<1> QED BY <1>1, SearchInvariant, PTL

(* ... and, when told that all is done, has been given every item that     *)
(* matched all along.                                                      *)
THEOREM SearchIsComplete == SearchSpec => []NothingMissed
<1>1. SearchInv => NothingMissed
  BY DEF SearchInv
<1> QED BY <1>1, SearchInvariant, PTL

(* At every moment of a call, what was found is what matched below cursor. *)
THEOREM CursorDivides == SearchSpec => []FoundSoFar
<1>1. ASSUME SearchInv, state = "scan", NEW h \in matching \ touched
      PROVE  h < cursor <=> \E i \in DOMAIN Found : Found[i] = h
  <2>1. Divides(cursor, Found)
    BY <1>1 DEF SearchInv, ScanInv
  <2> QED BY <2>1 DEF Divides
<1>2. SearchInv => FoundSoFar
  BY <1>1 DEF FoundSoFar
<1> QED BY <1>2, SearchInvariant, PTL
=============================================================================
