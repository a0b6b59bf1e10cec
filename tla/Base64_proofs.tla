---------------------------- MODULE Base64_proofs ----------------------------
(***************************************************************************)
(* Proofs about the text of a picture, for any bytes and any length.       *)
(***************************************************************************)
EXTENDS Base64, SequenceTheorems, TLAPS

\* Four characters of six bits hold the three bytes, and nothing else.
LEMMA QuadDigits ==
    ASSUME NEW a \in 0..255, NEW b \in 0..255, NEW c \in 0..255
    PROVE  /\ a \div 4 \in Digits
           /\ (a % 4) * 16 + b \div 16 \in Digits
           /\ (b % 16) * 4 + c \div 64 \in Digits
           /\ c % 64 \in Digits
BY DEF Digits

\* The first byte is in the first two characters, the second one in the next
\* two, the third one in the last two.
LEMMA FirstByte ==
    ASSUME NEW a \in 0..255, NEW b \in 0..255
    PROVE  LET w == a \div 4
               x == (a % 4) * 16 + b \div 16
           IN (w * 4 + (x % 64) \div 16) % 256 = a
<1>1. b \div 16 \in 0..15 /\ a % 4 \in 0..3
  OBVIOUS
<1>2. ((a % 4) * 16 + b \div 16) % 64 = (a % 4) * 16 + b \div 16
  BY <1>1
<1>3. ((a % 4) * 16 + b \div 16) \div 16 = a % 4
  BY <1>1
<1>4. a = 4 * (a \div 4) + (a % 4)
  OBVIOUS
<1> QED
  BY <1>2, <1>3, <1>4

LEMMA ThirdByte ==
    ASSUME NEW b \in 0..255, NEW c \in 0..255
    PROVE  LET y == (b % 16) * 4 + c \div 64
           IN ((y % 4) * 64 + (c % 64)) % 256 = c
<1>1. c \div 64 \in 0..3 /\ b % 16 \in 0..15
  OBVIOUS
<1>2. ((b % 16) * 4 + c \div 64) % 4 = c \div 64
  BY <1>1
<1>3. c = 64 * (c \div 64) + (c % 64)
  OBVIOUS
<1>4. (c \div 64) * 64 + (c % 64) = c
  BY <1>1, <1>3
<1>5. c % 256 = c
  OBVIOUS
<1>6. (((b % 16) * 4 + c \div 64) % 4) * 64 + (c % 64) = c
  BY <1>2, <1>4
<1> QED
  BY <1>5, <1>6

LEMMA QuadType ==
    ASSUME NEW a \in 0..255, NEW b \in 0..255, NEW c \in 0..255
    PROVE  /\ \A j \in 1..4 : Quad(a, b, c)[j] \in Digits
           /\ Quad(a, b, c) \in Seq(Digits) /\ Len(Quad(a, b, c)) = 4
<1>1. /\ Quad(a, b, c)[1] = a \div 4
      /\ Quad(a, b, c)[2] = (a % 4) * 16 + b \div 16
      /\ Quad(a, b, c)[3] = (b % 16) * 4 + c \div 64
      /\ Quad(a, b, c)[4] = c % 64
  BY DEF Quad
<1>2. /\ a \div 4 \in Digits
      /\ (a % 4) * 16 + b \div 16 \in Digits
      /\ (b % 16) * 4 + c \div 64 \in Digits
      /\ c % 64 \in Digits
  BY QuadDigits
<1>3. \A j \in 1..4 : j = 1 \/ j = 2 \/ j = 3 \/ j = 4
  OBVIOUS
<1>4. \A w, x, y, z \in Digits : /\ <<w, x, y, z>> \in Seq(Digits)
                                 /\ Len(<<w, x, y, z>>) = 4
  OBVIOUS
<1>5. Quad(a, b, c) \in Seq(Digits) /\ Len(Quad(a, b, c)) = 4
  BY <1>2, <1>4 DEF Quad
<1> QED
  BY <1>1, <1>2, <1>3, <1>5

IsTriple(t) ==
    /\ \A j \in 1..3 : t[j] \in 0..255
    /\ t \in Seq(0..255) /\ Len(t) = 3

LEMMA TripleType ==
    ASSUME NEW w \in 0..255, NEW x \in 0..255, NEW y \in 0..255,
           NEW z \in 0..255
    PROVE  IsTriple(Triple(w, x, y, z))
<1> DEFINE b1 == (w * 4 + (x % 64) \div 16) % 256
           b2 == ((x % 16) * 16 + (y % 64) \div 4) % 256
           b3 == ((y % 4) * 64 + z) % 256
<1>1. b1 \in 0..255 /\ b2 \in 0..255 /\ b3 \in 0..255
  OBVIOUS
<1>2. Triple(w, x, y, z) = <<b1, b2, b3>>
  BY DEF Triple
<1> HIDE DEF b1, b2, b3
<1>3. \A j \in 1..3 : j = 1 \/ j = 2 \/ j = 3
  OBVIOUS
<1> QED
  BY <1>1, <1>2, <1>3 DEF IsTriple

IsTripleOf(q, y, z, a, b, c) ==
    /\ Triple(q[1], q[2], y, z)[1] = a
    /\ Triple(q[1], q[2], q[3], z)[2] = b
    /\ Triple(q[1], q[2], q[3], q[4])[3] = c

\* The bytes of a group come back; those of the last one whatever stands for
\* the characters that are missing.
LEMMA TripleOfQuad ==
    ASSUME NEW a \in 0..255, NEW b \in 0..255, NEW c \in 0..255,
           NEW y \in 0..255, NEW z \in 0..255
    PROVE  IsTripleOf(Quad(a, b, c), y, z, a, b, c)
<1> DEFINE d1 == a \div 4
           d2 == (a % 4) * 16 + b \div 16
           d3 == (b % 16) * 4 + c \div 64
           d4 == c % 64
<1>1. /\ Quad(a, b, c)[1] = d1 /\ Quad(a, b, c)[2] = d2
      /\ Quad(a, b, c)[3] = d3 /\ Quad(a, b, c)[4] = d4
  BY DEF Quad
<1>3. (d1 * 4 + (d2 % 64) \div 16) % 256 = a
  BY FirstByte
<1>4. ((d2 % 16) * 16 + (d3 % 64) \div 4) % 256 = b
  <2>1. b \div 16 \in 0..15 /\ c \div 64 \in 0..3 /\ b % 16 \in 0..15
        /\ a % 4 \in 0..3
    OBVIOUS
  <2>2. d2 % 16 = b \div 16
    BY <2>1
  <2>3. d3 % 64 = d3
    BY <2>1
  <2>4. d3 \div 4 = b % 16
    BY <2>1
  <2>5. b = 16 * (b \div 16) + (b % 16)
    OBVIOUS
  <2> HIDE DEF d2, d3
  <2> QED
    BY <2>1, <2>2, <2>3, <2>4, <2>5
<1>5. ((d3 % 4) * 64 + d4) % 256 = c
  BY ThirdByte
<1> HIDE DEF d1, d2, d3, d4
<1>6. Triple(d1, d2, y, z)[1] = (d1 * 4 + (d2 % 64) \div 16) % 256
  BY DEF Triple
<1>7. Triple(d1, d2, d3, z)[2] = ((d2 % 16) * 16 + (d3 % 64) \div 4) % 256
  BY DEF Triple
<1>8. Triple(d1, d2, d3, d4)[3] = ((d3 % 4) * 64 + d4) % 256
  BY DEF Triple
<1> QED
  BY <1>1, <1>3, <1>4, <1>5, <1>6, <1>7, <1>8 DEF IsTripleOf

-----------------------------------------------------------------------------
\* What the concatenation of two sequences is, place by place.
LEMMA ConcatParts ==
    ASSUME NEW S, NEW p \in Seq(S), NEW q \in Seq(S)
    PROVE  /\ p \o q \in Seq(S)
           /\ Len(p \o q) = Len(p) + Len(q)
           /\ \A k \in 1..Len(p) : (p \o q)[k] = p[k]
           /\ \A k \in 1..Len(q) : (p \o q)[Len(p) + k] = q[k]
BY ConcatProperties

-----------------------------------------------------------------------------
\* The group that starts after h others.
GroupText(h) ==
    \A j \in 1..4 :
        ret[4 * h + j] =
            Quad(bytes[3 * h + 1], bytes[3 * h + 2], bytes[3 * h + 3])[j]

Groups == Len(bytes) \div 3
Rest   == Len(bytes) % 3

\* The encoder has written the groups of the bytes it has read ...
Encoding ==
    pc = "encode" =>
        \E g \in 0..Groups :
            /\ iter = 3 * g
            /\ Len(ret) = 4 * g
            /\ \A h \in 0..(g - 1) : GroupText(h)

\* ... and the padded last one.
Encoded ==
    pc # "encode" =>
        /\ \A h \in 0..(Groups - 1) : GroupText(h)
        /\ Rest = 0 => Len(ret) = 4 * Groups
        /\ Rest # 0 =>
              /\ Len(ret) = 4 * Groups + 4
              /\ \A j \in 1..4 :
                    ret[4 * Groups + j] =
                        TailText(Rest, bytes[3 * Groups + 1],
                                 IF Rest = 2 THEN bytes[3 * Groups + 2]
                                             ELSE 0)[j]

\* The decoder has read the first groups of the text.
Decoding ==
    /\ pc = "encode" => in_ = 0 /\ decoded = <<>>
    /\ pc = "decode" =>
          \E g \in 0..Groups :
              /\ in_ = 4 * g
              /\ Len(decoded) = 3 * g
              /\ \A k \in 1..(3 * g) : decoded[k] = bytes[k]

TextInv == Encoding /\ Encoded /\ Decoding /\ RoundTrip

\* The bytes of a group.
LEMMA GroupBytes ==
    ASSUME TypeOK
    PROVE  /\ Len(bytes) \in Nat /\ Groups \in Nat /\ Rest \in 0..2
           /\ Len(bytes) = 3 * Groups + Rest
           /\ \A k \in 1..Len(bytes) : bytes[k] \in 0..255
<1>1. Len(bytes) \in Nat
  BY DEF TypeOK
<1>2. /\ Len(bytes) \div 3 \in Nat /\ Len(bytes) % 3 \in 0..2
      /\ Len(bytes) = 3 * (Len(bytes) \div 3) + (Len(bytes) % 3)
  BY <1>1
<1>3. ASSUME NEW k \in 1..Len(bytes) PROVE bytes[k] \in 0..255
  <2>1. bytes[k] \in Bytes
    BY DEF TypeOK
  <2> QED
    BY <2>1, Base64Assumption
<1> QED
  BY <1>1, <1>2, <1>3 DEF Groups, Rest

\* The missing byte of the last group is a zero.
LEMMA TailBytes ==
    ASSUME TypeOK, Rest # 0
    PROVE  /\ bytes[3 * Groups + 1] \in 0..255
           /\ (IF Rest = 2 THEN bytes[3 * Groups + 2] ELSE 0) \in 0..255
<1>1. /\ 3 * Groups + 1 \in 1..Len(bytes)
      /\ Rest = 2 => 3 * Groups + 2 \in 1..Len(bytes)
  BY GroupBytes
<1> QED
  BY <1>1, GroupBytes

TailSeq(t) == t \in Seq(Digits \cup {Pad}) /\ Len(t) = 4

TailOf(t, i, a, b) ==
    /\ \A j \in 1..(i + 1) : t[j] = Quad(a, b, 0)[j] /\ t[j] \in Digits
    /\ \A j \in (i + 2)..4 : t[j] = Pad

LEMMA TailType ==
    ASSUME NEW i \in 1..2, NEW a \in 0..255, NEW b \in 0..255
    PROVE  TailSeq(TailText(i, a, b)) /\ TailOf(TailText(i, a, b), i, a, b)
<1> DEFINE t == TailText(i, a, b)
<1>1. \A j \in 1..4 : t[j] = IF j <= i + 1 THEN Quad(a, b, 0)[j] ELSE Pad
  BY DEF TailText
<1>2. \A j \in 1..4 : Quad(a, b, 0)[j] \in Digits
  <2>1. 0 \in 0..255
    OBVIOUS
  <2> QED
    BY <2>1, QuadType
<1>3. \A j \in 1..4 : t[j] \in Digits \cup {Pad}
  BY <1>1, <1>2
<1>4. t = [j \in 1..4 |-> t[j]]
  BY DEF TailText
<1> HIDE DEF t
<1>5. TailSeq(t)
  BY <1>3, <1>4 DEF TailSeq
<1>6. \A j \in 1..(i + 1) : t[j] = Quad(a, b, 0)[j] /\ t[j] \in Digits
  BY <1>1, <1>2
<1>7. \A j \in (i + 2)..4 : t[j] = Pad
  BY <1>1
<1> QED
  BY <1>5, <1>6, <1>7 DEF t, TailOf

-----------------------------------------------------------------------------
\* Three bytes are encoded.
LEMMA EncodeGroupText ==
    ASSUME TypeOK, TextInv, EncodeGroup
    PROVE  TypeOK' /\ TextInv'
<1>1. PICK g \in 0..Groups : /\ iter = 3 * g
                             /\ Len(ret) = 4 * g
                             /\ \A h \in 0..(g - 1) : GroupText(h)
  BY DEF TextInv, Encoding, EncodeGroup
<1> DEFINE q == Quad(bytes[iter + 1], bytes[iter + 2], bytes[iter + 3])
<1>2. /\ pc = "encode" /\ Len(bytes) - iter >= 3
      /\ ret' = ret \o q /\ iter' = iter + 3
      /\ UNCHANGED <<pc, bytes, in_, decoded>>
  BY DEF EncodeGroup
<1>3. /\ iter + 1 \in 1..Len(bytes)
      /\ iter + 2 \in 1..Len(bytes)
      /\ iter + 3 \in 1..Len(bytes)
      /\ g + 1 \in 0..Groups
  BY <1>1, <1>2, GroupBytes
<1>4. q \in Seq(Digits) /\ Len(q) = 4
  <2>1. /\ bytes[iter + 1] \in 0..255 /\ bytes[iter + 2] \in 0..255
        /\ bytes[iter + 3] \in 0..255
    BY <1>3, GroupBytes
  <2> QED
    BY <2>1, QuadType
<1>5. q = Quad(bytes[3 * g + 1], bytes[3 * g + 2], bytes[3 * g + 3])
  BY <1>1
<1> HIDE DEF q
<1>6. /\ ret' \in Seq(Digits \cup {Pad}) /\ Len(ret') = 4 * (g + 1)
      /\ \A k \in 1..(4 * g) : ret'[k] = ret[k]
      /\ \A j \in 1..4 : ret'[4 * g + j] = q[j]
  <2>1. ret \in Seq(Digits \cup {Pad}) /\ q \in Seq(Digits \cup {Pad})
    BY <1>4 DEF TypeOK
  <2>2. /\ ret \o q \in Seq(Digits \cup {Pad})
        /\ Len(ret \o q) = Len(ret) + Len(q)
        /\ \A k \in 1..Len(ret) : (ret \o q)[k] = ret[k]
        /\ \A k \in 1..Len(q) : (ret \o q)[Len(ret) + k] = q[k]
    BY <2>1, ConcatParts
  <2> QED
    BY <1>1, <1>2, <1>4, <2>2
<1>7. Groups' = Groups /\ Rest' = Rest
  BY <1>2 DEF Groups, Rest
<1>8. ASSUME NEW h \in 0..g PROVE GroupText(h)'
  <2>1. CASE h = g
    BY <1>2, <1>5, <1>6, <2>1 DEF GroupText
  <2>2. CASE h # g
    <3>1. h \in 0..(g - 1) /\ \A j \in 1..4 : 4 * h + j \in 1..(4 * g)
      BY <1>1, <2>2
    <3>2. GroupText(h)
      BY <1>1, <3>1
    <3> QED
      BY <1>2, <1>6, <3>1, <3>2 DEF GroupText
  <2> QED
    BY <2>1, <2>2
<1>9. Encoding'
  <2>1. /\ iter' = 3 * (g + 1) /\ Len(ret') = 4 * (g + 1)
        /\ g + 1 \in 0..Groups'
    <3>1. g \in Nat /\ iter + 3 = 3 * (g + 1)
      BY <1>1
    <3> QED
      BY <1>2, <1>3, <1>6, <1>7, <3>1
  <2>2. 0..((g + 1) - 1) = 0..g
    OBVIOUS
  <2>3. \A h \in 0..((g + 1) - 1) : GroupText(h)'
    BY <1>8, <2>2
  <2> QED
    BY <2>1, <2>3 DEF Encoding
<1>10. TypeOK'
  BY <1>1, <1>2, <1>3, <1>6 DEF TypeOK, TextInv, Decoding
<1> QED
  BY <1>2, <1>9, <1>10 DEF TextInv, Encoded, Decoding, RoundTrip

\* The last bytes are encoded.
LEMMA EncodeTailText ==
    ASSUME TypeOK, TextInv, EncodeTail
    PROVE  TypeOK' /\ TextInv'
<1>1. PICK g \in 0..Groups : /\ iter = 3 * g
                             /\ Len(ret) = 4 * g
                             /\ \A h \in 0..(g - 1) : GroupText(h)
  BY DEF TextInv, Encoding, EncodeTail
<1> DEFINE a == bytes[3 * Groups + 1]
           b == IF Rest = 2 THEN bytes[3 * Groups + 2] ELSE 0
           t == TailText(Rest, a, b)
<1>2. /\ pc = "encode" /\ pc' = "decode" /\ Len(bytes) - iter < 3
      /\ iter' = Len(bytes)
      /\ UNCHANGED <<bytes, in_, decoded>>
  BY DEF EncodeTail
<1>3. g = Groups /\ Len(bytes) - iter = Rest /\ Groups \in Nat
  BY <1>1, <1>2, GroupBytes
<1>4. ret' = IF Rest = 0 THEN ret ELSE ret \o t
  BY <1>1, <1>3 DEF EncodeTail
<1>5. Groups' = Groups /\ Rest' = Rest
  BY <1>2 DEF Groups, Rest
<1>6. /\ ret' \in Seq(Digits \cup {Pad})
      /\ \A k \in 1..(4 * g) : ret'[k] = ret[k]
      /\ Rest = 0 => Len(ret') = 4 * g
      /\ Rest # 0 => /\ Len(ret') = 4 * g + 4
                     /\ \A j \in 1..4 : ret'[4 * g + j] = t[j]
  <2>1. ret \in Seq(Digits \cup {Pad})
    BY DEF TypeOK
  <2>2. CASE Rest = 0
    BY <1>1, <1>4, <2>1, <2>2
  <2>3. CASE Rest # 0
    <3>1. t \in Seq(Digits \cup {Pad}) /\ Len(t) = 4
      <4>1. Rest \in 1..2 /\ a \in 0..255 /\ b \in 0..255
        BY <2>3, GroupBytes, TailBytes
      <4> HIDE DEF a, b
      <4>2. TailSeq(TailText(Rest, a, b))
        BY <4>1, TailType
      <4> QED
        BY <4>2 DEF TailSeq
    <3> HIDE DEF t
    <3>2. /\ ret \o t \in Seq(Digits \cup {Pad})
          /\ Len(ret \o t) = Len(ret) + Len(t)
          /\ \A k \in 1..Len(ret) : (ret \o t)[k] = ret[k]
          /\ \A k \in 1..Len(t) : (ret \o t)[Len(ret) + k] = t[k]
      <4>1. ret \in Seq(Digits \cup {Pad}) /\ t \in Seq(Digits \cup {Pad})
        BY <2>1, <3>1
      <4> QED
        BY <4>1, ConcatParts
    <3> QED
      BY <1>1, <1>4, <2>3, <3>1, <3>2
  <2> QED
    BY <2>2, <2>3
<1>7. ASSUME NEW h \in 0..(Groups - 1) PROVE GroupText(h)'
  <2>1. h \in 0..(g - 1) /\ \A j \in 1..4 : 4 * h + j \in 1..(4 * g)
    BY <1>1, <1>3
  <2>2. GroupText(h)
    BY <1>1, <2>1
  <2> QED
    BY <1>2, <1>6, <2>1, <2>2 DEF GroupText
<1>8. Encoded'
  BY <1>2, <1>3, <1>5, <1>6, <1>7 DEF Encoded
<1>9. in_ = 0 /\ decoded = <<>>
  BY <1>2 DEF TextInv, Decoding
<1>10. TypeOK'
  BY <1>2, <1>6, <1>9, GroupBytes DEF TypeOK
<1>11. Decoding'
  <2>1. 0 \in 0..Groups' /\ in_' = 4 * 0 /\ Len(decoded') = 3 * 0
    BY <1>2, <1>3, <1>5, <1>9
  <2> QED
    BY <1>2, <2>1 DEF Decoding
<1> QED
  BY <1>2, <1>8, <1>10, <1>11 DEF TextInv, Encoding, RoundTrip

-----------------------------------------------------------------------------
\* The characters of a group are digits, and give its bytes back.
LEMMA GroupDigits ==
    ASSUME TypeOK, Encoded, pc # "encode", NEW g \in 0..(Groups - 1)
    PROVE  /\ 4 * g + 4 <= Len(ret)
           /\ 3 * g + 3 <= Len(bytes)
           /\ \A j \in 1..4 : IsDigit(4 * g + j)
           /\ \A j \in 1..3 :
                 Triple(ret[4 * g + 1], ret[4 * g + 2], ret[4 * g + 3],
                        ret[4 * g + 4])[j] = bytes[3 * g + j]
<1> DEFINE a == bytes[3 * g + 1]
           b == bytes[3 * g + 2]
           c == bytes[3 * g + 3]
           q == Quad(a, b, c)
<1>1. Groups \in Nat /\ Rest \in 0..2 /\ Len(bytes) = 3 * Groups + Rest
  BY GroupBytes
<1>2. /\ 4 * g + 4 <= Len(ret)
      /\ 3 * g + 3 <= Len(bytes)
  BY <1>1 DEF Encoded
<1>3. a \in 0..255 /\ b \in 0..255 /\ c \in 0..255
  <2>1. /\ 3 * g + 1 \in 1..Len(bytes)
        /\ 3 * g + 2 \in 1..Len(bytes)
        /\ 3 * g + 3 \in 1..Len(bytes)
    BY <1>1, <1>2
  <2> QED
    BY <2>1, GroupBytes
<1>4. \A j \in 1..4 : ret[4 * g + j] = q[j]
  BY DEF Encoded, GroupText
<1> HIDE DEF a, b, c
<1>5. \A j \in 1..4 : q[j] \in Digits
  BY <1>3, QuadType
<1>6. ASSUME NEW j \in 1..4 PROVE IsDigit(4 * g + j)
  <2>1. 4 * g + j <= Len(ret)
    BY <1>2, DOMAIN ret = 1..Len(ret), Len(ret) \in Nat DEF TypeOK
  <2> QED
    BY <1>4, <1>5, <2>1 DEF IsDigit
<1>7. q[3] \in 0..255 /\ q[4] \in 0..255
  BY <1>5 DEF Digits
<1>8. /\ Triple(q[1], q[2], q[3], q[4])[1] = a
      /\ Triple(q[1], q[2], q[3], q[4])[2] = b
      /\ Triple(q[1], q[2], q[3], q[4])[3] = c
  <2>1. \A y, z \in 0..255 : IsTripleOf(Quad(a, b, c), y, z, a, b, c)
    BY <1>3, TripleOfQuad
  <2>2. \A y, z \in 0..255 : IsTripleOf(q, y, z, a, b, c)
    BY <2>1
  <2> HIDE DEF q
  <2>3. IsTripleOf(q, q[3], q[4], a, b, c)
    BY <1>7, <2>2
  <2> QED
    BY <2>3 DEF IsTripleOf
<1>9. /\ ret[4 * g + 1] = q[1] /\ ret[4 * g + 2] = q[2]
      /\ ret[4 * g + 3] = q[3] /\ ret[4 * g + 4] = q[4]
  BY <1>4
<1>10. \A j \in 1..3 : j = 1 \/ j = 2 \/ j = 3
  OBVIOUS
<1> HIDE DEF q
<1>11. \A j \in 1..3 :
         Triple(ret[4 * g + 1], ret[4 * g + 2], ret[4 * g + 3],
                ret[4 * g + 4])[j] = bytes[3 * g + j]
  BY <1>8, <1>9, <1>10 DEF a, b, c
<1> QED
  BY <1>2, <1>6, <1>11

\* After the groups come the Rest + 1 digits of the last one, if there is one,
\* and no digit after them.
LEMMA RestDigits ==
    ASSUME TypeOK, Encoded, pc # "encode"
    PROVE  /\ Rest = 0 => ~IsDigit(4 * Groups + 1)
           /\ Rest # 0 =>
                 /\ \A j \in 1..(Rest + 1) : IsDigit(4 * Groups + j)
                 /\ ~IsDigit(4 * Groups + Rest + 2)
<1>1. Groups \in Nat /\ Rest \in 0..2
  BY GroupBytes
<1>2. CASE Rest = 0
  BY <1>1, <1>2 DEF Encoded, IsDigit
<1>3. CASE Rest # 0
  <2> DEFINE a == bytes[3 * Groups + 1]
             b == IF Rest = 2 THEN bytes[3 * Groups + 2] ELSE 0
             t == TailText(Rest, a, b)
  <2>1. /\ Len(ret) = 4 * Groups + 4
        /\ \A j \in 1..4 : ret[4 * Groups + j] = t[j]
    BY <1>3 DEF Encoded
  <2>2. a \in 0..255 /\ b \in 0..255 /\ Rest \in 1..2
    BY <1>1, <1>3, TailBytes
  <2> HIDE DEF a, b
  <2>3. /\ \A j \in 1..(Rest + 1) : t[j] \in Digits
        /\ \A j \in (Rest + 2)..4 : t[j] = Pad
    <3>1. TailOf(TailText(Rest, a, b), Rest, a, b)
      BY <2>2, TailType
    <3> QED
      BY <3>1 DEF TailOf
  <2> HIDE DEF t
  <2>4. ASSUME NEW j \in 1..(Rest + 1) PROVE IsDigit(4 * Groups + j)
    <3>1. j \in 1..4 /\ 4 * Groups + j <= Len(ret)
      BY <1>1, <2>1, <2>2
    <3> QED
      BY <2>1, <2>3, <3>1 DEF IsDigit
  <2>5. ~IsDigit(4 * Groups + Rest + 2)
    <3>1. /\ Rest + 2 \in 1..4 /\ Rest + 2 \in (Rest + 2)..4
          /\ 4 * Groups + (Rest + 2) = 4 * Groups + Rest + 2
      BY <1>1, <2>2
    <3>2. ret[4 * Groups + (Rest + 2)] = Pad
      BY <2>1, <2>3, <3>1
    <3>3. Pad \notin Digits
      BY DEF Pad, Digits
    <3>4. ret[4 * Groups + Rest + 2] \notin Digits
      BY <3>1, <3>2, <3>3
    <3> QED
      BY <3>4 DEF IsDigit
  <2> QED
    BY <1>3, <2>4, <2>5
<1> QED
  BY <1>2, <1>3

\* Four characters are decoded.
LEMMA DecodeGroupText ==
    ASSUME TypeOK, TextInv, DecodeGroup
    PROVE  TypeOK' /\ TextInv'
<1>1. PICK g \in 0..Groups :
         /\ in_ = 4 * g
         /\ Len(decoded) = 3 * g
         /\ \A k \in 1..(3 * g) : decoded[k] = bytes[k]
  BY DEF TextInv, Decoding, DecodeGroup
<1> DEFINE t == Triple(ret[in_ + 1], ret[in_ + 2], ret[in_ + 3],
                       ret[in_ + 4])
<1>2. /\ pc = "decode" /\ \A j \in 1..4 : IsDigit(in_ + j)
      /\ decoded' = decoded \o t /\ in_' = in_ + 4
      /\ UNCHANGED <<pc, bytes, iter, ret>>
  BY DEF DecodeGroup
<1>3. Groups \in Nat /\ Rest \in 0..2 /\ Len(bytes) = 3 * Groups + Rest
  BY GroupBytes
<1>4. Encoded
  BY DEF TextInv
<1>5. g # Groups
  <2> SUFFICES ASSUME g = Groups PROVE FALSE
    OBVIOUS
  <2>1. \A j \in 1..4 : IsDigit(4 * Groups + j)
    BY <1>1, <1>2
  <2>2. IsDigit(4 * Groups + 1)
    BY <2>1
  <2>3. Rest \in 1..2 /\ Rest + 2 \in 1..4 /\
        4 * Groups + (Rest + 2) = 4 * Groups + Rest + 2
    BY <1>2, <1>3, <1>4, <2>2, RestDigits
  <2>4. IsDigit(4 * Groups + (Rest + 2))
    BY <2>1, <2>3
  <2> QED
    BY <1>2, <1>4, <2>3, <2>4, RestDigits
<1>6. g \in 0..(Groups - 1) /\ g + 1 \in 0..Groups
  BY <1>3, <1>5
<1>7. /\ 4 * g + 4 <= Len(ret) /\ 3 * g + 3 <= Len(bytes)
      /\ \A j \in 1..3 : t[j] = bytes[3 * g + j]
  BY <1>1, <1>2, <1>4, <1>6, GroupDigits
<1>8. t \in Seq(0..255) /\ Len(t) = 3
  <2>1. /\ ret[in_ + 1] \in 0..255 /\ ret[in_ + 2] \in 0..255
        /\ ret[in_ + 3] \in 0..255 /\ ret[in_ + 4] \in 0..255
    BY <1>2 DEF IsDigit, Digits
  <2>2. IsTriple(t)
    BY <2>1, TripleType
  <2> QED
    BY <2>2 DEF IsTriple
<1> HIDE DEF t
<1>9. /\ decoded' \in Seq(0..255) /\ Len(decoded') = 3 * (g + 1)
      /\ \A k \in 1..(3 * g) : decoded'[k] = decoded[k]
      /\ \A j \in 1..3 : decoded'[3 * g + j] = t[j]
  <2>1. decoded \in Seq(0..255) /\ t \in Seq(0..255)
    BY <1>8 DEF TypeOK
  <2>2. /\ decoded \o t \in Seq(0..255)
        /\ Len(decoded \o t) = Len(decoded) + Len(t)
        /\ \A k \in 1..Len(decoded) : (decoded \o t)[k] = decoded[k]
        /\ \A k \in 1..Len(t) : (decoded \o t)[Len(decoded) + k] = t[k]
    BY <2>1, ConcatParts
  <2> QED
    BY <1>1, <1>2, <1>8, <2>2
<1>10. ASSUME NEW k \in 1..(3 * (g + 1)) PROVE decoded'[k] = bytes[k]
  <2>1. CASE k <= 3 * g
    BY <1>1, <1>9, <2>1
  <2>2. CASE k > 3 * g
    <3>1. PICK j \in 1..3 : k = 3 * g + j
      <4>1. k - 3 * g \in 1..3 /\ k = 3 * g + (k - 3 * g)
        BY <1>1, <2>2
      <4> QED
        BY <4>1
    <3> QED
      BY <1>7, <1>9, <3>1
  <2> QED
    BY <1>1, <2>1, <2>2
<1>11. Groups' = Groups /\ Rest' = Rest
  BY <1>2 DEF Groups, Rest
<1>12. TypeOK'
  <2>1. in_' \in 0..Len(ret')
    BY <1>1, <1>2, <1>7 DEF TypeOK
  <2> QED
    BY <1>2, <1>9, <2>1 DEF TypeOK
<1>13. Decoding'
  <2>1. /\ g + 1 \in 0..Groups' /\ in_' = 4 * (g + 1)
        /\ Len(decoded') = 3 * (g + 1)
    BY <1>1, <1>2, <1>6, <1>9, <1>11
  <2>2. \A k \in 1..(3 * (g + 1)) : decoded'[k] = bytes'[k]
    BY <1>2, <1>10
  <2> QED
    BY <1>2, <2>1, <2>2 DEF Decoding
<1>14. Encoded'
  BY <1>2, <1>4, <1>11 DEF Encoded, GroupText
<1> QED
  BY <1>2, <1>12, <1>13, <1>14 DEF TextInv, Encoding, RoundTrip

\* The characters that are left are the Rest + 1 of the last group, or none.
LEMMA RestIsLeft ==
    ASSUME TypeOK, Encoded, pc # "encode", NEW g \in 0..Groups,
           NEW i \in 0..3,
           \A j \in 1..i : IsDigit(4 * g + j),
           ~IsDigit(4 * g + i + 1)
    PROVE  /\ g = Groups
           /\ i = IF Rest = 0 THEN 0 ELSE Rest + 1
<1>1. Groups \in Nat /\ Rest \in 0..2
  BY GroupBytes
<1>2. g = Groups
  <2> SUFFICES ASSUME g # Groups PROVE FALSE
    OBVIOUS
  <2>1. g \in 0..(Groups - 1)
    BY <1>1
  <2>2. \A j \in 1..4 : IsDigit(4 * g + j)
    BY <2>1, GroupDigits
  <2>3. i + 1 \in 1..4 /\ 4 * g + (i + 1) = 4 * g + i + 1
    BY <1>1
  <2> QED
    BY <2>2, <2>3
<1>3. CASE Rest = 0
  <2>1. ~IsDigit(4 * Groups + 1)
    BY <1>3, RestDigits
  <2>2. i >= 1 => 1 \in 1..i
    OBVIOUS
  <2> QED
    BY <1>2, <1>3, <2>1, <2>2
<1>4. CASE Rest # 0
  <2>1. /\ \A j \in 1..(Rest + 1) : IsDigit(4 * Groups + j)
        /\ ~IsDigit(4 * Groups + Rest + 2)
    BY <1>4, RestDigits
  <2>2. ~(i > Rest + 1)
    <3> SUFFICES ASSUME i > Rest + 1 PROVE FALSE
      OBVIOUS
    <3>1. Rest + 2 \in 1..i /\ 4 * g + (Rest + 2) = 4 * Groups + Rest + 2
      BY <1>1, <1>2
    <3> QED
      BY <2>1, <3>1
  <2>3. ~(i < Rest + 1)
    <3> SUFFICES ASSUME i < Rest + 1 PROVE FALSE
      OBVIOUS
    <3>1. i + 1 \in 1..(Rest + 1) /\ 4 * Groups + (i + 1) = 4 * g + i + 1
      BY <1>1, <1>2
    <3> QED
      BY <2>1, <3>1
  <2> QED
    BY <1>1, <1>2, <1>4, <2>2, <2>3
<1> QED
  BY <1>2, <1>3, <1>4

\* The bytes of the last group come back from its digits, whatever is read for
\* the characters that are missing.
LEMMA RestBytes ==
    ASSUME TypeOK, Encoded, pc # "encode", Rest # 0,
           NEW y \in 0..255, NEW z \in 0..255,
           Rest = 2 => y = ret[4 * Groups + 3]
    PROVE  \A j \in 1..Rest :
              Triple(ret[4 * Groups + 1], ret[4 * Groups + 2], y, z)[j]
                  = bytes[3 * Groups + j]
<1> DEFINE a == bytes[3 * Groups + 1]
           b == IF Rest = 2 THEN bytes[3 * Groups + 2] ELSE 0
           t == TailText(Rest, a, b)
           q == Quad(a, b, 0)
<1>1. Groups \in Nat /\ Rest \in 1..2
  BY GroupBytes
<1>2. \A j \in 1..4 : ret[4 * Groups + j] = t[j]
  BY DEF Encoded
<1>3. a \in 0..255 /\ b \in 0..255 /\ 0 \in 0..255
  BY <1>1, TailBytes
<1>4. Rest = 2 => b = bytes[3 * Groups + 2]
  OBVIOUS
<1> HIDE DEF a, b
<1>5. \A j \in 1..(Rest + 1) : t[j] = q[j]
  <2>1. TailOf(TailText(Rest, a, b), Rest, a, b)
    BY <1>1, <1>3, TailType
  <2> QED
    BY <2>1 DEF TailOf
<1>6. IsTripleOf(q, y, z, a, b, 0)
  BY <1>3, TripleOfQuad
<1> HIDE DEF t, q
<1>7. /\ ret[4 * Groups + 1] = q[1]
      /\ ret[4 * Groups + 2] = q[2]
      /\ Rest = 2 => ret[4 * Groups + 3] = q[3]
  BY <1>1, <1>2, <1>5
<1>8. Triple(ret[4 * Groups + 1], ret[4 * Groups + 2], y, z)[1] = a
  BY <1>6, <1>7 DEF IsTripleOf
<1>9. Rest = 2 =>
        Triple(ret[4 * Groups + 1], ret[4 * Groups + 2], y, z)[2] = b
  BY <1>6, <1>7 DEF IsTripleOf
<1>10. \A j \in 1..Rest : j = 1 \/ (j = 2 /\ Rest = 2)
  BY <1>1
<1> QED
  BY <1>4, <1>8, <1>9, <1>10 DEF a

\* The last characters are decoded.
LEMMA DecodeTailText ==
    ASSUME TypeOK, TextInv, DecodeTail
    PROVE  TypeOK' /\ TextInv'
<1>1. PICK g \in 0..Groups :
         /\ in_ = 4 * g
         /\ Len(decoded) = 3 * g
         /\ \A k \in 1..(3 * g) : decoded[k] = bytes[k]
  BY DEF TextInv, Decoding, DecodeTail
<1>2. /\ pc = "decode" /\ pc' = "done"
      /\ UNCHANGED <<bytes, iter, ret>>
  BY DEF DecodeTail
<1>3. PICK i \in 0..3 :
         /\ \A j \in 1..i : IsDigit(in_ + j)
         /\ ~IsDigit(in_ + i + 1)
         /\ in_' = in_ + i
         /\ decoded' = decoded \o
               LET At(j) == IF j <= i THEN ret[in_ + j] ELSE NotFound
               IN [j \in 1..(i - 1) |-> Triple(At(1), At(2), At(3), At(4))[j]]
  BY DEF DecodeTail
<1> DEFINE At(j) == IF j <= i THEN ret[in_ + j] ELSE NotFound
           T == Triple(At(1), At(2), At(3), At(4))
           u == [j \in 1..(i - 1) |-> T[j]]
<1>3b. decoded' = decoded \o u
  BY <1>3
<1>4. Groups \in Nat /\ Rest \in 0..2 /\ Len(bytes) = 3 * Groups + Rest
  BY GroupBytes
<1>5. Encoded
  BY DEF TextInv
<1>6. g = Groups /\ i = IF Rest = 0 THEN 0 ELSE Rest + 1
  <2>1. \A j \in 1..i : IsDigit(4 * g + j)
    BY <1>1, <1>3
  <2>2. ~IsDigit(4 * g + i + 1)
    BY <1>1, <1>3
  <2> QED
    BY <1>2, <1>5, <2>1, <2>2, RestIsLeft
<1>7. /\ u \in Seq(0..255) /\ Len(u) = Rest
      /\ \A j \in 1..Rest : u[j] = bytes[3 * g + j]
  <2>1. CASE Rest = 0
    <3>1. 1..(i - 1) = {}
      BY <1>6, <2>1
    <3>2. u = <<>>
      BY <3>1
    <3> HIDE DEF u
    <3> QED
      BY <2>1, <3>2
  <2>2. CASE Rest # 0
    <3>1. i = Rest + 1 /\ Rest \in 1..2 /\ i - 1 = Rest
      BY <1>4, <1>6, <2>2
    <3>2. /\ At(1) = ret[4 * Groups + 1] /\ At(2) = ret[4 * Groups + 2]
          /\ Rest = 2 => At(3) = ret[4 * Groups + 3]
      BY <1>1, <1>6, <3>1
    <3>3. \A j \in 1..i : ret[in_ + j] \in 0..255
      <4>1. \A j \in 1..i : ret[in_ + j] \in Digits
        BY <1>3 DEF IsDigit
      <4> QED
        BY <4>1 DEF Digits
    <3>4. /\ At(1) \in 0..255 /\ At(2) \in 0..255
          /\ At(3) \in 0..255 /\ At(4) \in 0..255
      <4>1. NotFound \in 0..255
        BY DEF NotFound
      <4> QED
        BY <3>1, <3>3, <4>1
    <3> HIDE DEF At
    <3>5. \A j \in 1..Rest : T[j] = bytes[3 * Groups + j]
      <4>1. \A j \in 1..Rest :
               Triple(ret[4 * Groups + 1], ret[4 * Groups + 2],
                      At(3), At(4))[j] = bytes[3 * Groups + j]
        BY <1>2, <1>5, <2>2, <3>2, <3>4, RestBytes
      <4> QED
        BY <3>2, <4>1
    <3> HIDE DEF T
    <3>6. \A j \in 1..Rest : bytes[3 * Groups + j] \in 0..255
      <4>1. \A j \in 1..Rest : 3 * Groups + j \in 1..Len(bytes)
        BY <1>4
      <4> QED
        BY <4>1, GroupBytes
    <3>7. u = [j \in 1..Rest |-> bytes[3 * Groups + j]]
      BY <3>1, <3>5
    <3> HIDE DEF u
    <3>8. u \in Seq(0..255) /\ Len(u) = Rest
      BY <1>4, <3>6, <3>7
    <3>9. \A j \in 1..Rest : u[j] = bytes[3 * Groups + j]
      BY <3>7
    <3> QED
      BY <1>6, <3>8, <3>9
  <2> QED
    BY <2>1, <2>2
<1> HIDE DEF u, T, At
<1>8. /\ decoded' \in Seq(0..255) /\ Len(decoded') = Len(bytes)
      /\ \A k \in 1..(3 * g) : decoded'[k] = bytes[k]
      /\ \A j \in 1..Rest : decoded'[3 * g + j] = bytes[3 * g + j]
  <2>1. decoded \in Seq(0..255) /\ u \in Seq(0..255)
    BY <1>7 DEF TypeOK
  <2>2. /\ decoded \o u \in Seq(0..255)
        /\ Len(decoded \o u) = Len(decoded) + Len(u)
        /\ \A k \in 1..Len(decoded) : (decoded \o u)[k] = decoded[k]
        /\ \A k \in 1..Len(u) :
              (decoded \o u)[Len(decoded) + k] = u[k]
    BY <2>1, ConcatParts
  <2> QED
    BY <1>1, <1>3b, <1>4, <1>6, <1>7, <2>2
<1>9. ASSUME NEW k \in 1..Len(bytes) PROVE decoded'[k] = bytes[k]
  <2>1. CASE k <= 3 * g
    BY <1>8, <2>1
  <2>2. CASE k > 3 * g
    <3>1. k - 3 * g \in 1..Rest /\ k = 3 * g + (k - 3 * g)
      BY <1>4, <1>6, <2>2
    <3> QED
      BY <1>8, <3>1
  <2> QED
    BY <1>1, <1>4, <2>1, <2>2
<1>10. decoded' = bytes
  <2>1. bytes \in Seq(Bytes) /\ Len(bytes) \in Nat
    BY DEF TypeOK
  <2>2. /\ bytes = [k \in 1..Len(bytes) |-> bytes[k]]
        /\ decoded' = [k \in 1..Len(decoded') |-> decoded'[k]]
    BY <1>8, <2>1
  <2> QED
    BY <1>8, <1>9, <2>2
<1>11. Groups' = Groups /\ Rest' = Rest
  BY <1>2 DEF Groups, Rest
<1>12. in_' \in 0..Len(ret')
  BY <1>1, <1>2, <1>3, <1>4, <1>5, <1>6 DEF Encoded
<1>13. TypeOK'
  BY <1>2, <1>8, <1>12 DEF TypeOK
<1>14. Encoded'
  BY <1>2, <1>5, <1>11 DEF Encoded, GroupText
<1> QED
  BY <1>2, <1>10, <1>13, <1>14 DEF TextInv, Encoding, Decoding, RoundTrip

-----------------------------------------------------------------------------
\* Nothing is written or read yet.
LEMMA InitText == Init => TypeOK /\ TextInv
<1> SUFFICES ASSUME Init PROVE TypeOK /\ TextInv
  OBVIOUS
<1>1. PICK n \in 0..MaxLen : bytes \in [1..n -> Bytes]
  BY DEF Init
<1>2. bytes \in Seq(Bytes) /\ Len(bytes) = n
  BY <1>1, Base64Assumption
<1>3. TypeOK
  BY <1>1, <1>2, Base64Assumption DEF TypeOK, Init
<1>4. Groups \in Nat
  BY <1>3, GroupBytes
<1>5. Encoding
  <2>1. 0 \in 0..Groups /\ iter = 3 * 0 /\ Len(ret) = 4 * 0
    BY <1>4 DEF Init
  <2>2. \A h \in 0..(0 - 1) : GroupText(h)
    OBVIOUS
  <2> QED
    BY <2>1, <2>2 DEF Encoding
<1> QED
  BY <1>3, <1>5 DEF TextInv, Encoded, Decoding, RoundTrip, Init

\* TypeOK: the type invariant, and the loops of IOUtils.cpp keep what they
\* have written and read in step, for every picture.
THEOREM TextCorrect == Spec => [](TypeOK /\ TextInv)
<1>1. Init => TypeOK /\ TextInv
  BY InitText
<1>2. TypeOK /\ TextInv /\ [Next]_vars => TypeOK' /\ TextInv'
  <2> SUFFICES ASSUME TypeOK, TextInv, [Next]_vars
               PROVE  TypeOK' /\ TextInv'
    OBVIOUS
  <2>1. CASE EncodeGroup
    BY <2>1, EncodeGroupText
  <2>2. CASE EncodeTail
    BY <2>2, EncodeTailText
  <2>3. CASE DecodeGroup
    BY <2>3, DecodeGroupText
  <2>4. CASE DecodeTail
    BY <2>4, DecodeTailText
  <2>5. CASE UNCHANGED vars
    BY <2>5 DEF vars, TypeOK, TextInv, Encoding, Encoded, Decoding,
                RoundTrip, GroupText, Groups, Rest
  <2> QED
    BY <2>1, <2>2, <2>3, <2>4, <2>5 DEF Next
<1> QED
  BY <1>1, <1>2, PTL DEF Spec

\* TypeOK holds for every alphabet of bytes and every length of a picture.
THEOREM TypeCorrect == Spec => []TypeOK
BY TextCorrect, PTL

\* RoundTrip: base64_decode gives back what base64_encode was given.
THEOREM RoundTripCorrect == Spec => []RoundTrip
<1>1. TypeOK /\ TextInv => RoundTrip
  BY DEF TextInv
<1> QED
  BY <1>1, TextCorrect, PTL

\* A place of the text is a place of a group or of the padded last one.
LEMMA PlaceInGroup ==
    ASSUME NEW G \in Nat, NEW k \in 1..(4 * G)
    PROVE  \E h \in 0..(G - 1), j \in 1..4 : k = 4 * h + j
<1> DEFINE h == (k - 1) \div 4
           j == ((k - 1) % 4) + 1
<1>1. h \in 0..(G - 1) /\ j \in 1..4 /\ k = 4 * h + j
  OBVIOUS
<1> HIDE DEF h, j
<1> QED
  BY <1>1

\* WellFormed: whole groups of four, the signs '=' at the end only.
THEOREM WellFormedCorrect == Spec => []WellFormed
<1>1. TypeOK /\ TextInv => WellFormed
  <2> SUFFICES ASSUME TypeOK, TextInv, pc # "encode"
               PROVE  /\ Len(ret) = 4 * ((Len(bytes) + 2) \div 3)
                      /\ \A k \in 1..Len(ret) :
                            ret[k] = Pad <=>
                              k > Len(ret) - ((3 - (Len(bytes) % 3)) % 3)
    BY DEF WellFormed
  <2>1. /\ Groups \in Nat /\ Rest \in 0..2 /\ Len(bytes) = 3 * Groups + Rest
        /\ Len(bytes) \in Nat
    BY GroupBytes
  <2>2. Encoded
    BY DEF TextInv
  <2>3. Pad \notin Digits
    BY DEF Pad, Digits
  <2>4. ASSUME NEW k \in 1..(4 * Groups) PROVE ret[k] # Pad
    <3>1. PICK h \in 0..(Groups - 1), j \in 1..4 : k = 4 * h + j
      BY <2>1, PlaceInGroup
    <3>2. IsDigit(4 * h + j)
      <4>1. \A l \in 1..4 : IsDigit(4 * h + l)
        BY <2>2, GroupDigits
      <4> QED
        BY <4>1
    <3> QED
      BY <2>3, <3>1, <3>2 DEF IsDigit
  <2>5. Rest = Len(bytes) % 3
    BY DEF Rest
  <2>6. CASE Rest = 0
    <3>1. Len(ret) = 4 * Groups
      BY <2>2, <2>6 DEF Encoded
    <3>2. /\ (Len(bytes) + 2) \div 3 = Groups
          /\ (3 - (Len(bytes) % 3)) % 3 = 0
      BY <2>1, <2>5, <2>6
    <3> QED
      BY <2>1, <2>4, <3>1, <3>2
  <2>7. CASE Rest # 0
    <3> DEFINE a == bytes[3 * Groups + 1]
               b == IF Rest = 2 THEN bytes[3 * Groups + 2] ELSE 0
               t == TailText(Rest, a, b)
    <3>1. /\ Len(ret) = 4 * Groups + 4
          /\ \A j \in 1..4 : ret[4 * Groups + j] = t[j]
      BY <2>2, <2>7 DEF Encoded
    <3>2. /\ (Len(bytes) + 2) \div 3 = Groups + 1
          /\ (3 - (Len(bytes) % 3)) % 3 = 3 - Rest
      BY <2>1, <2>5, <2>7
    <3>3. a \in 0..255 /\ b \in 0..255 /\ Rest \in 1..2
      BY <2>1, <2>7, TailBytes
    <3> HIDE DEF a, b
    <3>4. /\ \A j \in 1..(Rest + 1) : t[j] \in Digits
          /\ \A j \in (Rest + 2)..4 : t[j] = Pad
      <4>1. TailOf(TailText(Rest, a, b), Rest, a, b)
        BY <3>3, TailType
      <4> QED
        BY <4>1 DEF TailOf
    <3> HIDE DEF t
    <3>5. ASSUME NEW k \in 1..Len(ret)
          PROVE  ret[k] = Pad <=> k > Len(ret) - (3 - Rest)
      <4>1. CASE k <= 4 * Groups
        BY <2>1, <2>4, <3>1, <3>3, <4>1
      <4>2. CASE k > 4 * Groups
        <5> DEFINE j == k - 4 * Groups
        <5>1. j \in 1..4 /\ k = 4 * Groups + j
          BY <2>1, <3>1, <4>2
        <5>2. /\ ret[k] = t[j]
              /\ k > Len(ret) - (3 - Rest) <=> j > Rest + 1
          BY <2>1, <3>1, <3>3, <5>1
        <5>3. /\ j <= Rest + 1 => j \in 1..(Rest + 1)
              /\ j > Rest + 1 => j \in (Rest + 2)..4
          BY <3>3, <5>1
        <5> HIDE DEF j
        <5> QED
          BY <2>3, <3>3, <3>4, <5>1, <5>2, <5>3
      <4> QED
        BY <2>1, <4>1, <4>2
    <3>6. /\ Len(ret) = 4 * ((Len(bytes) + 2) \div 3)
          /\ Len(ret) - ((3 - (Len(bytes) % 3)) % 3) = Len(ret) - (3 - Rest)
      BY <2>1, <3>1, <3>2
    <3> QED
      BY <3>5, <3>6
  <2> QED
    BY <2>6, <2>7
<1> QED
  BY <1>1, TextCorrect, PTL
=============================================================================
