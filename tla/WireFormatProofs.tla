-------------------------- MODULE WireFormatProofs --------------------------
(***************************************************************************)
(* The payload encodings lose nothing: for every value of a field, what    *)
(* the other side reads is what was packed, and a quantised value is never *)
(* more than a code away.                                                  *)
(***************************************************************************)
EXTENDS WireFormat, SequenceTheorems, TLAPS

-----------------------------------------------------------------------------
(* Octets and payloads.                                                    *)

LEMMA ZerosSeq ==
  ASSUME NEW n \in Nat
  PROVE  Zeros(n) \in Seq(Byte) /\ Len(Zeros(n)) = n
<1>1. Zeros(n) \in Seq({0}) /\ Len(Zeros(n)) = n
  BY DEF Zeros
<1>2. {0} \subseteq Byte
  BY DEF Byte
<1>3. QED
  BY <1>1, <1>2, SeqMonotonic

LEMMA OctetByte ==
  ASSUME NEW v \in Int, NEW unit \in Nat \ {0}
  PROVE  Octet(v, unit) \in Byte
<1>1. v \div unit \in Int
  BY SMT
<1>2. (v \div unit) % 256 \in 0..255
  BY <1>1, SMT
<1>3. QED
  BY <1>2 DEF Octet, Byte

(* Up to eight octets are filled up to a payload, themselves left alone.   *)
LEMMA PayloadMade ==
  ASSUME NEW data \in Seq(Byte), Len(data) <= 8
  PROVE  LET all == data \o Zeros(8 - Len(data))
         IN all \in Payload /\ \A i \in 1..Len(data) : all[i] = data[i]
<1> DEFINE pad == Zeros(8 - Len(data))
           all == data \o pad
<1>1. pad \in Seq(Byte) /\ Len(pad) = 8 - Len(data)
  <2>1. Len(data) \in Nat
    BY LenProperties
  <2>2. 8 - Len(data) \in Nat
    BY <2>1
  <2>3. QED
    BY <2>2, ZerosSeq
<1> HIDE DEF pad
<1>2. /\ all \in Seq(Byte) /\ Len(all) = 8 /\ Len(data) \in Nat
      /\ \A i \in 1..Len(data) : all[i] = data[i]
  BY <1>1, ConcatProperties, LenProperties
<1>3. all \in Payload
  BY <1>2, LenProperties DEF Payload
<1>4. QED
  BY <1>2, <1>3 DEF pad

-----------------------------------------------------------------------------
(* Encodings.                                                              *)

(* Division with remainder.                                                *)
LEMMA DivMod ==
  ASSUME NEW v \in Int
  PROVE  /\ v = (v \div 256) * 256 + (v % 256)
         /\ v % 256 \in Int /\ v \div 256 \in Int
  BY SMT

(* A value within 16 bits survives the high and the low byte.              *)
THEOREM Int16RoundTrip ==
  ASSUME NEW v \in Int, -32768 <= v, v <= 32767
  PROVE  GetInt16(AppendInt16(v)[1], AppendInt16(v)[2]) = v
<1> DEFINE b1 == v \div 256
<1>1. v \div 1 = v /\ b1 \in Int /\ -128 <= b1 /\ b1 <= 127
  BY SMT
<1>2. AppendInt16(v)[1] = b1 % 256 /\ AppendInt16(v)[2] = v % 256
  BY <1>1, SMT DEF AppendInt16, Octet
<1>3. v = b1 * 256 + (v % 256) /\ v % 256 \in Int
  BY <1>1, DivMod
<1> HIDE DEF b1
<1>4. Signed(b1 % 256) = b1
  BY <1>1, SMT DEF Signed
<1>5. QED
  BY <1>2, <1>3, <1>4, SMT DEF GetInt16

(* A value within 32 bits survives the four bytes.                         *)
THEOREM Int32RoundTrip ==
  ASSUME NEW v \in Int, -2147483648 <= v, v <= 2147483647
  PROVE  GetInt32(AppendInt32(v)[1], AppendInt32(v)[2],
                  AppendInt32(v)[3], AppendInt32(v)[4]) = v
<1> DEFINE b2 == v \div 256
           b1 == v \div 65536
           b0 == v \div 16777216
<1>1. v \div 1 = v /\ b0 \in Int /\ -128 <= b0 /\ b0 <= 127
  BY SMT
<1>2. /\ AppendInt32(v)[1] = b0 % 256 /\ AppendInt32(v)[2] = b1 % 256
      /\ AppendInt32(v)[3] = b2 % 256 /\ AppendInt32(v)[4] = v % 256
  BY <1>1, SMT DEF AppendInt32, Octet
<1>3. /\ b2 = b1 * 256 + (b2 % 256) /\ b1 = b0 * 256 + (b1 % 256)
      /\ v = b2 * 256 + (v % 256)
  BY <1>1, SMT
<1>4. /\ b1 \in Int /\ b2 \in Int
      /\ v % 256 \in Int /\ b1 % 256 \in Int /\ b2 % 256 \in Int
  BY <1>1, SMT
<1> HIDE DEF b0, b1, b2
<1>5. Signed(b0 % 256) = b0
  BY <1>1, SMT DEF Signed
<1>6. v = b0 * 16777216 + (b1 % 256) * 65536 + (b2 % 256) * 256 + (v % 256)
  BY <1>1, <1>3, <1>4, SMT
<1>7. QED
  BY <1>2, <1>5, <1>6, SMT DEF GetInt32

Code12 == {x \in Nat : x < 4096}
Code16 == {x \in Nat : x < 65536}

(* A low nibble and a high nibble of two codes share a byte unharmed.      *)
LEMMA Nibbles ==
  ASSUME NEW a \in Code12, NEW b \in Code12,
         NEW byte, byte = JoinNibble((a % 16) * 16, b \div 256)
  PROVE  byte \div 16 = a % 16 /\ byte % 16 = b \div 256
<1>1. a % 16 \in 0..15 /\ b \div 256 \in 0..15
  BY SMT DEF Code12
<1>2. byte = (a % 16) * 16 + (b \div 256)
  BY <1>1, SMT DEF JoinNibble
<1>3. QED
  BY <1>1, <1>2, SMT

(* Five codes within their widths survive the bit fields of an MIT frame.  *)
THEOREM MitRoundTrip ==
  ASSUME NEW kp \in Code12, NEW kd \in Code12, NEW p \in Code16,
         NEW v \in Code12, NEW t \in Code12
  PROVE  UnpackMit(PackMit(kp, kd, p, v, t))
           = [kp |-> kp, kd |-> kd, position |-> p, velocity |-> v, torque |-> t]
<1> DEFINE d == PackMit(kp, kd, p, v, t)
<1>1. /\ d[1] = (kp \div 16) % 256
      /\ d[2] = JoinNibble((kp % 16) * 16, kd \div 256) /\ d[3] = kd % 256
      /\ d[4] = (p \div 256) % 256 /\ d[5] = p % 256
      /\ d[6] = (v \div 16) % 256
      /\ d[7] = JoinNibble((v % 16) * 16, t \div 256) /\ d[8] = t % 256
  BY SMT DEF PackMit, Octet
<1> HIDE DEF d
<1>2. /\ d[2] \div 16 = kp % 16 /\ d[2] % 16 = kd \div 256
      /\ d[7] \div 16 = v % 16 /\ d[7] % 16 = t \div 256
  BY <1>1, Nibbles
<1>3. \A x \in Code12 : /\ ((x \div 16) % 256) * 16 + (x % 16) = x
                        /\ (x \div 256) * 256 + (x % 256) = x
  BY SMT DEF Code12
<1>4. ((p \div 256) % 256) * 256 + (p % 256) = p
  BY SMT DEF Code16
<1>5. d[1] * 16 + (d[2] \div 16) = kp /\ (d[2] % 16) * 256 + d[3] = kd
  BY <1>1, <1>2, <1>3
<1>6. d[4] * 256 + d[5] = p
  BY <1>1, <1>4
<1>7. d[6] * 16 + (d[7] \div 16) = v /\ (d[7] % 16) * 256 + d[8] = t
  BY <1>1, <1>2, <1>3
<1>8. UnpackMit(d)
        = [kp |-> kp, kd |-> kd, position |-> p, velocity |-> v, torque |-> t]
  BY <1>5, <1>6, <1>7, Zenon DEF UnpackMit
<1>9. QED
  BY <1>8 DEF d

-----------------------------------------------------------------------------
(* Quantisation.                                                           *)

(* Division by any positive number.                                        *)
LEMMA DivLaw ==
  ASSUME NEW a \in Nat, NEW b \in Nat \ {0}
  PROVE  a \div b \in Nat /\ (a \div b) * b <= a /\ a < (a \div b + 1) * b
  BY SMT

LEMMA Grows ==
  ASSUME NEW a \in Nat, NEW b \in Nat, NEW c \in Nat \ {0}, a * c < b * c
  PROVE  a < b
  BY SMT

(* The arithmetic of it: a clamped value, scaled and divided.              *)
LEMMA Scaled ==
  ASSUME NEW min \in Int, NEW max \in Int, min < max, NEW codes \in Nat \ {0},
         NEW down \in BOOLEAN, NEW x \in Int, NEW code,
         LET want == (Clamp(x, min, max) - min) * codes
         IN code = IF down /\ want > 0 THEN (want - 1) \div (max - min)
                                       ELSE want \div (max - min)
  PROVE  LET want == (Clamp(x, min, max) - min) * codes
         IN /\ code \in Nat /\ code <= codes
            /\ code * (max - min) <= want /\ want <= (code + 1) * (max - min)
            /\ x < max \/ down => code < codes
<1> DEFINE span == max - min
           offset == Clamp(x, min, max) - min
           want == offset * codes
<1>1. /\ span \in Nat \ {0} /\ offset \in Nat /\ offset <= span
      /\ x < max => offset < span
  BY SMT DEF Clamp
<1>2. code = IF down /\ want > 0 THEN (want - 1) \div span ELSE want \div span
  OBVIOUS
<1> HIDE DEF span, offset
<1>3. want \in Nat /\ want <= span * codes
  BY <1>1, SMT
<1>4. x < max => want < span * codes
  BY <1>1, SMT
<1> HIDE DEF want
<1>5. CASE down /\ want > 0
  <2>1. want - 1 \in Nat /\ code = (want - 1) \div span
    BY <1>2, <1>3, <1>5
  <2>2. code \in Nat /\ code * span <= want - 1 /\ want - 1 < (code + 1) * span
    BY <1>1, <2>1, DivLaw
  <2>3. code * span \in Nat /\ (code + 1) * span \in Nat
    BY <1>1, <2>2, SMT
  <2>4. code * span <= want /\ want <= (code + 1) * span
    BY <1>3, <2>2, <2>3
  <2>5. code * span < codes * span
    BY <1>1, <1>3, <2>2, <2>3, SMT
  <2>6. code < codes
    BY <1>1, <2>2, <2>5, Grows
  <2>7. code <= codes
    BY <2>2, <2>6
  <2>8. QED
    BY <2>2, <2>4, <2>6, <2>7 DEF span, offset, want
<1>6. CASE ~(down /\ want > 0)
  <2>1. code = want \div span
    BY <1>2, <1>6, Zenon
  <2>2. code \in Nat /\ code * span <= want /\ want < (code + 1) * span
    BY <1>1, <1>3, <2>1, DivLaw
  <2>3. code * span \in Nat /\ (code + 1) * span \in Nat
    BY <1>1, <2>2, SMT
  <2>4. want <= (code + 1) * span
    BY <1>3, <2>2, <2>3
  <2>5. ASSUME x < max \/ down PROVE code < codes
    <3>1. code * span < codes * span
      <4>1. CASE x < max
        BY <1>1, <1>3, <1>4, <2>2, <2>3, <4>1, SMT
      <4>2. CASE ~(want > 0)
        <5>1. want = 0 /\ code * span = 0
          BY <1>3, <2>2, <2>3, <4>2
        <5>2. codes * span > 0
          BY <1>1, SMT
        <5>3. QED
          BY <5>1, <5>2
      <4>3. QED
        BY <1>6, <2>5, <4>1, <4>2, Zenon
    <3>2. QED
      BY <1>1, <2>2, <3>1, Grows
  <2>6. code <= codes
    <3>1. code * span < (codes + 1) * span
      BY <1>1, <1>3, <2>2, <2>3, SMT
    <3>2. code < codes + 1
      BY <1>1, <2>2, <3>1, Grows
    <3>3. QED
      BY <2>2, <3>2
  <2>7. QED
    BY <2>2, <2>4, <2>5, <2>6 DEF span, offset, want
<1>7. QED
  BY <1>5, <1>6

(* A field of an MIT command: its ends, its codes, its rounding.           *)
SaneField(field) ==
  /\ field.min \in Int /\ field.max \in Int /\ field.min < field.max
  /\ field.codes \in Nat \ {0} /\ field.down \in BOOLEAN

(* floatToUint() yields the code whose step the clamped value lies in, and *)
(* one that fits the field, unless the value reaches a top that is not     *)
(* rounded down.                                                           *)
THEOREM Quantised ==
  ASSUME NEW field, SaneField(field), NEW x \in Int
  PROVE  LET code == FloatToUint(x, field)
             span == field.max - field.min
             want == (Clamp(x, field.min, field.max) - field.min) * field.codes
         IN /\ code \in Nat /\ code <= field.codes
            /\ code * span <= want /\ want <= (code + 1) * span
            /\ x < field.max \/ field.down => code < field.codes
<1> DEFINE code == FloatToUint(x, field)
           want == (Clamp(x, field.min, field.max) - field.min) * field.codes
<1>1. /\ field.min \in Int /\ field.max \in Int /\ field.min < field.max
      /\ field.codes \in Nat \ {0} /\ field.down \in BOOLEAN
  BY DEF SaneField
<1>2. code = IF field.down /\ want > 0
             THEN (want - 1) \div (field.max - field.min)
             ELSE want \div (field.max - field.min)
  BY DEF FloatToUint
<1> DEFINE a == field.min
           b == field.max
           c == field.codes
           d == field.down
<1>3. /\ a \in Int /\ b \in Int /\ a < b /\ c \in Nat \ {0} /\ d \in BOOLEAN
      /\ code = IF d /\ (Clamp(x, a, b) - a) * c > 0
                THEN ((Clamp(x, a, b) - a) * c - 1) \div (b - a)
                ELSE ((Clamp(x, a, b) - a) * c) \div (b - a)
  BY <1>1, <1>2
<1> HIDE DEF code, a, b, c, d
<1>4. /\ code \in Nat /\ code <= c
      /\ code * (b - a) <= (Clamp(x, a, b) - a) * c
      /\ (Clamp(x, a, b) - a) * c <= (code + 1) * (b - a)
      /\ x < b \/ d => code < c
  BY <1>3, Scaled
<1>5. QED
  BY <1>4 DEF code, a, b, c, d
=============================================================================
