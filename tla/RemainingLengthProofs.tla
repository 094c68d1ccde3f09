----------------------- MODULE RemainingLengthProofs -----------------------
(* The decoder's sum and weight stay within 32 bits, for every length and  *)
(* every content of the buffer.                                            *)
EXTENDS RemainingLength, SequenceTheorems, TLAPS

\* The weight is a power of 128, and the sum of the bytes read is below it.
DecoderInv ==
    /\ phase \in {"encode", "decode", "decoded", "malformed"}
    /\ len \in Nat
    /\ wire \in Seq(0 .. 255)
    /\ pos \in Nat
    /\ m \in {1, 128, 128 * 128, 128 * 128 * 128, 128 * 128 * 128 * 128}
    /\ out \in 0 .. m - 1
    /\ phase \in {"encode", "decode"} => m <= MaxWeight

\* The bound of remainDecode is 128^3.
LEMMA MaxWeightValue == MaxWeight = 128 * 128 * 128
BY SMT DEF MaxWeight

\* The bound of the sum is 128^4 - 1.
LEMMA LimitValue == Limit = 128 * 128 * 128 * 128 - 1
BY SMT DEF Limit

LEMMA LimitNat == Limit \in Nat
BY SMT DEF Limit

\* The reader reads bytes.
LEMMA ReadableIsByte ==
    ASSUME DecoderInv, phase = "decode"
    PROVE  Readable \subseteq 0 .. 255
<1>1. wire \in Seq(0 .. 255) /\ Len(wire) \in Nat /\ pos \in Nat
  BY DEF DecoderInv
<1>2. pos < Len(wire) => wire[pos + 1] \in 0 .. 255
  <2>1. ASSUME pos < Len(wire) PROVE pos + 1 \in 1 .. Len(wire)
    BY <1>1, <2>1
  <2>. QED
    BY <1>1, <2>1, ElementOfSeq
<1>. QED
  BY <1>2, LengthsAssumption DEF Readable

\* A digit below 128 times the weight leaves the sum below the next weight.
LEMMA AddedDigit ==
    ASSUME NEW w \in Nat, NEW sum \in 0 .. w - 1, NEW digit \in 0 .. 127
    PROVE  sum + digit * w \in 0 .. w * 128 - 1
<1>1. digit * w >= 0 /\ (127 - digit) * w >= 0
  OBVIOUS
<1>2. (127 - digit) * w = 127 * w - digit * w
  OBVIOUS
<1>3. digit * w \in Int
  OBVIOUS
<1>. QED
  BY <1>1, <1>2, <1>3

\* The weight is a power of 128 and the sum is below it, in every state.
LEMMA DecoderInvHolds == Spec => []DecoderInv
<1>1. Init => DecoderInv
  BY LengthsAssumption, MaxWeightValue DEF Init, DecoderInv
<1>2. DecoderInv /\ [Next]_vars => DecoderInv'
  <2>. SUFFICES ASSUME DecoderInv, [Next]_vars PROVE DecoderInv'
    OBVIOUS
  <2>1. CASE EncodeByte
    <3>1. len \div 128 \in Nat /\ Digit(len) \in 0 .. 255
      BY <2>1 DEF DecoderInv, Digit
    <3>. QED
      BY <2>1, <3>1, MaxWeightValue DEF EncodeByte, DecoderInv
  <2>2. CASE EncodeDone
    BY <2>2, MaxWeightValue DEF EncodeDone, DecoderInv
  <2>3. CASE DecodeByte
    <3>1. PICK byte \in Readable :
            /\ out' = out + Low(byte) * m
            /\ m' = m * 128
            /\ phase' = AfterByte(byte, m * 128)
      BY <2>3 DEF DecodeByte
    <3>2. byte \in 0 .. 255 /\ Low(byte) \in 0 .. 127
      BY <2>3, <3>1, ReadableIsByte DEF DecodeByte, Low
    <3>3. m \in {1, 128, 128 * 128, 128 * 128 * 128}
      BY <2>3, MaxWeightValue DEF DecodeByte, DecoderInv
    <3>4. m' \in {128, 128 * 128, 128 * 128 * 128, 128 * 128 * 128 * 128}
      BY <3>1, <3>3
    <3>5. out' \in 0 .. m' - 1
      <4>1. m \in Nat /\ out \in 0 .. m - 1
        BY DEF DecoderInv
      <4>2. out + Low(byte) * m \in 0 .. m * 128 - 1
        BY <3>2, <4>1, AddedDigit
      <4>. QED
        BY <3>1, <4>2
    <3>6. phase' \in {"decode", "decoded", "malformed"}
          /\ (phase' = "decode" => m' <= MaxWeight)
      BY <3>1, <3>3, MaxWeightValue DEF AfterByte
    <3>. QED
      BY <2>3, <3>4, <3>5, <3>6, MaxWeightValue DEF DecodeByte, DecoderInv
  <2>4. CASE UNCHANGED vars
    BY <2>4, MaxWeightValue DEF vars, DecoderInv
  <2>. QED
    BY <2>1, <2>2, <2>3, <2>4 DEF Next
<1>. QED
  BY <1>1, <1>2, PTL DEF Spec

\* remainDecode never adds a byte whose weight would carry its sum or the
\* next weight out of 32 bits, whatever the buffer holds.
THEOREM SumFitsAlways == Spec => []SumFits
<1>1. DecoderInv => SumFits
  BY MaxWeightValue, LimitValue DEF DecoderInv, SumFits
<1>. QED
  BY <1>1, DecoderInvHolds, PTL

-----------------------------------------------------------------------------
(***************************************************************************)
(* Reading back.  Rest(i) is what the encoder has left after i bytes, for  *)
(* as many bytes as a decoder reads; the decoder, after pos bytes, has the *)
(* sum of the digits before Rest(pos), so that the sum and Rest(pos) at    *)
(* its weight make up the length.                                          *)
(***************************************************************************)
Rest(i) ==
    CASE i = 0 -> input
      [] i = 1 -> input \div 128
      [] i = 2 -> (input \div 128) \div 128
      [] i = 3 -> ((input \div 128) \div 128) \div 128
      [] i = 4 -> (((input \div 128) \div 128) \div 128) \div 128

Weight(i) ==
    CASE i = 0 -> 1
      [] i = 1 -> 128
      [] i = 2 -> 128 * 128
      [] i = 3 -> 128 * 128 * 128
      [] i = 4 -> 128 * 128 * 128 * 128

Places == {0, 1, 2, 3, 4}

\* The bytes written are the digits of the length, and there is a byte for a
\* place when something is left there.
DigitsInv ==
    /\ input \in Nat
    /\ \A i \in Places \ {4} : i < Len(wire) => wire[i + 1] = Digit(Rest(i))
    /\ \A i \in Places : i < Len(wire) => Rest(i) > 0
    /\ \A i \in Places : i = Len(wire) => len = Rest(i)

\* Nothing is read before all is written.
ReadInv ==
    /\ phase = "encode" => pos = 0 /\ m = 1 /\ out = 0
    /\ phase # "encode" => len = 0
    /\ phase # "encode" /\ input > 0 =>
         /\ pos \in Places /\ m = Weight(pos) /\ input = out + Rest(pos) * m
         /\ phase = "decode" => pos < Len(wire)
         /\ phase = "decoded" => pos = Len(wire) /\ Rest(pos) = 0
         /\ phase = "malformed" => pos = 4 /\ Rest(pos) > 0

LEMMA RestNat ==
    ASSUME input \in Nat
    PROVE  \A i \in Places : Rest(i) \in Nat
<1>1. \A n \in Nat : n \div 128 \in Nat
  OBVIOUS
<1>. QED
  BY <1>1 DEF Rest, Places

LEMMA RestNext ==
    ASSUME NEW i \in Places \ {4}
    PROVE  i + 1 \in Places /\ Rest(i + 1) = Rest(i) \div 128 /\ Weight(i + 1) = Weight(i) * 128
BY DEF Rest, Weight, Places

\* What a byte says of the number whose lowest digit it is.
LEMMA DigitOf ==
    ASSUME NEW n \in Nat
    PROVE  /\ n = 128 * (n \div 128) + Low(Digit(n)) /\ Low(Digit(n)) \in 0 .. 127
           /\ Continues(Digit(n)) <=> n \div 128 > 0
BY DEF Low, Digit, Continues

\* The least length of five bytes.
LEMMA FifthByte ==
    ASSUME input \in Nat, input <= Limit
    PROVE  Rest(4) = 0
<1>1. \A n, b \in Nat : n < b * 128 => n \div 128 < b
  OBVIOUS
<1>2. input < 128 * 128 * 128 * 128
  BY LimitValue
<1>. DEFINE a == input \div 128
            b == a \div 128
            c == b \div 128
            d == c \div 128
<1>3. a \in Nat /\ a < 128 * 128 * 128
  BY <1>1, <1>2
<1>. HIDE DEF a
<1>4. b \in Nat /\ b < 128 * 128
  BY <1>1, <1>3
<1>. HIDE DEF b
<1>5. c \in Nat /\ c < 128
  BY <1>1, <1>4
<1>. HIDE DEF c
<1>6. d = 0
  BY <1>5
<1>. USE DEF a, b, c, d
<1>. QED
  BY <1>6 DEF Rest

\* What is left at the decoder's next place.
LEMMA RestPrimed ==
    ASSUME input' = input
    PROVE  \A i \in Places : pos' = i => Rest(pos)' = Rest(i) /\ Weight(pos)' = Weight(i)
BY DEF Rest, Weight, Places

LEMMA DigitsStep ==
    ASSUME DecoderInv, DigitsInv, [Next]_vars
    PROVE  DigitsInv'
<1>1. CASE EncodeByte
  <2>1. /\ len > 0 /\ wire' = Append(wire, Digit(len)) /\ len' = len \div 128
        /\ input' = input
    BY <1>1 DEF EncodeByte
  <2>2. wire \in Seq(0 .. 255) /\ Len(wire) \in Nat
    BY DEF DecoderInv
  <2>3. Len(wire') = Len(wire) + 1 /\ wire'[Len(wire) + 1] = Digit(len)
        /\ \A i \in 1 .. Len(wire) : wire'[i] = wire[i]
    BY <2>1, <2>2
  <2>4. \A i \in Places : Rest(i)' = Rest(i)
    BY <2>1 DEF Rest
  <2>5. ASSUME NEW i \in Places \ {4}, i < Len(wire') PROVE wire'[i + 1] = Digit(Rest(i))
    <3>1. CASE i < Len(wire)
      BY <2>2, <2>3, <3>1 DEF DigitsInv, Places
    <3>2. CASE i = Len(wire)
      BY <2>3, <3>2 DEF DigitsInv
    <3>. QED
      BY <2>2, <2>3, <2>5, <3>1, <3>2 DEF Places
  <2>6. ASSUME NEW i \in Places, i < Len(wire') PROVE Rest(i) > 0
    <3>1. CASE i < Len(wire)
      BY <3>1 DEF DigitsInv
    <3>2. CASE i = Len(wire)
      BY <2>1, <3>2 DEF DigitsInv
    <3>. QED
      BY <2>2, <2>3, <2>6, <3>1, <3>2 DEF Places
  <2>7. ASSUME NEW i \in Places, i = Len(wire') PROVE len' = Rest(i)
    <3>1. PICK k \in Nat : k = Len(wire) /\ i = k + 1
      BY <2>2, <2>3, <2>7
    <3>2. k \in Places \ {4}
      BY <3>1 DEF Places
    <3>3. Rest(i) = Rest(k) \div 128
      BY <3>1, <3>2, RestNext
    <3>4. len = Rest(k)
      BY <3>1, <3>2 DEF DigitsInv
    <3>. QED
      BY <2>1, <3>3, <3>4
  <2>. QED
    BY <2>1, <2>4, <2>5, <2>6, <2>7 DEF DigitsInv, Places
<1>2. CASE EncodeDone \/ DecodeByte \/ UNCHANGED vars
  <2>1. UNCHANGED <<input, len, wire>>
    BY <1>2 DEF EncodeDone, DecodeByte, vars
  <2>. QED
    BY <2>1 DEF DigitsInv, Rest, Digit
<1>. QED
  BY <1>1, <1>2 DEF Next

LEMMA ReadStep ==
    ASSUME DecoderInv, DigitsInv, ReadInv, [Next]_vars
    PROVE  ReadInv'
<1>0. /\ Len(wire) \in Nat /\ input \in Nat /\ out \in Nat /\ m \in Nat /\ pos \in Nat
  BY DEF DecoderInv, DigitsInv
<1>1. CASE EncodeByte
  BY <1>1 DEF EncodeByte, ReadInv
<1>2. CASE EncodeDone
  <2>1. phase = "encode" /\ len = 0 /\ phase' = "decode" /\ UNCHANGED <<input, len, wire, pos, m, out>>
    BY <1>2 DEF EncodeDone
  <2>2. pos = 0 /\ m = 1 /\ out = 0
    BY <2>1 DEF ReadInv
  <2>3. 0 \in Places /\ Rest(0) = input /\ Weight(0) = 1
    BY DEF Places, Rest, Weight
  <2>4. input > 0 => Len(wire) # 0
    BY <2>1, <2>3 DEF DigitsInv
  <2>5. Rest(pos)' = input /\ Weight(pos)' = 1
    BY <2>1, <2>2, <2>3, RestPrimed
  <2>. QED
    BY <1>0, <2>1, <2>2, <2>3, <2>4, <2>5 DEF ReadInv
<1>3. CASE DecodeByte /\ input > 0
  <2>1. /\ phase = "decode" /\ pos \in Places /\ m = Weight(pos) /\ input = out + Rest(pos) * m
        /\ pos < Len(wire) /\ len = 0
    BY <1>3 DEF DecodeByte, ReadInv
  <2>2. m <= MaxWeight
    BY <2>1 DEF DecoderInv
  <2>3. pos \in Places \ {4}
    BY <2>1, <2>2, MaxWeightValue DEF Weight, Places
  <2>. DEFINE n == Rest(pos)
              next == Rest(pos + 1)
  <2>4. n \in Nat /\ next \in Nat /\ next = n \div 128 /\ pos + 1 \in Places
        /\ Weight(pos + 1) = m * 128
    BY <1>0, <2>1, <2>3, RestNat, RestNext
  <2>5. Readable = {Digit(n)}
    BY <2>1, <2>3 DEF Readable, DigitsInv
  <2>6. /\ out' = out + Low(Digit(n)) * m /\ m' = m * 128 /\ pos' = pos + 1
        /\ phase' = AfterByte(Digit(n), m * 128) /\ UNCHANGED <<input, len, wire>>
    BY <1>3, <2>5 DEF DecodeByte
  <2>7. Rest(pos)' = next /\ Weight(pos)' = m' /\ pos' \in Places
    BY <2>4, <2>6, RestPrimed
  <2>9. Len(wire) = pos + 1 => next = 0
    BY <2>1, <2>4 DEF DigitsInv
  <2>10. pos + 1 < Len(wire) => next > 0
    BY <2>4 DEF DigitsInv
  <2>11. Continues(Digit(n)) <=> next > 0
    BY <2>4, DigitOf
  <2>12. /\ n = 128 * next + Low(Digit(n)) /\ Low(Digit(n)) \in 0 .. 127
    BY <2>4, DigitOf
  <2>13. pos + 1 = 4 <=> m * 128 > MaxWeight
    BY <2>1, <2>3, MaxWeightValue DEF Weight, Places
  <2>14. input = out + n * m
    BY <2>1
  <2>15. phase' = IF next = 0 THEN "decoded" ELSE IF pos + 1 = 4 THEN "malformed" ELSE "decode"
    BY <2>4, <2>6, <2>11, <2>13 DEF AfterByte
  <2>. HIDE DEF n, next
  <2>16. input = out' + next * m'
    <3>. DEFINE d == Low(Digit(n))
    <3>1. d \in Nat /\ n = 128 * next + d
      BY <2>12
    <3>2. out' = out + d * m /\ m' = m * 128
      BY <2>6
    <3>. HIDE DEF d
    <3>3. n * m = next * (m * 128) + d * m
      BY <1>0, <2>4, <3>1
    <3>. QED
      BY <1>0, <2>4, <2>14, <3>1, <3>2, <3>3
  <2>17. phase' = "decode" => pos' < Len(wire)
    BY <1>0, <2>1, <2>6, <2>9, <2>15
  <2>18. phase' = "decoded" => pos' = Len(wire) /\ next = 0
    BY <1>0, <2>1, <2>6, <2>10, <2>15
  <2>19. phase' = "malformed" => pos' = 4 /\ next > 0
    BY <2>4, <2>6, <2>15
  <2>20. phase' # "encode"
    BY <2>15
  <2>. QED
    BY <2>1, <2>6, <2>7, <2>16, <2>17, <2>18, <2>19, <2>20 DEF ReadInv
<1>4. CASE DecodeByte /\ ~(input > 0)
  <2>1. phase = "decode" /\ UNCHANGED <<input, len, wire>> /\ phase' # "encode"
    BY <1>4 DEF DecodeByte, AfterByte
  <2>. QED
    BY <1>4, <2>1 DEF ReadInv
<1>5. CASE UNCHANGED vars
  <2>1. pos \in Places => Rest(pos)' = Rest(pos) /\ Weight(pos)' = Weight(pos)
    BY <1>5, RestPrimed DEF vars
  <2>. QED
    BY <1>5, <2>1 DEF vars, ReadInv
<1>. QED
  BY <1>1, <1>2, <1>3, <1>4, <1>5 DEF Next

LEMMA ReadAlways == Spec => [](DecoderInv /\ DigitsInv /\ ReadInv)
<1>1. Init => DigitsInv /\ ReadInv
  <2>. SUFFICES ASSUME Init PROVE DigitsInv /\ ReadInv
    OBVIOUS
  <2>1. Len(wire) = 0 /\ len = input /\ input \in Nat
    BY LengthsAssumption DEF Init
  <2>2. Rest(0) = input
    BY DEF Rest
  <2>. QED
    BY <2>1, <2>2 DEF Init, DigitsInv, ReadInv, Places
<1>2. DecoderInv /\ DigitsInv /\ [Next]_vars => DigitsInv'
  BY DigitsStep
<1>3. DecoderInv /\ DigitsInv /\ ReadInv /\ [Next]_vars => ReadInv'
  BY ReadStep
<1>. QED
  BY <1>1, <1>2, <1>3, DecoderInvHolds, PTL DEF Spec

\* Every length from 1 to 2^28 - 1, and not only the ones that TLC tries, is
\* read back as it was written, over the bytes that were written.
THEOREM EveryLengthReadBack == Spec => []RoundTrip
<1>1. DecoderInv /\ DigitsInv /\ ReadInv => RoundTrip
  <2>. SUFFICES ASSUME DecoderInv, DigitsInv, ReadInv, phase \in {"decoded", "malformed"},
                       input \in 1 .. Limit
                PROVE  phase = "decoded" /\ out = input /\ pos = Len(wire)
    BY DEF RoundTrip
  <2>1. input \in Nat /\ input > 0 /\ input <= Limit
    BY LimitNat
  <2>2. Rest(4) = 0
    BY <2>1, FifthByte
  <2>3. phase = "decoded"
    BY <2>1, <2>2 DEF ReadInv
  <2>4. pos = Len(wire) /\ Rest(pos) = 0 /\ input = out + Rest(pos) * m
    BY <2>1, <2>3 DEF ReadInv
  <2>. QED
    BY <2>3, <2>4 DEF DecoderInv
<1>. QED
  BY <1>1, ReadAlways, PTL

\* Every longer length is refused: no five bytes are read as a length.
THEOREM LongerIsRefused == Spec => []TooLongIsMalformed
<1>1. DecoderInv /\ DigitsInv /\ ReadInv => TooLongIsMalformed
  <2>. SUFFICES ASSUME DecoderInv, DigitsInv, ReadInv, phase = "decoded"
                PROVE  input <= Limit
    BY DEF TooLongIsMalformed
  <2>1. CASE input > 0
    <3>1. Rest(pos) = 0 /\ input = out + Rest(pos) * m
      BY <2>1 DEF ReadInv
    <3>2. out <= Limit
      BY MaxWeightValue, LimitValue DEF DecoderInv
    <3>. QED
      BY <3>1, <3>2 DEF DecoderInv
  <2>2. CASE ~(input > 0)
    BY <2>2, LimitValue DEF DigitsInv
  <2>. QED
    BY <2>1, <2>2
<1>. QED
  BY <1>1, ReadAlways, PTL
=============================================================================
