----------------------------- MODULE FrameProofs -----------------------------
(***************************************************************************)
(* The codec of Frame: what Parse makes of every message that Wire writes, *)
(* at the head of a buffer, whatever the buffer holds behind it.           *)
(***************************************************************************)
EXTENDS Frame, SequenceTheorems, WellFoundedInduction, TLAPS

\* A number of 16 bits is its two bytes.
LEMMA TwoBytes ==
    ASSUME NEW n \in Uint16
    PROVE  n \div 256 \in 0 .. 255 /\ n % 256 \in 0 .. 255 /\ n = 256 * (n \div 256) + (n % 256)
<1>1. n \in Nat /\ n <= 65535
  BY DEF Uint16
<1>2. n % 256 \in 0 .. 255 /\ n \div 256 \in Int /\ n = 256 * (n \div 256) + (n % 256)
  BY <1>1
<1>3. n \div 256 >= 0
  BY <1>1
<1>4. n \div 256 <= 255
  BY <1>1
<1>. QED
  BY <1>2, <1>3, <1>4

\* Two bytes carry a number of 16 bits.
LEMMA NumberType ==
    ASSUME NEW n \in Uint16
    PROVE  /\ Number(n) \in Bytes /\ Len(Number(n)) = 2
           /\ 256 * Number(n)[1] + Number(n)[2] = n
<1>1. n \div 256 \in 0 .. 255 /\ n % 256 \in 0 .. 255 /\ n = 256 * (n \div 256) + (n % 256)
  BY TwoBytes
<1>2. \A k \in 0 .. 255 : k % 256 = k
  OBVIOUS
<1>3. Number(n) = <<n \div 256, n % 256>>
  BY <1>1, <1>2 DEF Number
<1>4. PICK high \in Byte, low \in Byte : high = n \div 256 /\ low = n % 256
  BY <1>1 DEF Byte
<1>5. Number(n) = <<high, low>> /\ n = 256 * high + low
  BY <1>1, <1>3, <1>4
<1>6. <<high, low>> \in Bytes
  BY DEF Bytes
<1>. QED
  BY <1>5, <1>6

\* The bytes of a buffer are bytes.
LEMMA BufferBytes ==
    ASSUME NEW b \in Bytes
    PROVE  Len(b) \in Nat /\ DOMAIN b = 1 .. Len(b) /\ \A i \in 1 .. Len(b) : b[i] \in Byte
<1>1. Len(b) \in Nat /\ b \in [1 .. Len(b) -> Byte]
  BY LenProperties DEF Bytes
<1>. QED
  BY <1>1

-----------------------------------------------------------------------------
(***************************************************************************)
(* The bytes s are in the buffer b from index i on.                        *)
(***************************************************************************)
Holds(b, i, s) == \A k \in 1 .. Len(s) : i + k - 1 \in DOMAIN b /\ b[i + k - 1] = s[k]

LEMMA HoldsParts ==
    ASSUME NEW b, NEW i \in Nat, NEW s \in Bytes, NEW t \in Bytes
    PROVE  Holds(b, i, s \o t) <=> Holds(b, i, s) /\ Holds(b, i + Len(s), t)
<1>1. /\ Len(s) \in Nat /\ Len(t) \in Nat /\ Len(s \o t) = Len(s) + Len(t)
      /\ \A k \in 1 .. Len(s) + Len(t) : (s \o t)[k] = IF k <= Len(s) THEN s[k] ELSE t[k - Len(s)]
  BY ConcatProperties DEF Bytes
<1>2. ASSUME Holds(b, i, s \o t) PROVE Holds(b, i, s) /\ Holds(b, i + Len(s), t)
  <2>1. ASSUME NEW k \in 1 .. Len(s) PROVE i + k - 1 \in DOMAIN b /\ b[i + k - 1] = s[k]
    <3>1. k \in 1 .. Len(s \o t) /\ (s \o t)[k] = s[k]
      BY <1>1
    <3>. QED
      BY <3>1, <1>2 DEF Holds
  <2>2. ASSUME NEW k \in 1 .. Len(t)
        PROVE  i + Len(s) + k - 1 \in DOMAIN b /\ b[i + Len(s) + k - 1] = t[k]
    <3>1. /\ Len(s) + k \in 1 .. Len(s \o t) /\ (s \o t)[Len(s) + k] = t[k]
          /\ i + (Len(s) + k) - 1 = i + Len(s) + k - 1
      BY <1>1
    <3>. QED
      BY <3>1, <1>2 DEF Holds
  <2>. QED
    BY <2>1, <2>2 DEF Holds
<1>3. ASSUME Holds(b, i, s), Holds(b, i + Len(s), t) PROVE Holds(b, i, s \o t)
  <2>. SUFFICES ASSUME NEW k \in 1 .. Len(s) + Len(t)
                PROVE  i + k - 1 \in DOMAIN b /\ b[i + k - 1] = (s \o t)[k]
    BY <1>1 DEF Holds
  <2>1. CASE k <= Len(s)
    BY <2>1, <1>1, <1>3 DEF Holds
  <2>2. CASE ~(k <= Len(s))
    <3>1. /\ k - Len(s) \in 1 .. Len(t) /\ (s \o t)[k] = t[k - Len(s)]
          /\ i + Len(s) + (k - Len(s)) - 1 = i + k - 1
      BY <2>2, <1>1
    <3>. QED
      BY <3>1, <1>3 DEF Holds
  <2>. QED
    BY <2>1, <2>2
<1>. QED
  BY <1>2, <1>3

\* A packet identifier, a keep-alive or the length of a string is read as it
\* was written, wherever it is and whatever surrounds it.
THEOREM NumberReadBack ==
    ASSUME NEW b, NEW i \in Nat, NEW n \in Uint16, Holds(b, i, Number(n))
    PROVE  NumberAt(b, i) = n
<1>1. Len(Number(n)) = 2 /\ 256 * Number(n)[1] + Number(n)[2] = n
  BY NumberType
<1>2. 1 \in 1 .. Len(Number(n)) /\ 2 \in 1 .. Len(Number(n)) /\ i + 1 - 1 = i /\ i + 2 - 1 = i + 1
  BY <1>1
<1>3. /\ i \in DOMAIN b /\ b[i] = Number(n)[1]
      /\ i + 1 \in DOMAIN b /\ b[i + 1] = Number(n)[2]
  BY <1>2 DEF Holds
<1>. QED
  BY <1>1, <1>3 DEF NumberAt, ByteAt

\* A string on the wire is as many bytes as it has, and two.
LEMMA EncodeType ==
    ASSUME NEW s \in Bytes, Len(s) \in Uint16
    PROVE  UTF8_encode(s) \in Bytes /\ Len(UTF8_encode(s)) = 2 + Len(s)
<1>1. Number(Len(s)) \in Bytes /\ Len(Number(Len(s))) = 2
  BY NumberType
<1>2. \A t \in Bytes : t \o s \in Bytes /\ Len(t \o s) = Len(t) + Len(s)
  BY ConcatProperties DEF Bytes
<1>. QED
  BY <1>1, <1>2 DEF UTF8_encode

\* UTF8_decode returns the string that UTF8_encode has written, and goes on
\* behind it, wherever it is and whatever surrounds it.
THEOREM StringReadBack ==
    ASSUME NEW b \in Bytes, NEW i \in Nat \ {0}, NEW s \in Bytes, Len(s) \in Uint16,
           Holds(b, i, UTF8_encode(s))
    PROVE  UTF8_decode(b, i) = s /\ After(b, i) = i + 2 + Len(s)
<1>1. Number(Len(s)) \in Bytes /\ Len(Number(Len(s))) = 2 /\ i \in Nat /\ Len(s) \in Nat
  <2>1. Len(s) \in Nat
    BY DEF Bytes
  <2>. QED
    BY <2>1, NumberType
<1>2. Holds(b, i, Number(Len(s))) /\ Holds(b, i + 2, s)
  BY <1>1, HoldsParts DEF UTF8_encode
<1>3. NumberAt(b, i) = Len(s) /\ After(b, i) = i + 2 + Len(s)
  BY <1>1, <1>2, NumberReadBack DEF After
<1>4. Len(b) \in Nat /\ DOMAIN b = 1 .. Len(b) /\ \A k \in 1 .. Len(b) : b[k] \in Byte
  BY BufferBytes
<1>5. CASE Len(s) = 0
  <2>1. s = <<>>
    BY <1>5, EmptySeq DEF Bytes
  <2>. QED
    BY <2>1, <1>3, <1>5 DEF UTF8_decode
<1>6. CASE Len(s) # 0
  <2>. DEFINE first == i + 2
              last == After(b, i) - 1
              w == SubSeq(b, first, last)
  <2>1. first \in Int /\ last \in Int /\ first <= last /\ last - first + 1 = Len(s)
    BY <1>1, <1>3, <1>6
  <2>2. \A k \in 1 .. Len(s) : first + k - 1 \in 1 .. Len(b) /\ b[first + k - 1] = s[k]
    BY <1>2, <1>4 DEF Holds
  <2>3. last \in 1 .. Len(b)
    <3>1. Len(s) \in 1 .. Len(s) /\ first + Len(s) - 1 = last
      BY <1>1, <1>6, <2>1
    <3>. QED
      BY <2>2, <3>1
  <2>4. UTF8_decode(b, i) = w
    <3>1. After(b, i) <= Len(b) + 1
      BY <1>1, <1>3, <1>4, <2>3
    <3>. QED
      BY <3>1, <1>3, <1>6 DEF UTF8_decode
  <2>5. /\ w \in Bytes /\ Len(w) = Len(s)
        /\ \A k \in 1 .. Len(s) : w[k] = b[first + k - 1]
    <3>1. \A k \in first .. last : b[k] \in Byte
      BY <1>1, <1>4, <2>3
    <3>. HIDE DEF first, last
    <3>2. /\ w \in Seq(Byte) /\ Len(w) = (IF first <= last THEN last - first + 1 ELSE 0)
          /\ \A k \in 1 .. last - first + 1 : w[k] = b[first + k - 1]
      BY <2>1, <3>1, SubSeqProperties
    <3>. QED
      BY <3>2, <2>1 DEF Bytes
  <2>6. w = s
    <3>. HIDE DEF w, first, last
    <3>. QED
      BY <2>2, <2>5, SeqEqual DEF Bytes
  <2>. QED
    BY <2>4, <2>6, <1>3
<1>. QED
  BY <1>5, <1>6

-----------------------------------------------------------------------------
(***************************************************************************)
(* Induction over data.                                                    *)
(***************************************************************************)
\* A non-empty set of naturals has a least element; induction is that of it.
LEMMA LeastNumber ==
    ASSUME NEW T, T \subseteq Nat, T # {}
    PROVE  \E x \in T : \A y \in T : x <= y
<1>1. IsWellFoundedOn(OpToRel(<, Nat), Nat)
  BY NatLessThanWellFounded
<1>2. PICK x \in T : \A y \in T : ~(<<y, x>> \in OpToRel(<, Nat))
  BY <1>1, WFMin
<1>3. \A y \in T : ~(y < x)
  BY <1>2 DEF OpToRel
<1>. QED
  BY <1>3

LEMMA Induction ==
    ASSUME NEW S, 0 \in S, \A n \in Nat : n \in S => n + 1 \in S
    PROVE  Nat \subseteq S
<1>. SUFFICES ASSUME Nat \ S # {} PROVE FALSE
  OBVIOUS
<1>1. PICK x \in Nat \ S : \A y \in Nat \ S : x <= y
  BY LeastNumber
<1>2. x - 1 \in Nat /\ x - 1 \in S
  BY <1>1
<1>. QED
  BY <1>1, <1>2

\* The recursive function of Iterate is defined by its equation.
LEMMA IterateDef ==
    ASSUME NEW next, NEW i
    PROVE  /\ Iterate(next, i)[0] = i
           /\ \A k \in Nat : Iterate(next, i)[k + 1] = next[Iterate(next, i)[k]]
<1>. DEFINE IsUpTo(g, n) == /\ g[0] = i
                            /\ \A k \in 0 .. n - 1 : g[k + 1] = next[g[k]]
            S == {n \in Nat : \E g : IsUpTo(g, n)}
<1>1. 0 \in S
  <2>1. IsUpTo([k \in Nat |-> i], 0)
    OBVIOUS
  <2>. QED
    BY <2>1
<1>2. ASSUME NEW n \in Nat, n \in S PROVE n + 1 \in S
  <2>1. PICK g : IsUpTo(g, n)
    BY <1>2
  <2>. DEFINE h == [k \in Nat |-> IF k = n + 1 THEN next[g[n]] ELSE g[k]]
  <2>2. h[0] = i
    BY <2>1
  <2>3. ASSUME NEW k \in 0 .. (n + 1) - 1 PROVE h[k + 1] = next[h[k]]
    <3>1. CASE k = n
      BY <3>1
    <3>2. CASE k # n
      <4>1. k \in 0 .. n - 1 /\ k + 1 # n + 1 /\ k # n + 1 /\ k \in Nat /\ k + 1 \in Nat
        BY <3>2
      <4>. QED
        BY <4>1, <2>1
    <3>. QED
      BY <3>1, <3>2
  <2>. HIDE DEF h
  <2>. QED
    BY <2>2, <2>3
<1>3. \A n \in Nat : \E g : IsUpTo(g, n)
  <2>. HIDE DEF S
  <2>1. Nat \subseteq S
    BY <1>1, <1>2, Induction
  <2>. QED
    BY <2>1 DEF S
<1>. DEFINE G(n) == CHOOSE g : IsUpTo(g, n)
            f == [n \in Nat |-> G(n)[n]]
<1>4. \A n \in Nat : IsUpTo(G(n), n)
  BY <1>3
<1>. HIDE DEF G
<1>5. ASSUME NEW n \in Nat PROVE G(n + 1)[n] = G(n)[n]
  <2>. DEFINE A == {k \in Nat : k <= n => G(n + 1)[k] = G(n)[k]}
  <2>1. 0 \in A
    BY <1>4
  <2>2. ASSUME NEW k \in Nat, k \in A PROVE k + 1 \in A
    <3>. SUFFICES ASSUME k + 1 <= n PROVE G(n + 1)[k + 1] = G(n)[k + 1]
      OBVIOUS
    <3>1. G(n + 1)[k] = G(n)[k]
      BY <2>2
    <3>2. k \in 0 .. n - 1 /\ k \in 0 .. (n + 1) - 1
      OBVIOUS
    <3>. QED
      BY <3>1, <3>2, <1>4
  <2>. HIDE DEF A
  <2>3. Nat \subseteq A
    BY <2>1, <2>2, Induction
  <2>. QED
    BY <2>3 DEF A
<1>6. f[0] = i /\ \A k \in Nat : f[k + 1] = next[f[k]]
  BY <1>4, <1>5
<1>7. f = [k \in Nat |-> IF k = 0 THEN i ELSE next[f[k - 1]]]
  <2>1. \A k \in Nat : f[k] = IF k = 0 THEN i ELSE next[f[k - 1]]
    BY <1>6
  <2>2. f = [k \in Nat |-> f[k]]
    OBVIOUS
  <2>. HIDE DEF f
  <2>. QED
    BY <2>1, <2>2
<1>. DEFINE at == CHOOSE at : at = [k \in Nat |-> IF k = 0 THEN i ELSE next[at[k - 1]]]
<1>8. at = [k \in Nat |-> IF k = 0 THEN i ELSE next[at[k - 1]]]
  <2>. HIDE DEF f
  <2>. QED
    BY <1>7
<1>9. Iterate(next, i) = at
  BY DEF Iterate
<1>. HIDE DEF at
<1>10. \A k \in Nat : at[k + 1] = next[at[k]]
  <2>. TAKE k \in Nat
  <2>1. at[k + 1] = IF k + 1 = 0 THEN i ELSE next[at[(k + 1) - 1]]
    BY <1>8
  <2>. QED
    BY <2>1
<1>. QED
  BY <1>8, <1>9, <1>10

-----------------------------------------------------------------------------
(***************************************************************************)
(* Sequences laid end to end: Flattening(ss)[k] is the first k of them.     *)
(***************************************************************************)
Flattening(ss) ==
    CHOOSE f : f = [i \in 1 .. Len(ss) |-> IF i = 1 THEN ss[i] ELSE f[i - 1] \o ss[i]]

LEMMA FlattenDef ==
    ASSUME NEW S, NEW ss \in Seq(S)
    PROVE  /\ Len(ss) = 0 => FlattenSeq(ss) = <<>>
           /\ Len(ss) # 0 => FlattenSeq(ss) = Flattening(ss)[Len(ss)]
           /\ Len(ss) # 0 => Flattening(ss)[1] = ss[1]
           /\ \A k \in 1 .. Len(ss) - 1 : Flattening(ss)[k + 1] = Flattening(ss)[k] \o ss[k + 1]
<1>. DEFINE n == Len(ss)
            IsUpTo(g, m) == /\ g[1] = ss[1]
                            /\ \A k \in 1 .. m : g[k + 1] = g[k] \o ss[k + 1]
            T == {m \in Nat : \E g : IsUpTo(g, m)}
<1>1. n \in Nat
  OBVIOUS
<1>2. 0 \in T
  <2>. DEFINE g == [k \in Nat |-> ss[1]]
  <2>1. g[1] = ss[1] /\ 1 .. 0 = {}
    OBVIOUS
  <2>. HIDE DEF g
  <2>2. IsUpTo(g, 0)
    BY <2>1, Zenon
  <2>. QED
    BY <2>2
<1>3. ASSUME NEW m \in Nat, m \in T PROVE m + 1 \in T
  <2>1. PICK g : IsUpTo(g, m)
    BY <1>3
  <2>. DEFINE h == [k \in Nat |-> IF k = m + 2 THEN g[m + 1] \o ss[m + 2] ELSE g[k]]
  <2>2. h[1] = ss[1]
    BY <2>1
  <2>3. ASSUME NEW k \in 1 .. m + 1 PROVE h[k + 1] = h[k] \o ss[k + 1]
    <3>1. CASE k = m + 1
      <4>1. k + 1 = m + 2 /\ k # m + 2 /\ k \in Nat /\ k + 1 \in Nat
        BY <3>1
      <4>. QED
        BY <4>1, <3>1
    <3>2. CASE k # m + 1
      <4>1. k \in 1 .. m /\ k + 1 # m + 2 /\ k # m + 2 /\ k \in Nat /\ k + 1 \in Nat
        BY <3>2
      <4>. QED
        BY <4>1, <2>1
    <3>. QED
      BY <3>1, <3>2
  <2>. HIDE DEF h
  <2>4. IsUpTo(h, m + 1)
    BY <2>2, <2>3, Zenon
  <2>. HIDE DEF IsUpTo
  <2>5. m + 1 \in Nat
    OBVIOUS
  <2>. QED
    BY <2>4, <2>5, Zenon
<1>4. PICK g : IsUpTo(g, n)
  <2>. HIDE DEF T
  <2>1. Nat \subseteq T
    BY <1>2, <1>3, Induction
  <2>. QED
    BY <2>1, <1>1 DEF T
<1>. DEFINE f == [k \in 1 .. n |-> g[k]]
<1>5. f = [i \in 1 .. Len(ss) |-> IF i = 1 THEN ss[i] ELSE f[i - 1] \o ss[i]]
  <2>1. ASSUME NEW i \in 1 .. n PROVE f[i] = IF i = 1 THEN ss[i] ELSE f[i - 1] \o ss[i]
    <3>1. CASE i = 1
      BY <3>1, <1>4
    <3>2. CASE i # 1
      <4>1. i - 1 \in 1 .. n /\ (i - 1) + 1 = i
        BY <3>2, <1>1
      <4>. QED
        BY <4>1, <3>2, <1>4
    <3>. QED
      BY <3>1, <3>2
  <2>. QED
    BY <2>1
<1>6. Flattening(ss) = [i \in 1 .. Len(ss) |-> IF i = 1 THEN ss[i] ELSE Flattening(ss)[i - 1] \o ss[i]]
  <2>. HIDE DEF f
  <2>. QED
    BY <1>5 DEF Flattening
<1>7. Len(ss) # 0 => FlattenSeq(ss) = Flattening(ss)[Len(ss)]
  BY DEF FlattenSeq, Flattening
<1>8. Len(ss) = 0 => FlattenSeq(ss) = <<>>
  BY EmptySeq DEF FlattenSeq
<1>9. Len(ss) # 0 => Flattening(ss)[1] = ss[1]
  <2>. SUFFICES ASSUME Len(ss) # 0 PROVE Flattening(ss)[1] = ss[1]
    OBVIOUS
  <2>1. 1 \in 1 .. Len(ss)
    BY <1>1
  <2>. QED
    BY <2>1, <1>6
<1>10. ASSUME NEW k \in 1 .. Len(ss) - 1
       PROVE  Flattening(ss)[k + 1] = Flattening(ss)[k] \o ss[k + 1]
  <2>1. k + 1 \in 1 .. Len(ss) /\ k + 1 # 1 /\ (k + 1) - 1 = k
    BY <1>1
  <2>. QED
    BY <2>1, <1>6
<1>. QED
  BY <1>7, <1>8, <1>9, <1>10

LEMMA FlattenType ==
    ASSUME NEW S, NEW ss \in Seq(Seq(S))
    PROVE  /\ FlattenSeq(ss) \in Seq(S)
           /\ \A k \in 1 .. Len(ss) : Flattening(ss)[k] \in Seq(S)
<1>1. /\ Len(ss) \in Nat /\ \A k \in 1 .. Len(ss) : ss[k] \in Seq(S)
  BY ElementOfSeq
<1>2. /\ Len(ss) = 0 => FlattenSeq(ss) = <<>>
      /\ Len(ss) # 0 => FlattenSeq(ss) = Flattening(ss)[Len(ss)]
      /\ Len(ss) # 0 => Flattening(ss)[1] = ss[1]
      /\ \A k \in 1 .. Len(ss) - 1 : Flattening(ss)[k + 1] = Flattening(ss)[k] \o ss[k + 1]
  BY FlattenDef
<1>. DEFINE T == {k \in Nat : k + 1 <= Len(ss) => Flattening(ss)[k + 1] \in Seq(S)}
<1>3. 0 \in T
  BY <1>1, <1>2
<1>4. ASSUME NEW k \in Nat, k \in T PROVE k + 1 \in T
  <2>. SUFFICES ASSUME k + 2 <= Len(ss) PROVE Flattening(ss)[k + 2] \in Seq(S)
    OBVIOUS
  <2>1. /\ Flattening(ss)[k + 1] \in Seq(S) /\ ss[k + 2] \in Seq(S)
        /\ k + 1 \in 1 .. Len(ss) - 1 /\ (k + 1) + 1 = k + 2
    BY <1>1, <1>4
  <2>2. Flattening(ss)[k + 2] = Flattening(ss)[k + 1] \o ss[k + 2]
    BY <2>1, <1>2
  <2>. QED
    BY <2>1, <2>2, ConcatProperties
<1>5. Nat \subseteq T
  <2>. HIDE DEF T
  <2>. QED
    BY <1>3, <1>4, Induction
<1>6. ASSUME NEW k \in 1 .. Len(ss) PROVE Flattening(ss)[k] \in Seq(S)
  <2>1. k - 1 \in Nat /\ (k - 1) + 1 = k /\ k <= Len(ss)
    BY <1>1
  <2>2. k - 1 \in T
    BY <2>1, <1>5
  <2>3. (k - 1) + 1 <= Len(ss) => Flattening(ss)[(k - 1) + 1] \in Seq(S)
    BY <2>2
  <2>. QED
    BY <2>1, <2>3
<1>7. FlattenSeq(ss) \in Seq(S)
  BY <1>1, <1>2, <1>6, EmptySeq
<1>. QED
  BY <1>6, <1>7

\* Where the k-th of the sequences is when the first is at i.
Place(ss, i, k) == i + (IF k = 1 THEN 0 ELSE Len(Flattening(ss)[k - 1]))

LEMMA Places ==
    ASSUME NEW ss \in Seq(Bytes), NEW i \in Nat
    PROVE  /\ Place(ss, i, 1) = i
           /\ Place(ss, i, Len(ss) + 1) = i + Len(FlattenSeq(ss))
           /\ \A k \in 1 .. Len(ss) : /\ Place(ss, i, k) \in Nat /\ Place(ss, i, k) >= i
                                      /\ Place(ss, i, k + 1) = Place(ss, i, k) + Len(ss[k])
<1>1. /\ Len(ss) \in Nat
      /\ \A k \in 1 .. Len(ss) : ss[k] \in Bytes /\ Flattening(ss)[k] \in Bytes
  BY ElementOfSeq, FlattenType DEF Bytes
<1>2. \A s \in Bytes : Len(s) \in Nat
  BY DEF Bytes
<1>3. /\ Len(ss) = 0 => FlattenSeq(ss) = <<>>
      /\ Len(ss) # 0 => FlattenSeq(ss) = Flattening(ss)[Len(ss)]
      /\ Len(ss) # 0 => Flattening(ss)[1] = ss[1]
      /\ \A k \in 1 .. Len(ss) - 1 : Flattening(ss)[k + 1] = Flattening(ss)[k] \o ss[k + 1]
  BY FlattenDef
<1>4. Place(ss, i, 1) = i
  BY DEF Place
<1>5. Place(ss, i, Len(ss) + 1) = i + Len(FlattenSeq(ss))
  <2>1. CASE Len(ss) = 0
    <3>1. Len(FlattenSeq(ss)) = 0
      BY <2>1, <1>3, EmptySeq
    <3>. QED
      BY <2>1, <3>1, <1>4
  <2>2. CASE Len(ss) # 0
    <3>1. Len(ss) + 1 # 1 /\ (Len(ss) + 1) - 1 = Len(ss)
      BY <2>2, <1>1
    <3>. QED
      BY <2>2, <3>1, <1>3 DEF Place
  <2>. QED
    BY <2>1, <2>2
<1>6. ASSUME NEW k \in 1 .. Len(ss)
      PROVE  /\ Place(ss, i, k) \in Nat /\ Place(ss, i, k) >= i
             /\ Place(ss, i, k + 1) = Place(ss, i, k) + Len(ss[k])
  <2>1. Place(ss, i, k + 1) = i + Len(Flattening(ss)[k])
    <3>1. k + 1 # 1 /\ (k + 1) - 1 = k
      BY <1>1
    <3>. QED
      BY <3>1 DEF Place
  <2>2. CASE k = 1
    <3>1. Flattening(ss)[k] = ss[k] /\ Place(ss, i, k) = i /\ Len(ss[k]) \in Nat
      BY <2>2, <1>1, <1>2, <1>3, <1>4
    <3>. QED
      BY <2>1, <3>1
  <2>3. CASE k # 1
    <3>1. k - 1 \in 1 .. Len(ss) - 1 /\ k - 1 \in 1 .. Len(ss) /\ (k - 1) + 1 = k
      BY <2>3, <1>1
    <3>2. Flattening(ss)[k] = Flattening(ss)[k - 1] \o ss[k]
      BY <3>1, <1>3
    <3>3. Len(Flattening(ss)[k]) = Len(Flattening(ss)[k - 1]) + Len(ss[k])
      BY <3>1, <3>2, <1>1, ConcatProperties DEF Bytes
    <3>4. Place(ss, i, k) = i + Len(Flattening(ss)[k - 1])
      BY <2>3 DEF Place
    <3>5. Len(Flattening(ss)[k - 1]) \in Nat /\ Len(ss[k]) \in Nat
      BY <3>1, <1>1, <1>2
    <3>6. PICK x, y \in Nat : x = Len(Flattening(ss)[k - 1]) /\ y = Len(ss[k])
      BY <3>5
    <3>7. Place(ss, i, k + 1) = i + (x + y) /\ Place(ss, i, k) = i + x
      BY <2>1, <3>3, <3>4, <3>6, Zenon
    <3>8. /\ Place(ss, i, k) \in Nat /\ Place(ss, i, k) >= i
          /\ Place(ss, i, k + 1) = Place(ss, i, k) + y
      BY <3>7
    <3>. QED
      BY <3>6, <3>8, Zenon
  <2>. QED
    BY <2>2, <2>3
<1>. QED
  BY <1>4, <1>5, <1>6

LEMMA PlacesHold ==
    ASSUME NEW ss \in Seq(Bytes), NEW i \in Nat, NEW b, Holds(b, i, FlattenSeq(ss)),
           NEW k \in 1 .. Len(ss)
    PROVE  Holds(b, Place(ss, i, k), ss[k])
<1>. DEFINE n == Len(ss)
            T == {j \in Nat : j < n => Holds(b, i, Flattening(ss)[n - j])}
<1>1. /\ n \in Nat
      /\ \A j \in 1 .. n : ss[j] \in Bytes /\ Flattening(ss)[j] \in Bytes
  BY ElementOfSeq, FlattenType DEF Bytes
<1>2. /\ FlattenSeq(ss) = Flattening(ss)[n] /\ Flattening(ss)[1] = ss[1]
      /\ \A j \in 1 .. n - 1 : Flattening(ss)[j + 1] = Flattening(ss)[j] \o ss[j + 1]
  <2>1. n # 0
    BY <1>1
  <2>. QED
    BY <2>1, FlattenDef
<1>3. ASSUME NEW j \in 1 .. n - 1, Holds(b, i, Flattening(ss)[j + 1])
      PROVE  Holds(b, i, Flattening(ss)[j]) /\ Holds(b, i + Len(Flattening(ss)[j]), ss[j + 1])
  <2>. HIDE DEF n
  <2>0. j \in 1 .. n /\ j + 1 \in 1 .. n
    BY <1>1
  <2>1. /\ Flattening(ss)[j] \in Bytes /\ ss[j + 1] \in Bytes
        /\ Flattening(ss)[j + 1] = Flattening(ss)[j] \o ss[j + 1]
    BY <2>0, <1>1, <1>2
  <2>2. Holds(b, i, Flattening(ss)[j] \o ss[j + 1])
    BY <2>1, <1>3
  <2>. QED
    BY <2>1, <2>2, HoldsParts
<1>4. 0 \in T
  BY <1>1, <1>2
<1>5. ASSUME NEW j \in Nat, j \in T PROVE j + 1 \in T
  <2>. SUFFICES ASSUME j + 1 < n PROVE Holds(b, i, Flattening(ss)[n - (j + 1)])
    OBVIOUS
  <2>1. n - (j + 1) \in 1 .. n - 1 /\ (n - (j + 1)) + 1 = n - j /\ j < n
    BY <1>1
  <2>2. Holds(b, i, Flattening(ss)[n - j])
    BY <2>1, <1>5
  <2>. QED
    BY <2>1, <2>2, <1>3
<1>6. Nat \subseteq T
  <2>. HIDE DEF T
  <2>. QED
    BY <1>4, <1>5, Induction
<1>7. Holds(b, i, Flattening(ss)[k])
  <2>1. n - k \in Nat /\ n - k < n /\ n - (n - k) = k
    BY <1>1
  <2>2. n - k \in T
    BY <2>1, <1>6
  <2>3. Holds(b, i, Flattening(ss)[n - (n - k)])
    BY <2>1, <2>2
  <2>. QED
    BY <2>1, <2>3
<1>8. CASE k = 1
  <2>1. i + 0 = i
    OBVIOUS
  <2>. QED
    BY <2>1, <1>2, <1>7, <1>8 DEF Place
<1>9. CASE k # 1
  <2>1. k - 1 \in 1 .. n - 1 /\ (k - 1) + 1 = k
    BY <1>1, <1>9
  <2>2. Holds(b, i + Len(Flattening(ss)[k - 1]), ss[k])
    BY <2>1, <1>3, <1>7
  <2>. QED
    BY <2>2, <1>9 DEF Place
<1>. QED
  BY <1>8, <1>9

LEMMA FlattenLonger ==
    ASSUME NEW ss \in Seq(Bytes), NEW tt \in Seq(Bytes), Len(ss) = Len(tt),
           \A k \in 1 .. Len(ss) : Len(ss[k]) >= Len(tt[k]) + 1
    PROVE  Len(FlattenSeq(ss)) >= Len(FlattenSeq(tt)) + Len(ss)
<1>. DEFINE n == Len(ss)
            T == {k \in Nat : k <= n => Place(ss, 0, k + 1) >= Place(tt, 0, k + 1) + k}
<1>1. n \in Nat /\ Len(tt) = n
  OBVIOUS
<1>2. ASSUME NEW k \in 1 .. n
      PROVE  /\ Place(ss, 0, k) \in Nat /\ Place(ss, 0, k + 1) = Place(ss, 0, k) + Len(ss[k])
             /\ Place(tt, 0, k) \in Nat /\ Place(tt, 0, k + 1) = Place(tt, 0, k) + Len(tt[k])
             /\ Len(ss[k]) \in Nat /\ Len(tt[k]) \in Nat
  <2>1. ss[k] \in Bytes /\ tt[k] \in Bytes
    BY <1>1, ElementOfSeq
  <2>2. \A s \in Bytes : Len(s) \in Nat
    BY DEF Bytes
  <2>3. /\ Place(ss, 0, k) \in Nat
        /\ Place(ss, 0, k + 1) = Place(ss, 0, k) + Len(ss[k])
    BY Places
  <2>4. k \in 1 .. Len(tt)
    BY <1>1
  <2>5. /\ Place(tt, 0, k) \in Nat
        /\ Place(tt, 0, k + 1) = Place(tt, 0, k) + Len(tt[k])
    BY <2>4, Places
  <2>. QED
    BY <2>1, <2>2, <2>3, <2>5
<1>3. 0 \in T
  <2>1. Place(ss, 0, 0 + 1) = 0 /\ Place(tt, 0, 0 + 1) = 0
    BY Places
  <2>. QED
    BY <2>1
<1>4. ASSUME NEW k \in Nat, k \in T PROVE k + 1 \in T
  <2>. SUFFICES ASSUME k + 1 <= n
                PROVE  Place(ss, 0, (k + 1) + 1) >= Place(tt, 0, (k + 1) + 1) + (k + 1)
    OBVIOUS
  <2>1. k + 1 \in 1 .. n /\ k <= n
    BY <1>1
  <2>2. Place(ss, 0, k + 1) >= Place(tt, 0, k + 1) + k /\ Len(ss[k + 1]) >= Len(tt[k + 1]) + 1
    BY <2>1, <1>4
  <2>3. PICK p, q, l, m \in Nat : /\ p = Place(ss, 0, k + 1) /\ q = Place(tt, 0, k + 1)
                                  /\ l = Len(ss[k + 1]) /\ m = Len(tt[k + 1])
    BY <2>1, <1>2
  <2>4. Place(ss, 0, (k + 1) + 1) = p + l /\ Place(tt, 0, (k + 1) + 1) = q + m
    BY <2>1, <2>3, <1>2
  <2>5. p >= q + k /\ l >= m + 1
    BY <2>2, <2>3
  <2>6. p + l >= q + m + (k + 1)
    BY <2>5
  <2>. QED
    BY <2>4, <2>6
<1>5. Nat \subseteq T
  <2>. HIDE DEF T
  <2>. QED
    BY <1>3, <1>4, Induction
<1>6. Place(ss, 0, n + 1) >= Place(tt, 0, n + 1) + n
  <2>1. n \in T /\ n <= n
    BY <1>1, <1>5
  <2>. QED
    BY <2>1
<1>7. FlattenSeq(ss) \in Bytes /\ FlattenSeq(tt) \in Bytes
  BY FlattenType DEF Bytes
<1>8. Len(FlattenSeq(ss)) \in Nat /\ Len(FlattenSeq(tt)) \in Nat
  BY <1>7 DEF Bytes
<1>9. Place(ss, 0, n + 1) = 0 + Len(FlattenSeq(ss)) /\ Place(tt, 0, n + 1) = 0 + Len(FlattenSeq(tt))
  BY <1>1, Places
<1>. QED
  BY <1>6, <1>8, <1>9

\* A reader that goes from a field to the next by its length finds them all.
LEMMA FieldsFound ==
    ASSUME NEW es \in Seq(Bytes), NEW i \in Nat, NEW next,
           \A k \in 1 .. Len(es) : next[Place(es, i, k)] = Place(es, i, k) + Len(es[k])
    PROVE  \A k \in 0 .. Len(es) : Iterate(next, i)[k] = Place(es, i, k + 1)
<1>. DEFINE n == Len(es)
            T == {k \in Nat : k <= n => Iterate(next, i)[k] = Place(es, i, k + 1)}
<1>1. n \in Nat
  OBVIOUS
<1>2. 0 \in T
  <2>1. Place(es, i, 0 + 1) = i /\ Iterate(next, i)[0] = i
    BY Places, IterateDef
  <2>. QED
    BY <2>1
<1>3. ASSUME NEW k \in Nat, k \in T PROVE k + 1 \in T
  <2>. SUFFICES ASSUME k + 1 <= n PROVE Iterate(next, i)[k + 1] = Place(es, i, (k + 1) + 1)
    OBVIOUS
  <2>1. k + 1 \in 1 .. n /\ k <= n
    BY <1>1
  <2>0. Iterate(next, i)[k] = Place(es, i, k + 1)
    BY <2>1, <1>3
  <2>4. Iterate(next, i)[k + 1] = next[Iterate(next, i)[k]]
    BY IterateDef
  <2>2. Iterate(next, i)[k + 1] = next[Place(es, i, k + 1)]
    BY <2>0, <2>4, Zenon
  <2>3. Place(es, i, (k + 1) + 1) = Place(es, i, k + 1) + Len(es[k + 1])
    BY <2>1, Places
  <2>. QED
    BY <2>1, <2>2, <2>3
<1>4. Nat \subseteq T
  <2>. HIDE DEF T
  <2>. QED
    BY <1>2, <1>3, Induction
<1>5. ASSUME NEW k \in 0 .. n PROVE Iterate(next, i)[k] = Place(es, i, k + 1)
  <2>1. k \in T /\ k <= n
    BY <1>1, <1>4
  <2>. QED
    BY <2>1
<1>. QED
  BY <1>5

LEMMA ShortLen == \A s \in Short : s \in Bytes /\ Len(s) \in Uint16 /\ Len(s) \in Nat
BY DEF Short, Bytes

Encoded(ss) == [k \in DOMAIN ss |-> UTF8_encode(ss[k])]

LEMMA EncodedType ==
    ASSUME NEW ss \in Seq(Short)
    PROVE  /\ Encoded(ss) \in Seq(Bytes) /\ Len(Encoded(ss)) = Len(ss)
           /\ \A k \in 1 .. Len(ss) : /\ ss[k] \in Short /\ Encoded(ss)[k] = UTF8_encode(ss[k])
                                      /\ Len(Encoded(ss)[k]) = 2 + Len(ss[k])
<1>1. /\ Len(ss) \in Nat /\ DOMAIN ss = 1 .. Len(ss)
      /\ \A k \in 1 .. Len(ss) : ss[k] \in Short
  BY ElementOfSeq, LenProperties
<1>2. \A k \in 1 .. Len(ss) : /\ UTF8_encode(ss[k]) \in Bytes
                              /\ Len(UTF8_encode(ss[k])) = 2 + Len(ss[k])
  BY <1>1, EncodeType DEF Short
<1>3. Encoded(ss) = [k \in 1 .. Len(ss) |-> UTF8_encode(ss[k])]
  BY <1>1 DEF Encoded
<1>4. Encoded(ss) \in [1 .. Len(ss) -> Bytes]
  BY <1>2, <1>3
<1>5. Encoded(ss) \in Seq(Bytes) /\ Len(Encoded(ss)) = Len(ss)
  BY <1>1, <1>4
<1>. QED
  BY <1>1, <1>2, <1>3, <1>5

\* Strings that follow each other are read as they were written, whatever
\* number of them is asked for.
LEMMA StringsReadBack ==
    ASSUME NEW ss \in Seq(Short), NEW b \in Bytes, NEW i \in Nat \ {0}, Holds(b, i, Strings(ss)),
           NEW n \in Nat, NEW k \in 1 .. n, k <= Len(ss)
    PROVE  StringsAt(b, i, n)[k] = ss[k]
<1>. DEFINE es == Encoded(ss)
            next == [j \in Nat |-> After(b, j)]
<1>1. /\ es \in Seq(Bytes) /\ Len(es) = Len(ss) /\ Len(ss) \in Nat
      /\ \A j \in 1 .. Len(ss) : /\ ss[j] \in Short /\ es[j] = UTF8_encode(ss[j])
                                 /\ Len(es[j]) = 2 + Len(ss[j])
  BY EncodedType
<1>2. Strings(ss) = FlattenSeq(es)
  BY DEF Strings, Encoded
<1>. HIDE DEF es
<1>3. ASSUME NEW j \in 1 .. Len(es)
      PROVE  /\ Place(es, i, j) \in Nat
             /\ UTF8_decode(b, Place(es, i, j)) = ss[j]
             /\ next[Place(es, i, j)] = Place(es, i, j) + Len(es[j])
  <2>1. Place(es, i, j) \in Nat \ {0} /\ Holds(b, Place(es, i, j), es[j])
    BY <1>1, <1>2, Places, PlacesHold
  <2>2. /\ ss[j] \in Bytes /\ Len(ss[j]) \in Uint16 /\ Len(ss[j]) \in Nat
        /\ es[j] = UTF8_encode(ss[j])
    BY <1>1, ShortLen
  <2>3. /\ UTF8_decode(b, Place(es, i, j)) = ss[j]
        /\ After(b, Place(es, i, j)) = Place(es, i, j) + 2 + Len(ss[j])
    BY <2>1, <2>2, StringReadBack
  <2>4. PICK p, l \in Nat : p = Place(es, i, j) /\ l = Len(ss[j])
    BY <2>1, <2>2
  <2>5. p + 2 + l = p + (2 + l)
    OBVIOUS
  <2>6. next[p] = After(b, p)
    OBVIOUS
  <2>7. Len(es[j]) = 2 + Len(ss[j])
    BY <1>1
  <2>. QED
    BY <2>3, <2>4, <2>5, <2>6, <2>7, Zenon
<1>4. k \in 1 .. Len(es) /\ k - 1 \in 0 .. Len(es) /\ (k - 1) + 1 = k
  BY <1>1
<1>5. Iterate(next, i)[k - 1] = Place(es, i, k)
  <2>. HIDE DEF next
  <2>1. i \in Nat /\ \A j \in 1 .. Len(es) : next[Place(es, i, j)] = Place(es, i, j) + Len(es[j])
    BY <1>3
  <2>2. \A j \in 0 .. Len(es) : Iterate(next, i)[j] = Place(es, i, j + 1)
    BY <1>1, <2>1, FieldsFound
  <2>. QED
    BY <1>4, <2>2
<1>6. StringsAt(b, i, n)[k] = UTF8_decode(b, Iterate(next, i)[k - 1])
  BY DEF StringsAt
<1>. QED
  BY <1>3, <1>4, <1>5, <1>6

-----------------------------------------------------------------------------
(***************************************************************************)
(* The length in the fixed header.                                         *)
(***************************************************************************)
LEMMA MaxLengthNat == MaxLength \in Nat
BY SMT DEF MaxLength

LEMMA MaxLengthValue == MaxLength = 128 * 128 * 128 * 128 - 1
BY SMT DEF MaxLength

LEMMA LengthBelow ==
    ASSUME NEW n \in Nat, n <= MaxLength
    PROVE  n < 128 * 128 * 128 * 128
BY MaxLengthValue

LEMMA LengthBound ==
    ASSUME NEW n \in 1 .. MaxLength
    PROVE  n \in Nat /\ n >= 1 /\ n < 128 * 128 * 128 * 128
<1>1. n \in Nat /\ n >= 1 /\ n <= MaxLength
  BY MaxLengthNat
<1>. QED
  BY <1>1, LengthBelow

\* x are the digits of n, of which the first d are written.
IsDigits(n, d, x) ==
    /\ d \in 1 .. 4 /\ x \in [1 .. 4 -> 0 .. 127]
    /\ n = x[1] + x[2] * 128 + x[3] * (128 * 128) + x[4] * (128 * 128 * 128)
    /\ Digits(n) = 1 .. d
    /\ \A k \in 1 .. 4 : (n \div Weight[k]) % 128 = x[k] /\ (k > d => x[k] = 0)

LEMMA LengthDigits ==
    ASSUME NEW n \in 1 .. MaxLength
    PROVE  \E d, x : IsDigits(n, d, x)
<1>. DEFINE x1 == n % 128
            x2 == (n \div 128) % 128
            x3 == (n \div (128 * 128)) % 128
            x4 == (n \div (128 * 128 * 128)) % 128
            x == [k \in 1 .. 4 |-> CASE k = 1 -> x1 [] k = 2 -> x2 [] k = 3 -> x3 [] k = 4 -> x4]
            d == IF n >= 128 * 128 * 128 THEN 4 ELSE IF n >= 128 * 128 THEN 3
                 ELSE IF n >= 128 THEN 2 ELSE 1
<1>0. n \in Nat /\ n >= 1 /\ n < 128 * 128 * 128 * 128
  BY LengthBound
<1>1. /\ x1 \in 0 .. 127 /\ x2 \in 0 .. 127 /\ x3 \in 0 .. 127 /\ x4 \in 0 .. 127
      /\ n = x1 + x2 * 128 + x3 * (128 * 128) + x4 * (128 * 128 * 128)
  <2>. DEFINE q1 == n \div 128
              q2 == n \div (128 * 128)
              q3 == n \div (128 * 128 * 128)
  <2>1. /\ n = 128 * q1 + x1 /\ q1 = 128 * q2 + x2 /\ q2 = 128 * q3 + x3
        /\ q1 \in Nat /\ q2 \in Nat /\ q3 \in Nat
        /\ x1 \in 0 .. 127 /\ x2 \in 0 .. 127 /\ x3 \in 0 .. 127
    BY <1>0
  <2>2. x4 = q3 % 128
    BY Zenon
  <2>. HIDE DEF q1, q2, q3, x1, x2, x3, x4, x, d
  <2>3. q3 <= 127
    BY <1>0, <2>1
  <2>4. x4 = q3
    BY <2>1, <2>2, <2>3
  <2>. QED
    BY <2>1, <2>3, <2>4
<1>2. /\ n < 128 * 128 * 128 => x4 = 0
      /\ n < 128 * 128 => x3 = 0
      /\ n < 128 => x2 = 0
  BY <1>0
<1>3. /\ Weight[1] = 1 /\ Weight[2] = 128 /\ Weight[3] = 128 * 128 /\ Weight[4] = 128 * 128 * 128
      /\ Weight[5] = 128 * 128 * 128 * 128
  BY DEF Weight
<1>4. /\ x[1] = x1 /\ x[2] = x2 /\ x[3] = x3 /\ x[4] = x4
      /\ x \in [1 .. 4 -> 0 .. 127]
  BY <1>1
<1>5. d \in 1 .. 4 /\ Digits(n) = 1 .. d
  <2>. HIDE DEF x1, x2, x3, x4, x
  <2>1. d \in 1 .. 4 /\ \A k \in 1 .. 5 : n >= Weight[k] <=> k <= d
    BY <1>0, <1>3
  <2>. HIDE DEF d
  <2>. QED
    BY <2>1 DEF Digits
<1>6. \A k \in 1 .. 4 : (n \div Weight[k]) % 128 = x[k]
  BY <1>0, <1>3, <1>4
<1>7. \A k \in 1 .. 4 : k > d => x[k] = 0
  BY <1>0, <1>2, <1>4
<1>8. n = x[1] + x[2] * 128 + x[3] * (128 * 128) + x[4] * (128 * 128 * 128)
  BY <1>1, <1>3, <1>4
<1>9. IsDigits(n, d, x)
  BY <1>4, <1>5, <1>6, <1>7, <1>8 DEF IsDigits
<1>. QED
  BY <1>9

\* All the bytes of a length but the last are marked, and it is not.
LEMMA LengthType ==
    ASSUME NEW n, NEW d, NEW x, IsDigits(n, d, x)
    PROVE  /\ RemainEncode(n) \in Bytes /\ Len(RemainEncode(n)) = d
           /\ \A k \in 1 .. d : /\ RemainEncode(n)[k] % 128 = x[k]
                                /\ RemainEncode(n)[k] < 128 <=> k = d
<1>1. d \in 1 .. 4 /\ Digits(n) = 1 .. d
      /\ \A k \in 1 .. d : (n \div Weight[k]) % 128 = x[k] /\ x[k] \in 0 .. 127
  BY DEF IsDigits
<1>2. RemainEncode(n) = [k \in 1 .. d |-> x[k] + Bit(k + 1 \in 1 .. d, 128)]
  BY <1>1 DEF RemainEncode
<1>3. ASSUME NEW k \in 1 .. d
      PROVE  /\ RemainEncode(n)[k] \in Byte /\ RemainEncode(n)[k] % 128 = x[k]
             /\ RemainEncode(n)[k] < 128 <=> k = d
  <2>1. k + 1 \in 1 .. d <=> k # d
    BY <1>1
  <2>2. RemainEncode(n)[k] = x[k] + (IF k # d THEN 128 ELSE 0)
    BY <1>2, <2>1 DEF Bit
  <2>3. x[k] \in 0 .. 127
    BY <1>1
  <2>. QED
    BY <2>2, <2>3 DEF Byte
<1>4. RemainEncode(n) \in [1 .. d -> Byte]
  BY <1>2, <1>3
<1>5. RemainEncode(n) \in Bytes /\ Len(RemainEncode(n)) = d
  BY <1>1, <1>4 DEF Bytes
<1>. QED
  BY <1>3, <1>5

\* The length of a message is read as it was announced, and the message's body
\* begins behind it.
THEOREM LengthReadBack ==
    ASSUME NEW n \in 1 .. MaxLength, NEW b, Holds(b, 2, RemainEncode(n))
    PROVE  /\ RemainEncode(n) \in Bytes
           /\ LengthEnds(b) # {} /\ LengthBytes(b) = Len(RemainEncode(n))
           /\ LengthBytes(b) \in 1 .. 4 /\ RemainDecode(b) = n
<1>1. PICK d, x : IsDigits(n, d, x)
  BY LengthDigits, Zenon
<1>2. /\ RemainEncode(n) \in Bytes /\ Len(RemainEncode(n)) = d
      /\ \A k \in 1 .. d : /\ RemainEncode(n)[k] % 128 = x[k]
                           /\ RemainEncode(n)[k] < 128 <=> k = d
  BY <1>1, LengthType
<1>3. d \in 1 .. 4 /\ x \in [1 .. 4 -> 0 .. 127]
      /\ n = x[1] + x[2] * 128 + x[3] * (128 * 128) + x[4] * (128 * 128 * 128)
      /\ \A k \in 1 .. 4 : k > d => x[k] = 0
  BY <1>1 DEF IsDigits
<1>4. ASSUME NEW k \in 1 .. d
      PROVE  ByteAt(b, 1 + k) % 128 = x[k] /\ (ByteAt(b, 1 + k) < 128 <=> k = d)
  <2>1. 2 + k - 1 = 1 + k
    OBVIOUS
  <2>2. 1 + k \in DOMAIN b /\ b[1 + k] = RemainEncode(n)[k]
    BY <1>2, <2>1 DEF Holds
  <2>. QED
    BY <1>2, <2>2 DEF ByteAt
<1>5. d \in LengthEnds(b) /\ \A k \in LengthEnds(b) : d <= k
  BY <1>3, <1>4 DEF LengthEnds
<1>6. LengthBytes(b) = d
  <2>1. LengthEnds(b) \subseteq 1 .. 4
    BY DEF LengthEnds
  <2>2. \A k \in LengthEnds(b) : (\A j \in LengthEnds(b) : k <= j) => k = d
    BY <1>3, <1>5, <2>1
  <2>. QED
    BY <1>5, <2>2 DEF LengthBytes
<1>7. RemainDecode(b) = n
  <2>. DEFINE digit(k) == IF k <= LengthBytes(b) THEN (ByteAt(b, 1 + k) % 128) * Weight[k] ELSE 0
  <2>1. /\ Weight[1] = 1 /\ Weight[2] = 128 /\ Weight[3] = 128 * 128
        /\ Weight[4] = 128 * 128 * 128
    BY DEF Weight
  <2>2. \A k \in 1 .. 4 : digit(k) = x[k] * Weight[k]
    <3>. TAKE k \in 1 .. 4
    <3>0. Weight[k] \in Nat
      BY <2>1
    <3>1. CASE k <= d
      BY <1>4, <1>6, <3>1
    <3>2. CASE ~(k <= d)
      <4>1. x[k] = 0 /\ k > d
        BY <1>3, <3>2
      <4>. QED
        BY <4>1, <3>0, <3>2, <1>6
    <3>. QED
      BY <3>1, <3>2
  <2>3. RemainDecode(b) = digit(1) + digit(2) + digit(3) + digit(4)
    BY DEF RemainDecode
  <2>. HIDE DEF digit
  <2>4. RemainDecode(b) = x[1] * 1 + x[2] * 128 + x[3] * (128 * 128) + x[4] * (128 * 128 * 128)
    BY <2>1, <2>2, <2>3
  <2>. QED
    BY <1>3, <2>4
<1>. QED
  BY <1>2, <1>3, <1>5, <1>6, <1>7

-----------------------------------------------------------------------------
(***************************************************************************)
(* The fixed header.                                                       *)
(***************************************************************************)
\* The header of every message that the constructors make.
IsHeader(m) ==
    /\ m.type \in Range(MessageType) /\ m.dup = FALSE
    /\ m.qos \in 0 .. 2 /\ m.retain \in BOOLEAN
    /\ m.type # "PUBLISH" => m.qos = SentQoS(m.type) /\ m.retain = FALSE

LEMMA TypeCodes ==
    ASSUME NEW type \in Range(MessageType)
    PROVE  TypeCode(type) \in 1 .. 14 /\ MessageType[TypeCode(type)] = type
<1>1. DOMAIN MessageType = 1 .. 14
  BY DEF MessageType
<1>2. PICK n \in DOMAIN MessageType : MessageType[n] = type
  BY DEF Range
<1>3. TypeCode(type) \in DOMAIN MessageType /\ MessageType[TypeCode(type)] = type
  BY <1>2, Zenon DEF TypeCode
<1>. QED
  BY <1>1, <1>3

\* The bits of the first byte do not get into each other's way.
LEMMA FirstByteParts ==
    ASSUME NEW code \in 1 .. 14, NEW qos \in 0 .. 2, NEW retain \in BOOLEAN
    PROVE  LET byte == 16 * code + Bit(FALSE, 8) + 2 * qos + Bit(retain, 1)
               flags == byte % 16
           IN  /\ byte \in Byte /\ byte \div 16 = code
               /\ flags = 2 * qos + Bit(retain, 1) /\ (flags \div 2) % 4 = qos
               /\ IsSet(flags, 8) = FALSE /\ IsSet(flags, 1) = retain
<1>. DEFINE low == 2 * qos + Bit(retain, 1)
            byte == 16 * code + Bit(FALSE, 8) + 2 * qos + Bit(retain, 1)
<1>1. low \in 0 .. 5 /\ low \div 2 = qos /\ low % 2 = Bit(retain, 1)
  BY DEF Bit
<1>2. low \div 8 = 0 /\ low \div 1 = low /\ qos % 4 = qos
  <2>. HIDE DEF low
  <2>1. low \div 8 = 0 /\ low \div 1 = low
    BY <1>1
  <2>2. qos % 4 = qos
    OBVIOUS
  <2>. QED
    BY <2>1, <2>2
<1>3. IsSet(low, 8) = FALSE /\ IsSet(low, 1) = retain
  BY <1>1, <1>2 DEF IsSet, Bit
<1>4. byte = 16 * code + low
  BY DEF Bit
<1>5. byte \in Byte /\ byte \div 16 = code /\ byte % 16 = low
  <2>. HIDE DEF byte, low
  <2>. QED
    BY <1>1, <1>4 DEF Byte
<1>. QED
  BY <1>1, <1>2, <1>3, <1>5

\* The type, the QoS and the retain flag of a message are read as they were
\* written, and no flag of it is refused.
LEMMA FirstByteReadBack ==
    ASSUME NEW m, IsHeader(m), NEW b, Holds(b, 1, <<FirstByte(m)>>)
    PROVE  /\ FirstByte(m) \in Byte
           /\ TypeAt(b) = m.type /\ HeaderError(TypeAt(b), ByteAt(b, 1) % 16) = "NO_ERROR"
           /\ ParseHeader(b).type = m.type /\ ParseHeader(b).qos = m.qos
           /\ ParseHeader(b).retain = m.retain /\ ParseHeader(b).dup = FALSE
<1>1. /\ m.type \in Range(MessageType) /\ m.qos \in 0 .. 2 /\ m.retain \in BOOLEAN
      /\ m.dup = FALSE /\ (m.type # "PUBLISH" => m.qos = SentQoS(m.type) /\ m.retain = FALSE)
  BY DEF IsHeader
<1>2. PICK code \in 1 .. 14 : code = TypeCode(m.type) /\ MessageType[code] = m.type
  BY <1>1, TypeCodes
<1>3. DOMAIN MessageType = 1 .. 14
  BY DEF MessageType
<1>4. FirstByte(m) = 16 * code + Bit(FALSE, 8) + 2 * m.qos + Bit(m.retain, 1)
  BY <1>1, <1>2, Zenon DEF FirstByte
<1>5. ByteAt(b, 1) = FirstByte(m)
  BY DEF Holds, ByteAt
<1>. DEFINE flags == ByteAt(b, 1) % 16
<1>6. /\ FirstByte(m) \in Byte /\ ByteAt(b, 1) \div 16 = code
      /\ flags = 2 * m.qos + Bit(m.retain, 1) /\ (flags \div 2) % 4 = m.qos
      /\ IsSet(flags, 8) = FALSE /\ IsSet(flags, 1) = m.retain
  <2>1. PICK qos \in 0 .. 2, retain \in BOOLEAN : qos = m.qos /\ retain = m.retain
    BY <1>1
  <2>. DEFINE byte == 16 * code + Bit(FALSE, 8) + 2 * qos + Bit(retain, 1)
  <2>2. /\ byte \in Byte /\ byte \div 16 = code
        /\ byte % 16 = 2 * qos + Bit(retain, 1) /\ ((byte % 16) \div 2) % 4 = qos
        /\ IsSet(byte % 16, 8) = FALSE /\ IsSet(byte % 16, 1) = retain
    BY FirstByteParts, Zenon
  <2>3. ByteAt(b, 1) = byte /\ FirstByte(m) = byte
    BY <1>4, <1>5, <2>1, Zenon
  <2>. HIDE DEF byte
  <2>. QED
    BY <2>1, <2>2, <2>3, Zenon
<1>7. TypeAt(b) = m.type
  BY <1>2, <1>3, <1>6 DEF TypeAt
<1>8. HeaderError(m.type, flags) = "NO_ERROR"
  <2>1. CASE m.type = "PUBLISH"
    BY <2>1, <1>1, <1>6 DEF HeaderError
  <2>2. CASE m.type # "PUBLISH"
    <3>1. flags = 2 * SentQoS(m.type)
      BY <2>2, <1>1, <1>6 DEF Bit, SentQoS
    <3>. QED
      BY <3>1, <2>2 DEF HeaderError, SentQoS
  <2>. QED
    BY <2>1, <2>2
<1>. HIDE DEF flags
<1>9. ParseHeader(b) = [type |-> TypeAt(b), dup |-> IsSet(flags, 8), qos |-> (flags \div 2) % 4,
                        retain |-> IsSet(flags, 1), length |-> RemainDecode(b), id |-> Unset,
                        body |-> <<>>]
  BY Zenon DEF ParseHeader, flags
<1>. QED
  BY <1>6, <1>7, <1>8, <1>9 DEF flags

\* A header is a byte and what there is of a length.
LEMMA HeaderParts ==
    ASSUME NEW m, IsHeader(m), m.length \in 0 .. MaxLength
    PROVE  /\ <<FirstByte(m)>> \in Bytes /\ Len(<<FirstByte(m)>>) = 1
           /\ RemainEncode(m.length) \in Bytes
           /\ HeaderWire(m) \in Bytes
           /\ HeaderWire(m) = <<FirstByte(m)>> \o RemainEncode(m.length)
           /\ Len(HeaderWire(m)) = 1 + Len(RemainEncode(m.length))
           /\ m.length = 0 => RemainEncode(m.length) = <<>>
           /\ m.length # 0 => m.length \in 1 .. MaxLength
<1>. DEFINE first == <<FirstByte(m)>>
            rest == RemainEncode(m.length)
<1>1. /\ m.length = 0 => rest = <<>>
      /\ m.length # 0 => m.length \in 1 .. MaxLength
      /\ <<>> \in Bytes /\ Len(<<>>) = 0
  <2>1. m.length = 0 => Digits(m.length) = {}
    BY DEF Digits, Weight
  <2>2. m.length = 0 => rest = <<>>
    BY <2>1 DEF RemainEncode
  <2>3. m.length # 0 => m.length \in 1 .. MaxLength
    BY MaxLengthNat
  <2>. QED
    BY <2>2, <2>3 DEF Bytes
<1>2. rest \in Bytes
  <2>1. CASE m.length = 0
    BY <2>1, <1>1
  <2>2. CASE m.length # 0
    <3>1. PICK d, x : IsDigits(m.length, d, x)
      BY <2>2, <1>1, LengthDigits, Zenon
    <3>. QED
      BY <3>1, LengthType, Zenon
  <2>. QED
    BY <2>1, <2>2
<1>3. FirstByte(m) \in Byte
  <2>1. PICK code \in 1 .. 14 : code = TypeCode(m.type)
    BY TypeCodes DEF IsHeader
  <2>2. PICK qos \in 0 .. 2, retain \in BOOLEAN : qos = m.qos /\ retain = m.retain /\ m.dup = FALSE
    BY DEF IsHeader
  <2>. DEFINE byte == 16 * code + Bit(FALSE, 8) + 2 * qos + Bit(retain, 1)
  <2>3. FirstByte(m) = byte
    BY <2>1, <2>2, Zenon DEF FirstByte
  <2>4. byte \in Byte
    BY FirstByteParts, Zenon
  <2>. QED
    BY <2>3, <2>4, Zenon
<1>4. first \in Bytes /\ Len(first) = 1
  BY <1>3 DEF Bytes
<1>. HIDE DEF first, rest
<1>5. HeaderWire(m) = first \o rest
  BY DEF HeaderWire, first, rest
<1>6. HeaderWire(m) \in Bytes /\ Len(HeaderWire(m)) = 1 + Len(rest)
  BY <1>2, <1>4, <1>5, ConcatProperties DEF Bytes
<1>. QED
  BY <1>1, <1>2, <1>4, <1>5, <1>6 DEF first, rest

\* A header is read as it was written; when it has a length the body begins
\* behind it.  A header without a length, of one byte, is taken together with
\* what the buffer has behind it, and may be refused for that.
THEOREM HeaderReadBack ==
    ASSUME NEW m, IsHeader(m), m.length \in 0 .. MaxLength,
           NEW b, Holds(b, 1, HeaderWire(m))
    PROVE  /\ HeaderWire(m) \in Bytes
           /\ Parse(b).err = IF LengthEnds(b) = {} THEN "MALFORMED_REMAIN_LENGTH" ELSE "NO_ERROR"
           /\ LengthEnds(b) # {} =>
                Parse(b).msg = ParseBody(b, 2 + LengthBytes(b), ParseHeader(b))
           /\ ParseHeader(b).type = m.type /\ ParseHeader(b).qos = m.qos
           /\ ParseHeader(b).retain = m.retain /\ ParseHeader(b).dup = FALSE
           /\ m.length = 0 => Len(HeaderWire(m)) = 1
           /\ m.length # 0 => /\ LengthEnds(b) # {} /\ ParseHeader(b).length = m.length
                              /\ 2 + LengthBytes(b) = 1 + Len(HeaderWire(m))
<1>. DEFINE first == <<FirstByte(m)>>
            rest == RemainEncode(m.length)
<1>1. /\ m.length = 0 => rest = <<>>
      /\ m.length # 0 => m.length \in 1 .. MaxLength
      /\ Len(<<>>) = 0
  BY HeaderParts
<1>2. rest \in Bytes
  BY HeaderParts
<1>4. first \in Bytes /\ Len(first) = 1
  BY HeaderParts
<1>5. HeaderWire(m) = first \o rest
  BY HeaderParts
<1>6. HeaderWire(m) \in Bytes /\ Len(HeaderWire(m)) = 1 + Len(rest)
  BY HeaderParts
<1>. HIDE DEF first, rest
<1>7. Holds(b, 1, first) /\ Holds(b, 2, rest)
  <2>1. 1 \in Nat /\ 1 + 1 = 2
    OBVIOUS
  <2>2. Holds(b, 1, first \o rest)
    BY <1>5, Zenon
  <2>3. Holds(b, 1, first) /\ Holds(b, 1 + Len(first), rest)
    BY <1>2, <1>4, <2>1, <2>2, HoldsParts
  <2>. QED
    BY <2>1, <2>3, <1>4, Zenon
<1>8. /\ TypeAt(b) = m.type /\ HeaderError(TypeAt(b), ByteAt(b, 1) % 16) = "NO_ERROR"
      /\ ParseHeader(b).type = m.type /\ ParseHeader(b).qos = m.qos
      /\ ParseHeader(b).retain = m.retain /\ ParseHeader(b).dup = FALSE
  BY <1>7, FirstByteReadBack DEF first
<1>9. TypeAt(b) # "RESERVED"
  <2>1. \A t \in Range(MessageType) : t # "RESERVED"
    BY DEF Range, MessageType
  <2>. QED
    BY <1>8, <2>1 DEF IsHeader
<1>10. /\ Parse(b).err = IF LengthEnds(b) = {} THEN "MALFORMED_REMAIN_LENGTH" ELSE "NO_ERROR"
       /\ LengthEnds(b) # {} =>
            Parse(b).msg = ParseBody(b, 2 + LengthBytes(b), ParseHeader(b))
  BY <1>8, <1>9 DEF Parse, Failure
<1>11. m.length = 0 => Len(HeaderWire(m)) = 1
  BY <1>1, <1>6
<1>12. ASSUME m.length # 0
       PROVE  /\ LengthEnds(b) # {} /\ ParseHeader(b).length = m.length
              /\ 2 + LengthBytes(b) = 1 + Len(HeaderWire(m))
  <2>1. /\ LengthEnds(b) # {} /\ LengthBytes(b) = Len(rest) /\ LengthBytes(b) \in 1 .. 4
        /\ RemainDecode(b) = m.length
    BY <1>1, <1>7, <1>12, LengthReadBack DEF rest
  <2>2. ParseHeader(b).length = m.length
    BY <2>1 DEF ParseHeader
  <2>. QED
    BY <2>1, <2>2, <1>6
<1>. QED
  BY <1>6, <1>8, <1>10, <1>11, <1>12

\* What the parser of a body sets, and what it leaves of the header.
LEMMA FilledIn ==
    ASSUME NEW b, NEW id, NEW body
    PROVE  LET h == ParseHeader(b)
               Kept(g) == /\ g.type = h.type /\ g.dup = h.dup /\ g.qos = h.qos
                          /\ g.retain = h.retain /\ g.length = h.length
           IN  /\ LET g == [h EXCEPT !.id = id, !.body = body]
                  IN  Kept(g) /\ g.id = id /\ g.body = body
               /\ LET g == [h EXCEPT !.id = id] IN Kept(g) /\ g.id = id /\ g.body = <<>>
               /\ LET g == [h EXCEPT !.body = body] IN Kept(g) /\ g.id = Unset /\ g.body = body
BY DEF ParseHeader

-----------------------------------------------------------------------------
(***************************************************************************)
(* The bodies.  h is the header that has been read, i where the body is.   *)
(***************************************************************************)
AckTypes == {"PUBACK", "PUBREC", "PUBREL", "PUBCOMP", "UNSUBACK"}

LEMMA AckBody ==
    ASSUME NEW m, m.type \in AckTypes, m.id \in Uint16,
           NEW b, NEW i \in Nat, ParseHeader(b).type = m.type, Holds(b, i, BodyWire(m))
    PROVE  /\ BodyWire(m) \in Bytes
           /\ ParseBody(b, i, ParseHeader(b)) = [ParseHeader(b) EXCEPT !.id = m.id]
<1>. DEFINE h == ParseHeader(b)
<1>1. BodyWire(m) = Number(m.id)
  BY DEF AckTypes, BodyWire, UnsubackWire, AckWire
<1>2. NumberAt(b, i) = m.id
  BY <1>1, NumberReadBack
<1>. HIDE DEF h
<1>3. ParseBody(b, i, h) = [h EXCEPT !.id = NumberAt(b, i)]
  <2>1. h.type \in AckTypes
    BY DEF h
  <2>. QED
    BY <2>1 DEF AckTypes, ParseBody, ParseAck, ParseUnsuback
<1>. QED
  BY <1>1, <1>2, <1>3, NumberType DEF h

BareTypes == {"PINGREQ", "PINGRESP", "DISCONNECT"}

LEMMA BareBody ==
    ASSUME NEW m, m.type \in BareTypes,
           NEW b, NEW i \in Nat, ParseHeader(b).type = m.type
    PROVE  /\ BodyWire(m) \in Bytes
           /\ ParseBody(b, i, ParseHeader(b)) = ParseHeader(b)
<1>. DEFINE h == ParseHeader(b)
<1>1. BodyWire(m) = <<>> /\ <<>> \in Bytes
  BY DEF BareTypes, BodyWire, BareWire, Bytes
<1>. HIDE DEF h
<1>2. ParseBody(b, i, h) = h
  <2>1. h.type \in BareTypes
    BY DEF h
  <2>. QED
    BY <2>1 DEF BareTypes, ParseBody, ParseBare
<1>. QED
  BY <1>1, <1>2 DEF h

\* Two bytes, or one that is followed by a 0 and says that all is well.
LEMMA ConnackBody ==
    ASSUME NEW m, m.type = "CONNACK", m.body \in [sessionPresent : BOOLEAN, returnCode : Byte],
           NEW b, NEW i \in Nat, ParseHeader(b).type = m.type, Holds(b, i, BodyWire(m)),
           ~m.body.sessionPresent => m.body.returnCode = 0 /\ ByteAt(b, i + 1) = 0
    PROVE  ParseBody(b, i, ParseHeader(b)) = [ParseHeader(b) EXCEPT !.body = m.body]
<1>. DEFINE h == ParseHeader(b)
<1>1. PICK sp \in BOOLEAN, code \in Byte :
        /\ m.body = [sessionPresent |-> sp, returnCode |-> code]
        /\ ~sp => code = 0 /\ ByteAt(b, i + 1) = 0
  BY Zenon
<1>2. BodyWire(m) = (IF sp THEN <<1>> ELSE <<>>) \o <<code>>
  <2>1. m.body.sessionPresent = sp /\ m.body.returnCode = code
    BY <1>1
  <2>2. BodyWire(m) = ConnackWire(m.body)
    BY DEF BodyWire
  <2>. QED
    BY <2>1, <2>2 DEF ConnackWire
<1>3. (ByteAt(b, i) = 1) = sp /\ ByteAt(b, i + 1) = code
  <2>1. CASE sp
    <3>1. BodyWire(m) = <<1>> \o <<code>>
      BY <2>1, <1>2
    <3>2. <<1>> \in Bytes /\ <<code>> \in Bytes /\ Len(<<1>>) = 1
      BY DEF Bytes, Byte
    <3>3. Holds(b, i, <<1>> \o <<code>>)
      BY <3>1, Zenon
    <3>4. Holds(b, i, <<1>>) /\ Holds(b, i + Len(<<1>>), <<code>>)
      BY <3>2, <3>3, HoldsParts
    <3>5. Holds(b, i, <<1>>) /\ Holds(b, i + 1, <<code>>)
      BY <3>2, <3>4, Zenon
    <3>6. i + 1 - 1 = i /\ (i + 1) + 1 - 1 = i + 1
      OBVIOUS
    <3>7. i \in DOMAIN b /\ b[i] = 1 /\ i + 1 \in DOMAIN b /\ b[i + 1] = code
      BY <3>5, <3>6 DEF Holds
    <3>. QED
      BY <3>7, <2>1 DEF ByteAt
  <2>2. CASE ~sp
    <3>1. BodyWire(m) = <<0>> /\ code = 0 /\ ByteAt(b, i + 1) = 0
      BY <2>2, <1>1, <1>2
    <3>2. Holds(b, i, <<0>>)
      BY <3>1, Zenon
    <3>3. i \in DOMAIN b /\ b[i] = 0
      <4>1. i + 1 - 1 = i
        OBVIOUS
      <4>. QED
        BY <3>2, <4>1 DEF Holds
    <3>4. ByteAt(b, i) = 0
      BY <3>3 DEF ByteAt
    <3>. QED
      BY <3>1, <3>4, <2>2
  <2>. QED
    BY <2>1, <2>2
<1>. HIDE DEF h
<1>4. ParseBody(b, i, h) =
        [h EXCEPT !.body = [sessionPresent |-> (ByteAt(b, i) = 1), returnCode |-> ByteAt(b, i + 1)]]
  <2>1. h.type = "CONNACK"
    BY DEF h
  <2>. QED
    BY <2>1 DEF ParseBody, ParseConnack
<1>. QED
  BY <1>1, <1>3, <1>4 DEF h

\* One code for each topic.
LEMMA SubackBody ==
    ASSUME NEW m, m.type = "SUBACK", m.id \in Uint16, m.body \in Bytes,
           m.length = 2 + Len(m.body),
           NEW b, NEW i \in Nat, ParseHeader(b).type = m.type, ParseHeader(b).length = m.length,
           Holds(b, i, BodyWire(m))
    PROVE  /\ BodyWire(m) \in Bytes
           /\ ParseBody(b, i, ParseHeader(b)) = [ParseHeader(b) EXCEPT !.id = m.id, !.body = m.body]
<1>. DEFINE h == ParseHeader(b)
<1>1. BodyWire(m) = Number(m.id) \o m.body
  BY DEF BodyWire, SubackWire
<1>2. Number(m.id) \in Bytes /\ Len(Number(m.id)) = 2
  BY NumberType
<1>3. BodyWire(m) \in Bytes
  BY <1>1, <1>2, ConcatProperties DEF Bytes
<1>4. Holds(b, i, Number(m.id)) /\ Holds(b, i + 2, m.body)
  <2>1. Holds(b, i, Number(m.id) \o m.body)
    BY <1>1, Zenon
  <2>2. Holds(b, i, Number(m.id)) /\ Holds(b, i + Len(Number(m.id)), m.body)
    BY <1>2, <2>1, HoldsParts
  <2>. QED
    BY <1>2, <2>2, Zenon
<1>5. NumberAt(b, i) = m.id
  BY <1>4, NumberReadBack
<1>6. PICK n \in Nat : n = Len(m.body)
  BY DEF Bytes
<1>7. [k \in 1 .. h.length - 2 |-> ByteAt(b, i + 1 + k)] = m.body
  <2>1. 1 .. h.length - 2 = 1 .. n
    BY <1>6
  <2>2. ASSUME NEW k \in 1 .. n PROVE ByteAt(b, i + 1 + k) = m.body[k]
    <3>1. i + 2 + k - 1 = i + 1 + k
      OBVIOUS
    <3>2. i + 1 + k \in DOMAIN b /\ b[i + 1 + k] = m.body[k]
      BY <1>4, <1>6, <3>1 DEF Holds
    <3>. QED
      BY <3>2 DEF ByteAt
  <2>3. m.body = [k \in 1 .. n |-> m.body[k]]
    BY <1>6 DEF Bytes
  <2>. QED
    BY <2>1, <2>2, <2>3
<1>. HIDE DEF h
<1>8. ParseBody(b, i, h) =
        [h EXCEPT !.id = NumberAt(b, i), !.body = [k \in 1 .. h.length - 2 |-> ByteAt(b, i + 1 + k)]]
  <2>1. h.type = "SUBACK"
    BY DEF h
  <2>. QED
    BY <2>1 DEF ParseBody, ParseSuback
<1>. QED
  BY <1>3, <1>5, <1>7, <1>8 DEF h

LEMMA StringsType ==
    ASSUME NEW ss \in Seq(Short)
    PROVE  Strings(ss) \in Bytes
<1>1. Encoded(ss) \in Seq(Bytes)
  BY EncodedType
<1>2. FlattenSeq(Encoded(ss)) \in Bytes
  BY <1>1, FlattenType DEF Bytes
<1>. QED
  BY <1>2 DEF Strings, Encoded

\* A sequence that begins as another does.
LEMMA Begins ==
    ASSUME NEW S, NEW s \in Seq(S), NEW t, NEW n \in Nat, DOMAIN t = 1 .. n, Len(t) = n,
           Len(s) <= n, \A k \in 1 .. Len(s) : t[k] = s[k]
    PROVE  IsPrefix(s, t)
<1>1. Len(s) \in Nat
  OBVIOUS
<1>2. SubSeq(s, 1, Len(s)) = [k \in 1 .. Len(s) |-> s[k]]
  <2>1. SubSeq(s, 1, Len(s)) = [k \in 1 .. (1 + Len(s) - 1) |-> s[k + 1 - 1]]
    OBVIOUS
  <2>. QED
    BY <2>1
<1>3. SubSeq(t, 1, Len(s)) = [k \in 1 .. Len(s) |-> t[k]]
  OBVIOUS
<1>. QED
  BY <1>2, <1>3 DEF IsPrefix

\* The topics of an UNSUBSCRIBE are the first of those that are read.
LEMMA UnsubscribeBody ==
    ASSUME NEW m, m.type = "UNSUBSCRIBE", m.id \in Uint16, m.body \in Seq(Short),
           m.length \in Nat, m.length >= 2 + Len(m.body),
           NEW b \in Bytes, NEW i \in Nat, ParseHeader(b).type = m.type,
           ParseHeader(b).length = m.length, Holds(b, i, BodyWire(m))
    PROVE  /\ BodyWire(m) \in Bytes
           /\ \E body : /\ IsPrefix(m.body, body)
                        /\ ParseBody(b, i, ParseHeader(b))
                             = [ParseHeader(b) EXCEPT !.id = m.id, !.body = body]
<1>. DEFINE h == ParseHeader(b)
            n == m.length - 2
            body == StringsAt(b, i + 2, n)
<1>1. BodyWire(m) = Number(m.id) \o Strings(m.body)
  BY DEF BodyWire, UnsubscribeWire
<1>2. Number(m.id) \in Bytes /\ Len(Number(m.id)) = 2 /\ Strings(m.body) \in Bytes
  BY NumberType, StringsType
<1>3. BodyWire(m) \in Bytes
  BY <1>1, <1>2, ConcatProperties DEF Bytes
<1>4. Holds(b, i, Number(m.id)) /\ Holds(b, i + 2, Strings(m.body))
  <2>1. Holds(b, i, Number(m.id) \o Strings(m.body))
    BY <1>1, Zenon
  <2>2. Holds(b, i, Number(m.id)) /\ Holds(b, i + Len(Number(m.id)), Strings(m.body))
    BY <1>2, <2>1, HoldsParts
  <2>. QED
    BY <1>2, <2>2, Zenon
<1>5. NumberAt(b, i) = m.id
  BY <1>4, NumberReadBack
<1>6. Len(m.body) \in Nat /\ n \in Nat /\ Len(m.body) <= n
  OBVIOUS
<1>7. \A k \in 1 .. Len(m.body) : body[k] = m.body[k]
  <2>. TAKE k \in 1 .. Len(m.body)
  <2>1. i + 2 \in Nat \ {0} /\ k \in 1 .. n /\ k <= Len(m.body)
    BY <1>6
  <2>. HIDE DEF n
  <2>. QED
    BY <1>4, <1>6, <2>1, StringsReadBack
<1>8. DOMAIN body = 1 .. n /\ Len(body) = n
  BY <1>6 DEF StringsAt
<1>9. IsPrefix(m.body, body)
  <2>. HIDE DEF body, n
  <2>. QED
    BY <1>6, <1>7, <1>8, Begins
<1>. HIDE DEF h, body
<1>10. ParseBody(b, i, h) = [h EXCEPT !.id = NumberAt(b, i), !.body = body]
  <2>1. h.type = "UNSUBSCRIBE" /\ h.length - 2 = n
    BY DEF h
  <2>. QED
    BY <2>1 DEF ParseBody, ParseUnsubscribe, body
<1>. QED
  BY <1>3, <1>5, <1>9, <1>10 DEF h

-----------------------------------------------------------------------------
(***************************************************************************)
(* The topics of a SUBSCRIBE.                                              *)
(***************************************************************************)
TopicNames(topics) == [k \in DOMAIN topics |-> topics[k].topic]
EncodedTopics(topics) ==
    [k \in DOMAIN topics |-> Append(UTF8_encode(topics[k].topic), topics[k].qos)]

LEMMA EncodedTopicsType ==
    ASSUME NEW topics \in Seq(Wants)
    PROVE  /\ Len(topics) \in Nat /\ DOMAIN topics = 1 .. Len(topics)
           /\ EncodedTopics(topics) \in Seq(Bytes) /\ Len(EncodedTopics(topics)) = Len(topics)
           /\ TopicNames(topics) \in Seq(Short) /\ TopicNames(topics) \in Seq(Bytes)
           /\ Len(TopicNames(topics)) = Len(topics)
           /\ \A k \in 1 .. Len(topics) :
                /\ topics[k] \in Wants /\ topics[k].topic \in Short /\ topics[k].qos \in 0 .. 2
                /\ TopicNames(topics)[k] = topics[k].topic
                /\ EncodedTopics(topics)[k] = UTF8_encode(topics[k].topic) \o <<topics[k].qos>>
                /\ Len(EncodedTopics(topics)[k]) = (2 + Len(topics[k].topic)) + 1
<1>1. Len(topics) \in Nat /\ DOMAIN topics = 1 .. Len(topics)
  BY LenProperties
<1>2. ASSUME NEW k \in 1 .. Len(topics)
      PROVE  /\ topics[k] \in Wants /\ topics[k].topic \in Short /\ topics[k].qos \in 0 .. 2
             /\ Append(UTF8_encode(topics[k].topic), topics[k].qos)
                  = UTF8_encode(topics[k].topic) \o <<topics[k].qos>>
             /\ Append(UTF8_encode(topics[k].topic), topics[k].qos) \in Bytes
             /\ Len(UTF8_encode(topics[k].topic) \o <<topics[k].qos>>)
                  = (2 + Len(topics[k].topic)) + 1
  <2>1. topics[k] \in Wants
    BY ElementOfSeq
  <2>2. PICK s \in Short, q \in 0 .. 2 : topics[k].topic = s /\ topics[k].qos = q
    BY <2>1 DEF Wants
  <2>3. s \in Bytes /\ Len(s) \in Uint16 /\ q \in Byte
    BY ShortLen DEF Byte
  <2>4. PICK e \in Bytes : e = UTF8_encode(s) /\ Len(e) = 2 + Len(s)
    BY <2>3, EncodeType
  <2>5. /\ Append(e, q) = e \o <<q>> /\ Append(e, q) \in Bytes /\ Len(Append(e, q)) = Len(e) + 1
    BY <2>3, AppendProperties, AppendIsConcat DEF Bytes
  <2>. QED
    BY <2>1, <2>2, <2>4, <2>5, Zenon
<1>3. EncodedTopics(topics) \in [1 .. Len(topics) -> Bytes]
  BY <1>1, <1>2 DEF EncodedTopics
<1>4. TopicNames(topics) \in [1 .. Len(topics) -> Short]
  BY <1>1, <1>2 DEF TopicNames
<1>5. /\ EncodedTopics(topics) \in Seq(Bytes) /\ Len(EncodedTopics(topics)) = Len(topics)
      /\ TopicNames(topics) \in Seq(Short) /\ Len(TopicNames(topics)) = Len(topics)
  BY <1>1, <1>3, <1>4
<1>6. TopicNames(topics) \in [1 .. Len(topics) -> Bytes]
  BY <1>4, ShortLen
<1>7. TopicNames(topics) \in Seq(Bytes)
  BY <1>1, <1>6
<1>. QED
  BY <1>1, <1>2, <1>5, <1>7 DEF EncodedTopics, TopicNames

\* The first elements of a sequence, at least one if it has any.
Part(s, t) ==
    /\ IsPrefix(s, t) /\ (t # <<>> => s # <<>>) /\ Len(s) <= Len(t)
    /\ \A S : t \in Seq(S) => s \in Seq(S)

\* The announced length, short as it is, has the parser take the first of the
\* topics that were sent, and only them.
LEMMA TopicsReadBack ==
    ASSUME NEW topics \in Seq(Wants), NEW b \in Bytes, NEW i \in Nat \ {0},
           Holds(b, i, FlattenSeq(EncodedTopics(topics))),
           NEW bytes \in Nat, bytes = Len(topics) + TotalLen(TopicNames(topics))
    PROVE  Part(TopicsAt(b, i, bytes), topics)
<1>. DEFINE es == EncodedTopics(topics)
            tt == TopicNames(topics)
            N == Len(topics)
            next == [j \in Nat |-> After(b, j) + 1]
            at == Iterate(next, i)
            qos(k) == ByteAt(b, After(b, at[k]))
            ends == {k \in 0 .. bytes : at[k] - i >= bytes \/ qos(k) >= 3}
            n == CHOOSE k \in ends : \A j \in ends : k <= j
            read == [k \in 1 .. n |-> [topic |-> UTF8_decode(b, at[k - 1]), qos |-> qos(k - 1)]]
<1>1. TopicsAt(b, i, bytes) = read
  BY Zenon DEF TopicsAt
<1>2. /\ N \in Nat /\ DOMAIN topics = 1 .. N
      /\ es \in Seq(Bytes) /\ Len(es) = N /\ tt \in Seq(Bytes) /\ Len(tt) = N
      /\ \A k \in 1 .. N :
           /\ topics[k] \in Wants /\ topics[k].topic \in Short /\ topics[k].qos \in 0 .. 2
           /\ tt[k] = topics[k].topic
           /\ es[k] = UTF8_encode(topics[k].topic) \o <<topics[k].qos>>
           /\ Len(es[k]) = (2 + Len(topics[k].topic)) + 1
  BY EncodedTopicsType
<1>3. Holds(b, i, FlattenSeq(es)) /\ bytes = N + Len(FlattenSeq(tt))
  BY DEF TotalLen
<1>. HIDE DEF es, tt, N
<1>4. ASSUME NEW k \in 1 .. N
      PROVE  /\ Place(es, i, k) \in Nat
             /\ UTF8_decode(b, Place(es, i, k)) = topics[k].topic
             /\ ByteAt(b, After(b, Place(es, i, k))) = topics[k].qos
             /\ next[Place(es, i, k)] = Place(es, i, k) + Len(es[k])
  <2>1. PICK s \in Short, q \in 0 .. 2 : s = topics[k].topic /\ q = topics[k].qos
    BY <1>2
  <2>2. s \in Bytes /\ Len(s) \in Uint16 /\ Len(s) \in Nat /\ <<q>> \in Bytes /\ Len(<<q>>) = 1
    BY ShortLen DEF Bytes, Byte
  <2>3. UTF8_encode(s) \in Bytes /\ Len(UTF8_encode(s)) = 2 + Len(s)
    BY <2>2, EncodeType
  <2>4. PICK p \in Nat \ {0}, l \in Nat : p = Place(es, i, k) /\ l = Len(s)
    <3>1. Place(es, i, k) \in Nat /\ Place(es, i, k) >= i
      BY <1>2, Places
    <3>2. Place(es, i, k) \in Nat \ {0}
      BY <3>1
    <3>. QED
      BY <2>2, <3>2
  <2>5. Holds(b, p, UTF8_encode(s) \o <<q>>)
    <3>1. Holds(b, Place(es, i, k), es[k])
      BY <1>2, <1>3, PlacesHold
    <3>. QED
      BY <1>2, <2>1, <2>4, <3>1, Zenon
  <2>6. Holds(b, p, UTF8_encode(s)) /\ Holds(b, p + (2 + l), <<q>>)
    <3>1. Holds(b, p, UTF8_encode(s)) /\ Holds(b, p + Len(UTF8_encode(s)), <<q>>)
      BY <2>2, <2>3, <2>5, HoldsParts
    <3>. QED
      BY <2>3, <2>4, <3>1, Zenon
  <2>7. UTF8_decode(b, p) = s /\ After(b, p) = p + 2 + l
    BY <2>2, <2>4, <2>6, StringReadBack
  <2>8. ByteAt(b, p + 2 + l) = q
    <3>1. p + (2 + l) + 1 - 1 = p + 2 + l /\ 1 \in 1 .. Len(<<q>>) /\ <<q>>[1] = q
      OBVIOUS
    <3>2. p + 2 + l \in DOMAIN b /\ b[p + 2 + l] = q
      BY <2>6, <3>1 DEF Holds
    <3>. QED
      BY <3>2 DEF ByteAt
  <2>9. next[p] = p + ((2 + l) + 1)
    BY <2>7
  <2>10. Len(es[k]) = (2 + l) + 1
    BY <1>2, <2>1, <2>4, Zenon
  <2>. HIDE DEF next
  <2>. QED
    BY <2>1, <2>4, <2>7, <2>8, <2>9, <2>10, Zenon
<1>. HIDE DEF next
<1>5. \A k \in 0 .. N : at[k] = Place(es, i, k + 1)
  <2>1. i \in Nat /\ \A k \in 1 .. Len(es) : next[Place(es, i, k)] = Place(es, i, k) + Len(es[k])
    BY <1>2, <1>4
  <2>2. \A k \in 0 .. Len(es) : at[k] = Place(es, i, k + 1)
    BY <1>2, <2>1, FieldsFound
  <2>. QED
    BY <1>2, <2>2
<1>. HIDE DEF at
<1>6. ASSUME NEW k \in 1 .. N
      PROVE  UTF8_decode(b, at[k - 1]) = topics[k].topic /\ qos(k - 1) = topics[k].qos
  <2>1. k - 1 \in 0 .. N /\ (k - 1) + 1 = k
    BY <1>2
  <2>2. at[k - 1] = Place(es, i, k)
    BY <1>5, <2>1
  <2>. QED
    BY <1>4, <2>2, Zenon
<1>7. N \in ends
  <2>1. PICK x, y \in Nat : x = Len(FlattenSeq(es)) /\ y = Len(FlattenSeq(tt))
    <3>1. FlattenSeq(es) \in Bytes /\ FlattenSeq(tt) \in Bytes
      BY <1>2, FlattenType DEF Bytes
    <3>2. \A s \in Bytes : Len(s) \in Nat
      BY DEF Bytes
    <3>. QED
      BY <3>1, <3>2
  <2>2. x >= y + N
    <3>1. ASSUME NEW k \in 1 .. N PROVE Len(es[k]) >= Len(tt[k]) + 1
      <4>1. PICK s \in Short : s = topics[k].topic
        BY <1>2
      <4>2. PICK l \in Nat : l = Len(s)
        BY ShortLen
      <4>3. Len(es[k]) = (2 + l) + 1 /\ Len(tt[k]) = l
        BY <1>2, <4>1, <4>2, Zenon
      <4>. QED
        BY <4>3
    <3>2. Len(FlattenSeq(es)) >= Len(FlattenSeq(tt)) + Len(es)
      BY <1>2, <3>1, FlattenLonger
    <3>. QED
      BY <1>2, <2>1, <3>2
  <2>3. at[N] = i + x
    <3>1. Place(es, i, Len(es) + 1) = i + Len(FlattenSeq(es))
      BY <1>2, Places
    <3>2. N \in 0 .. N
      BY <1>2
    <3>. QED
      BY <1>2, <1>5, <2>1, <3>1, <3>2
  <2>4. bytes = N + y
    BY <1>3, <2>1, Zenon
  <2>5. at[N] - i >= bytes /\ N \in 0 .. bytes
    BY <1>2, <2>2, <2>3, <2>4
  <2>. QED
    BY <2>5
<1>8. n \in ends /\ \A j \in ends : n <= j
  <2>. HIDE DEF ends
  <2>1. ends \subseteq Nat /\ ends # {}
    BY <1>7 DEF ends
  <2>. QED
    BY <2>1, LeastNumber
<1>9. n \in Nat /\ n <= N
  <2>1. ends \subseteq Nat
    OBVIOUS
  <2>. HIDE DEF ends, n
  <2>. QED
    BY <1>7, <1>8, <2>1
<1>10. ASSUME N # 0 PROVE n # 0
  <2>1. 1 \in 1 .. N /\ bytes >= 1
    <3>1. Len(FlattenSeq(tt)) \in Nat
      <4>1. FlattenSeq(tt) \in Bytes
        BY <1>2, FlattenType DEF Bytes
      <4>. QED
        BY <4>1 DEF Bytes
    <3>. QED
      BY <1>2, <1>3, <1>10, <3>1
  <2>2. at[0] = i
    <3>1. 0 \in 0 .. N /\ 0 + 1 = 1
      BY <1>2
    <3>2. at[0] = Place(es, i, 1)
      BY <1>5, <3>1
    <3>3. Place(es, i, 1) = i
      BY <1>2, Places
    <3>. QED
      BY <3>2, <3>3
  <2>3. qos(0) \in 0 .. 2
    <3>1. 1 - 1 = 0
      OBVIOUS
    <3>. QED
      BY <1>2, <1>6, <2>1, <3>1
  <2>4. 0 \notin ends
    BY <2>1, <2>2, <2>3
  <2>. QED
    BY <1>8, <2>4
<1>. HIDE DEF ends, n, qos
<1>11. \A k \in 1 .. n : k \in 1 .. N /\ read[k] = topics[k]
  <2>. TAKE k \in 1 .. n
  <2>1. k \in 1 .. N
    BY <1>2, <1>9
  <2>2. read[k] = [topic |-> topics[k].topic, qos |-> topics[k].qos]
    BY <1>6, <2>1
  <2>3. topics[k] = [topic |-> topics[k].topic, qos |-> topics[k].qos]
    <3>1. topics[k] \in Wants
      BY <1>2, <2>1
    <3>. QED
      BY <3>1 DEF Wants
  <2>. QED
    BY <2>1, <2>2, <2>3
<1>12. Len(read) = n /\ \A S : topics \in Seq(S) => read \in Seq(S)
  <2>1. DOMAIN read = 1 .. n /\ read = [k \in 1 .. n |-> read[k]]
    OBVIOUS
  <2>. HIDE DEF read
  <2>2. ASSUME NEW S, topics \in Seq(S)
        PROVE  read \in Seq(S) /\ Len(read) = n
    <3>1. \A k \in 1 .. n : read[k] \in S
      BY <1>2, <1>11, <2>2
    <3>2. read \in [1 .. n -> S]
      BY <2>1, <3>1
    <3>. QED
      BY <1>9, <3>2
  <2>. QED
    BY <1>2, <1>9, <2>2
<1>. HIDE DEF read
<1>13. IsPrefix(read, topics)
  <2>1. Len(topics) = N
    BY DEF N
  <2>2. \A k \in 1 .. Len(read) : topics[k] = read[k]
    BY <1>11, <1>12
  <2>. QED
    <3>1. read \in Seq(Wants) /\ Len(topics) \in Nat /\ DOMAIN topics = 1 .. Len(topics)
      BY <1>2, <1>12
    <3>. QED
      BY <1>2, <1>9, <1>12, <2>1, <2>2, <3>1, Begins
<1>14. topics # <<>> => read # <<>>
  <2>1. topics # <<>> => N # 0
    BY EmptySeq DEF N
  <2>2. read = <<>> => Len(read) = 0
    BY EmptySeq
  <2>. QED
    BY <1>10, <1>12, <2>1, <2>2
<1>15. Len(read) <= Len(topics)
  BY <1>2, <1>9, <1>12 DEF N
<1>. QED
  BY <1>1, <1>12, <1>13, <1>14, <1>15, Zenon DEF Part

LEMMA SubscribeBody ==
    ASSUME NEW m, m.type = "SUBSCRIBE", m.id \in Uint16, m.body \in Seq(Wants),
           m.length = 2 + Len(m.body) + TotalLen(TopicNames(m.body)),
           NEW b \in Bytes, NEW i \in Nat, ParseHeader(b).type = m.type,
           ParseHeader(b).length = m.length, Holds(b, i, BodyWire(m))
    PROVE  /\ BodyWire(m) \in Bytes
           /\ \E body : /\ Part(body, m.body)
                        /\ ParseBody(b, i, ParseHeader(b))
                             = [ParseHeader(b) EXCEPT !.id = m.id, !.body = body]
<1>. DEFINE h == ParseHeader(b)
            es == EncodedTopics(m.body)
            bytes == Len(m.body) + TotalLen(TopicNames(m.body))
            body == TopicsAt(b, i + 2, bytes)
<1>1. BodyWire(m) = Number(m.id) \o FlattenSeq(es)
  BY DEF BodyWire, SubscribeWire, EncodedTopics
<1>2. Number(m.id) \in Bytes /\ Len(Number(m.id)) = 2
  BY NumberType
<1>3. FlattenSeq(es) \in Bytes /\ FlattenSeq(TopicNames(m.body)) \in Bytes
  <2>1. es \in Seq(Bytes) /\ TopicNames(m.body) \in Seq(Bytes)
    BY EncodedTopicsType
  <2>. QED
    BY <2>1, FlattenType DEF Bytes
<1>. HIDE DEF es
<1>4. BodyWire(m) \in Bytes
  BY <1>1, <1>2, <1>3, ConcatProperties DEF Bytes
<1>5. Holds(b, i, Number(m.id)) /\ Holds(b, i + 2, FlattenSeq(es))
  <2>1. Holds(b, i, Number(m.id) \o FlattenSeq(es))
    BY <1>1, Zenon
  <2>2. Holds(b, i, Number(m.id)) /\ Holds(b, i + Len(Number(m.id)), FlattenSeq(es))
    BY <1>2, <1>3, <2>1, HoldsParts
  <2>. QED
    BY <1>2, <2>2, Zenon
<1>6. NumberAt(b, i) = m.id
  BY <1>5, NumberReadBack
<1>7. bytes \in Nat /\ m.length - 2 = bytes
  <2>1. PICK x, y \in Nat : x = Len(m.body) /\ y = TotalLen(TopicNames(m.body))
    <3>1. \A s \in Bytes : Len(s) \in Nat
      BY DEF Bytes
    <3>2. Len(m.body) \in Nat
      OBVIOUS
    <3>. QED
      BY <1>3, <3>1, <3>2 DEF TotalLen
  <2>2. m.length = 2 + x + y /\ bytes = x + y
    BY <2>1, Zenon
  <2>. QED
    BY <2>2
<1>8. Part(body, m.body)
  <2>1. i + 2 \in Nat \ {0}
    OBVIOUS
  <2>. HIDE DEF bytes
  <2>2. bytes = Len(m.body) + TotalLen(TopicNames(m.body))
    BY DEF bytes
  <2>. QED
    BY <1>5, <1>7, <2>1, <2>2, TopicsReadBack DEF es
<1>. HIDE DEF h, body, bytes
<1>9. ParseBody(b, i, h) = [h EXCEPT !.id = NumberAt(b, i), !.body = body]
  <2>1. h.type = "SUBSCRIBE" /\ h.length - 2 = bytes
    BY <1>7 DEF h
  <2>. QED
    BY <2>1 DEF ParseBody, ParseSubscribe, body
<1>. QED
  BY <1>4, <1>6, <1>8, <1>9 DEF h

\* What becomes of the header h of a PUBLISH.
PublishRead(g, h) ==
    \E id, topic, payload :
        /\ PublishStops(topic) => payload = <<>>
        /\ \/ g = [h EXCEPT !.id = id, !.body = [topic |-> topic, payload |-> payload]]
           \/ g = [h EXCEPT !.body = [topic |-> topic, payload |-> payload]]

\* Of a PUBLISH the topic that is read has nothing to do with what was sent,
\* and no payload is read unless that topic has wildcards of both kinds.
LEMMA PublishBody ==
    ASSUME NEW m, m.type = "PUBLISH", m.id \in Uint16, m.body.payload \in Bytes,
           NEW b, NEW i \in Nat, ParseHeader(b).type = m.type
    PROVE  /\ BodyWire(m) \in Bytes
           /\ PublishRead(ParseBody(b, i, ParseHeader(b)), ParseHeader(b))
<1>. DEFINE h == ParseHeader(b)
            topic == UTF8_decode(b, i)
            skip == Bit(h.qos > 0, 2)
<1>1. BodyWire(m) \in Bytes
  <2>1. BodyWire(m) = (IF m.qos > 0 THEN Number(m.id) ELSE <<>>) \o m.body.payload
    BY DEF BodyWire, PublishWire
  <2>2. Number(m.id) \in Bytes /\ <<>> \in Bytes
    BY NumberType DEF Bytes
  <2>. QED
    BY <2>1, <2>2, ConcatProperties DEF Bytes
<1>. HIDE DEF h
<1>2. ParseBody(b, i, h) =
        IF PublishStops(topic) THEN [h EXCEPT !.body = [topic |-> topic, payload |-> <<>>]]
        ELSE [h EXCEPT !.id = IF h.qos > 0 THEN NumberAt(b, After(b, i)) ELSE Unset,
                       !.body = [topic |-> topic,
                                 payload |-> PublishPayload(b, After(b, i) + skip, h.length - skip)]]
  <2>1. h.type = "PUBLISH"
    BY DEF h
  <2>. QED
    BY <2>1 DEF ParseBody, ParsePublish
<1>3. CASE PublishStops(topic)
  BY <1>1, <1>2, <1>3 DEF h, PublishRead
<1>4. CASE ~PublishStops(topic)
  <2>. HIDE DEF topic, skip
  <2>. QED
    BY <1>1, <1>2, <1>4 DEF h, PublishRead
<1>. QED
  BY <1>3, <1>4

-----------------------------------------------------------------------------
(***************************************************************************)
(* CONNECT.                                                                *)
(***************************************************************************)
ConnectBodies == [keepAlive : Uint16, clientID : Short, clean : BOOLEAN, will : Wills,
                  user : Users \cup {NoUser}]

\* The connect flags, each at its bit.
FlagByte(clean, qos, retain, passwd, name) ==
    Bit(clean, 2) + 4 + 8 * qos + Bit(retain, 32) + (Bit(passwd, 64) + Bit(name, 128))

FlagsSound(clean, qos, retain, passwd, name) ==
    LET flags == FlagByte(clean, qos, retain, passwd, name)
    IN  /\ flags \in Byte /\ IsSet(flags, 1) = FALSE /\ IsSet(flags, 2) = clean
        /\ IsSet(flags, 4) = TRUE /\ (flags \div 8) % 4 = qos /\ IsSet(flags, 32) = retain
        /\ IsSet(flags, 64) = passwd /\ IsSet(flags, 128) = name

LEMMA FlagBits ==
    ASSUME NEW clean \in BOOLEAN, NEW qos \in 0 .. 2, NEW retain \in BOOLEAN,
           NEW passwd \in BOOLEAN, NEW name \in BOOLEAN
    PROVE  FlagsSound(clean, qos, retain, passwd, name)
<1>. DEFINE flags == FlagByte(clean, qos, retain, passwd, name)
<1>1. PICK c, r, p, n \in {0, 1} :
        /\ (c = 1) = clean /\ (r = 1) = retain /\ (p = 1) = passwd /\ (n = 1) = name
        /\ flags = 2 * c + 4 + 8 * qos + 32 * r + (64 * p + 128 * n)
  <2>1. \A x \in BOOLEAN : \A w \in Nat : \E y \in {0, 1} : (y = 1) = x /\ Bit(x, w) = w * y
    BY DEF Bit
  <2>2. PICK c \in {0, 1} : (c = 1) = clean /\ Bit(clean, 2) = 2 * c
    BY <2>1
  <2>3. PICK r \in {0, 1} : (r = 1) = retain /\ Bit(retain, 32) = 32 * r
    BY <2>1
  <2>4. PICK p \in {0, 1} : (p = 1) = passwd /\ Bit(passwd, 64) = 64 * p
    BY <2>1
  <2>5. PICK n \in {0, 1} : (n = 1) = name /\ Bit(name, 128) = 128 * n
    BY <2>1
  <2>6. flags = 2 * c + 4 + 8 * qos + 32 * r + (64 * p + 128 * n)
    BY <2>2, <2>3, <2>4, <2>5, Zenon DEF FlagByte
  <2>. HIDE DEF flags
  <2>. QED
    BY <2>2, <2>3, <2>4, <2>5, <2>6
<1>. HIDE DEF flags
<1>2. flags \in Byte
  BY <1>1 DEF Byte
<1>3. flags \div 1 = flags /\ flags % 2 = 0
  BY <1>1
<1>4. (flags \div 2) % 2 = c /\ (flags \div 4) % 2 = 1
  BY <1>1
<1>5. (flags \div 8) % 4 = qos /\ (flags \div 32) % 2 = r
  BY <1>1
<1>6. (flags \div 64) % 2 = p /\ (flags \div 128) % 2 = n
  BY <1>1
<1>7. /\ IsSet(flags, 1) = FALSE /\ IsSet(flags, 2) = (c = 1) /\ IsSet(flags, 4) = TRUE
      /\ IsSet(flags, 32) = (r = 1) /\ IsSet(flags, 64) = (p = 1) /\ IsSet(flags, 128) = (n = 1)
  BY <1>1, <1>3, <1>4, <1>5, <1>6 DEF IsSet
<1>8. /\ flags \in Byte /\ IsSet(flags, 1) = FALSE /\ IsSet(flags, 2) = clean
      /\ IsSet(flags, 4) = TRUE /\ (flags \div 8) % 4 = qos /\ IsSet(flags, 32) = retain
      /\ IsSet(flags, 64) = passwd /\ IsSet(flags, 128) = name
  BY <1>1, <1>2, <1>5, <1>7
<1>. QED
  BY <1>8, Zenon DEF flags, FlagsSound

LEMMA ConcatLen ==
    ASSUME NEW s \in Bytes, NEW t \in Bytes
    PROVE  s \o t \in Bytes /\ Len(s \o t) = Len(s) + Len(t)
BY ConcatProperties DEF Bytes

LEMMA FourInUint16 == 4 \in Uint16
BY DEF Uint16

\* The fixed part of a CONNECT, and the strings behind it.
LEMMA ConnectLayout ==
    ASSUME NEW c, NEW b \in Bytes, NEW i \in Nat \ {0}, Holds(b, i, ConnectWire(c)),
           c.keepAlive \in Uint16, ConnectFlags(c) \in Byte, ConnectStrings(c) \in Seq(Short)
    PROVE  /\ ConnectWire(c) \in Bytes
           /\ UTF8_decode(b, i) = Protocol /\ After(b, i) = i + 6 /\ ByteAt(b, i + 6) = Level
           /\ ByteAt(b, (i + 6) + 1) = ConnectFlags(c)
           /\ NumberAt(b, ((i + 6) + 1) + 1) = c.keepAlive
           /\ Holds(b, ((i + 6) + 1) + 3, Strings(ConnectStrings(c)))
<1>. DEFINE head == UTF8_encode(Protocol)
            mid == <<Level, ConnectFlags(c)>>
            num == Number(c.keepAlive)
            tail == Strings(ConnectStrings(c))
<1>1. Protocol \in Bytes /\ Len(Protocol) = 4 /\ Len(Protocol) \in Uint16
  <2>1. Protocol \in Bytes /\ Len(Protocol) = 4
    BY DEF Protocol, Bytes, Byte
  <2>. QED
    BY <2>1, FourInUint16, Zenon
<1>2. head \in Bytes /\ Len(head) = 6
  <2>1. head \in Bytes /\ Len(head) = 2 + Len(Protocol)
    BY <1>1, EncodeType
  <2>. QED
    BY <1>1, <2>1
<1>3. mid \in Bytes /\ Len(mid) = 2
  BY DEF Bytes, Byte, Level
<1>4. num \in Bytes /\ Len(num) = 2 /\ tail \in Bytes
  BY NumberType, StringsType
<1>. HIDE DEF head, mid, num, tail
<1>5. ConnectWire(c) = ((head \o mid) \o num) \o tail
  BY DEF ConnectWire, head, mid, num, tail
<1>. DEFINE w2 == head \o mid
            w3 == w2 \o num
            w4 == w3 \o tail
<1>6. /\ w2 \in Bytes /\ Len(w2) = 6 + 2
      /\ Holds(b, i, w2) <=> Holds(b, i, head) /\ Holds(b, i + 6, mid)
  <2>1. i \in Nat
    OBVIOUS
  <2>2. /\ w2 \in Bytes /\ Len(w2) = 6 + Len(mid)
        /\ Holds(b, i, w2) <=> Holds(b, i, head) /\ Holds(b, i + 6, mid)
    <3>1. head \in Bytes /\ mid \in Bytes /\ Len(head) = 6
      BY <1>2, <1>3, <2>1
    <3>2. w2 \in Bytes /\ Len(w2) = Len(head) + Len(mid)
      BY <3>1, ConcatLen
    <3>3. Holds(b, i, w2) <=> Holds(b, i, head) /\ Holds(b, i + Len(head), mid)
      BY <2>1, <3>1, HoldsParts
    <3>. QED
      BY <3>1, <3>2, <3>3, Zenon
  <2>. QED
    BY <1>3, <2>2, Zenon
<1>. HIDE DEF w2
<1>7. /\ w3 \in Bytes /\ Len(w3) = 8 + 2
      /\ Holds(b, i, w3) <=> Holds(b, i, w2) /\ Holds(b, i + 8, num)
  <2>1. i \in Nat /\ Len(w2) = 8
    BY <1>6
  <2>2. /\ w3 \in Bytes /\ Len(w3) = 8 + Len(num)
        /\ Holds(b, i, w3) <=> Holds(b, i, w2) /\ Holds(b, i + 8, num)
    <3>1. w2 \in Bytes /\ num \in Bytes /\ Len(w2) = 8
      BY <1>4, <1>6, <2>1
    <3>2. w3 \in Bytes /\ Len(w3) = Len(w2) + Len(num)
      BY <3>1, ConcatLen
    <3>3. Holds(b, i, w3) <=> Holds(b, i, w2) /\ Holds(b, i + Len(w2), num)
      BY <2>1, <3>1, HoldsParts
    <3>. QED
      BY <3>1, <3>2, <3>3, Zenon
  <2>. QED
    BY <1>4, <2>2, Zenon
<1>. HIDE DEF w3
<1>8. /\ w4 \in Bytes
      /\ Holds(b, i, w4) <=> Holds(b, i, w3) /\ Holds(b, i + 10, tail)
  <2>1. i \in Nat /\ Len(w3) = 10
    BY <1>7
  <2>. QED
    <3>1. w3 \in Bytes /\ tail \in Bytes /\ Len(w3) = 10
      BY <1>4, <1>7, <2>1
    <3>2. w4 \in Bytes /\ Len(w4) = Len(w3) + Len(tail)
      BY <3>1, ConcatLen
    <3>3. Holds(b, i, w4) <=> Holds(b, i, w3) /\ Holds(b, i + Len(w3), tail)
      BY <2>1, <3>1, HoldsParts
    <3>. QED
      BY <3>1, <3>2, <3>3, Zenon
<1>9. ConnectWire(c) = w4
  BY <1>5 DEF w3, w2
<1>10. /\ Holds(b, i, head) /\ Holds(b, i + 6, mid) /\ Holds(b, i + 8, num)
       /\ Holds(b, i + 10, tail)
  BY <1>6, <1>7, <1>8, <1>9, Zenon
<1>11. UTF8_decode(b, i) = Protocol /\ After(b, i) = i + 6
  <2>1. UTF8_decode(b, i) = Protocol /\ After(b, i) = i + 2 + Len(Protocol)
    BY <1>1, <1>10, StringReadBack DEF head
  <2>. QED
    BY <1>1, <2>1
<1>12. ByteAt(b, i + 6) = Level /\ ByteAt(b, (i + 6) + 1) = ConnectFlags(c)
  <2>1. /\ 1 \in 1 .. Len(mid) /\ mid[1] = Level /\ (i + 6) + 1 - 1 = i + 6
        /\ 2 \in 1 .. Len(mid) /\ mid[2] = ConnectFlags(c) /\ (i + 6) + 2 - 1 = (i + 6) + 1
    BY <1>3 DEF mid
  <2>2. /\ i + 6 \in DOMAIN b /\ b[i + 6] = Level
        /\ (i + 6) + 1 \in DOMAIN b /\ b[(i + 6) + 1] = ConnectFlags(c)
    BY <1>10, <2>1 DEF Holds
  <2>. QED
    BY <2>2 DEF ByteAt
<1>13. NumberAt(b, i + 8) = c.keepAlive
  <2>1. i + 8 \in Nat
    OBVIOUS
  <2>. QED
    BY <1>10, <2>1, NumberReadBack DEF num
<1>14. ((i + 6) + 1) + 1 = i + 8 /\ ((i + 6) + 1) + 3 = i + 10
  OBVIOUS
<1>15. ConnectWire(c) \in Bytes
  BY <1>8, <1>9, Zenon
<1>. QED
  BY <1>10, <1>11, <1>12, <1>13, <1>14, <1>15, Zenon DEF tail

LEMMA NonEmptyIs ==
    ASSUME NEW s \in Short
    PROVE  \E x \in {0, 1} :
             /\ s # <<>> <=> x = 1
             /\ NonEmpty(s) \in Seq(Short) /\ Len(NonEmpty(s)) = x
             /\ x = 1 => NonEmpty(s)[1] = s
<1>1. CASE s = <<>>
  <2>1. NonEmpty(s) = <<>> /\ <<>> \in Seq(Short) /\ Len(<<>>) = 0
    BY <1>1 DEF NonEmpty
  <2>2. /\ s # <<>> <=> 0 = 1
        /\ 0 = 1 => NonEmpty(s)[1] = s
    BY <1>1
  <2>3. NonEmpty(s) \in Seq(Short) /\ Len(NonEmpty(s)) = 0
    BY <2>1, Zenon
  <2>. WITNESS 0 \in {0, 1}
  <2>. QED
    BY <2>2, <2>3
<1>2. CASE s # <<>>
  <2>1. NonEmpty(s) = <<s>> /\ <<s>> \in Seq(Short) /\ Len(<<s>>) = 1
    BY <1>2 DEF NonEmpty
  <2>. QED
    BY <1>2, <2>1
<1>. QED
  BY <1>1, <1>2

\* The strings of a CONNECT: three, and what there is of name and password,
\* of which there are x and y.
LEMMA ConnectStringsAre ==
    ASSUME NEW c, NEW id \in Short, NEW topic \in Short, NEW message \in Short,
           c.clientID = id, c.will.topic = topic, c.will.message = message,
           c.user # NoUser => c.user.name \in Short /\ c.user.passwd \in Short
    PROVE  \E x, y \in {0, 1} :
             LET ss == ConnectStrings(c)
             IN  /\ (c.user # NoUser /\ c.user.name # <<>>) <=> x = 1
                 /\ (c.user # NoUser /\ c.user.passwd # <<>>) <=> y = 1
                 /\ ss \in Seq(Short) /\ Len(ss) = 3 + (x + y)
                 /\ ss[1] = id /\ ss[2] = topic /\ ss[3] = message
                 /\ x = 1 => ss[4] = c.user.name
                 /\ y = 1 => ss[3 + (x + y)] = c.user.passwd
<1>. DEFINE ss == ConnectStrings(c)
            three == <<id, topic, message>>
            rest == IF c.user = NoUser THEN <<>> ELSE NonEmpty(c.user.name) \o NonEmpty(c.user.passwd)
<1>1. ss = three \o rest
  BY DEF ConnectStrings
<1>2. /\ three \in Seq(Short) /\ Len(three) = 3
      /\ three[1] = id /\ three[2] = topic /\ three[3] = message
  OBVIOUS
<1>3. PICK x, y \in {0, 1} :
        /\ (c.user # NoUser /\ c.user.name # <<>>) <=> x = 1
        /\ (c.user # NoUser /\ c.user.passwd # <<>>) <=> y = 1
        /\ rest \in Seq(Short) /\ Len(rest) = x + y
        /\ x = 1 => rest[1] = c.user.name
        /\ y = 1 => rest[x + y] = c.user.passwd
  <2>1. <<>> \in Seq(Short) /\ Len(<<>>) = 0 + 0
    OBVIOUS
  <2>2. CASE c.user = NoUser
    <3>1. rest = <<>>
      BY <2>2
    <3>. HIDE DEF rest
    <3>. QED
      BY <2>1, <2>2, <3>1
  <2>3. CASE c.user # NoUser
    <3>1. PICK u \in Short, p \in Short : u = c.user.name /\ p = c.user.passwd
      BY <2>3
    <3>2. rest = NonEmpty(u) \o NonEmpty(p)
      BY <2>3, <3>1
    <3>. HIDE DEF rest
    <3>3. PICK x \in {0, 1} : /\ u # <<>> <=> x = 1
                              /\ NonEmpty(u) \in Seq(Short) /\ Len(NonEmpty(u)) = x
                              /\ x = 1 => NonEmpty(u)[1] = u
      BY NonEmptyIs
    <3>4. PICK y \in {0, 1} : /\ p # <<>> <=> y = 1
                              /\ NonEmpty(p) \in Seq(Short) /\ Len(NonEmpty(p)) = y
                              /\ y = 1 => NonEmpty(p)[1] = p
      BY NonEmptyIs
    <3>5. /\ rest \in Seq(Short) /\ Len(rest) = x + y
          /\ \A k \in 1 .. x + y : rest[k] = IF k <= x THEN NonEmpty(u)[k] ELSE NonEmpty(p)[k - x]
      BY <3>2, <3>3, <3>4, ConcatProperties
    <3>6. x = 1 => rest[1] = u
      BY <3>3, <3>4, <3>5
    <3>7. y = 1 => rest[x + y] = p
      BY <3>3, <3>4, <3>5
    <3>. QED
      BY <2>3, <3>1, <3>3, <3>4, <3>5, <3>6, <3>7
  <2>. QED
    BY <2>2, <2>3
<1>. HIDE DEF ss, three, rest
<1>4. PICK n \in 0 .. 2 : n = x + y /\ (x = 1 => n >= 1) /\ (y = 1 => n >= 1)
  OBVIOUS
<1>5. /\ ss \in Seq(Short) /\ Len(ss) = 3 + n
      /\ \A k \in 1 .. 3 + n : ss[k] = IF k <= 3 THEN three[k] ELSE rest[k - 3]
  <2>1. /\ ss \in Seq(Short) /\ Len(ss) = Len(three) + Len(rest)
        /\ \A k \in 1 .. Len(three) + Len(rest) :
             ss[k] = IF k <= Len(three) THEN three[k] ELSE rest[k - Len(three)]
    BY <1>1, <1>2, <1>3, ConcatProperties
  <2>. QED
    BY <1>2, <1>3, <1>4, <2>1
<1>6. ss[1] = id /\ ss[2] = topic /\ ss[3] = message
  BY <1>2, <1>5
<1>7. x = 1 => ss[4] = c.user.name
  <2>1. x = 1 => 4 \in 1 .. 3 + n /\ ~(4 <= 3) /\ 4 - 3 = 1
    BY <1>4
  <2>. QED
    BY <1>3, <1>5, <2>1
<1>8. y = 1 => ss[3 + n] = c.user.passwd
  <2>1. y = 1 => 3 + n \in 1 .. 3 + n /\ ~(3 + n <= 3) /\ (3 + n) - 3 = n
    BY <1>4
  <2>. QED
    BY <1>3, <1>4, <1>5, <2>1
<1>. QED
  BY <1>3, <1>4, <1>5, <1>6, <1>7, <1>8 DEF ss

\* A CONNECT is read as AsRead says.
LEMMA ConnectBody ==
    ASSUME NEW m, m.type = "CONNECT", m.body \in ConnectBodies,
           NEW b \in Bytes, NEW i \in Nat \ {0}, ParseHeader(b).type = m.type,
           Holds(b, i, BodyWire(m))
    PROVE  /\ BodyWire(m) \in Bytes
           /\ ParseBody(b, i, ParseHeader(b)) = [ParseHeader(b) EXCEPT !.body = AsRead(m.body)]
<1>. DEFINE h == ParseHeader(b)
            c == m.body
            flags == ConnectFlags(c)
            ss == ConnectStrings(c)
            j == (i + 6) + 1
<1>1. PICK keepAlive \in Uint16, id \in Short, clean \in BOOLEAN, will \in Wills,
           user \in Users \cup {NoUser} :
        c = [keepAlive |-> keepAlive, clientID |-> id, clean |-> clean, will |-> will, user |-> user]
  BY DEF ConnectBodies
<1>2. PICK topic \in Short, message \in Short, retain \in BOOLEAN, qos \in 0 .. 2 :
        will = [topic |-> topic, message |-> message, retain |-> retain, qos |-> qos]
  BY DEF Wills
<1>3. user # NoUser => /\ user.name \in Short /\ user.passwd \in Short
                       /\ user = [name |-> user.name, passwd |-> user.passwd]
  BY DEF Users
<1>4. /\ c.keepAlive = keepAlive /\ c.clientID = id /\ c.clean = clean /\ c.user = user
      /\ c.will = will /\ c.will.topic = topic /\ c.will.message = message
      /\ c.will.qos = qos /\ c.will.retain = retain
  BY <1>1, <1>2
<1>. HIDE DEF c
<1>5. PICK x, y \in {0, 1} :
        /\ (c.user # NoUser /\ c.user.name # <<>>) <=> x = 1
        /\ (c.user # NoUser /\ c.user.passwd # <<>>) <=> y = 1
        /\ ss \in Seq(Short) /\ Len(ss) = 3 + (x + y)
        /\ ss[1] = id /\ ss[2] = topic /\ ss[3] = message
        /\ x = 1 => ss[4] = c.user.name
        /\ y = 1 => ss[3 + (x + y)] = c.user.passwd
  BY <1>3, <1>4, ConnectStringsAre
<1>6. PICK hasName \in BOOLEAN, hasPasswd \in BOOLEAN :
        (hasName <=> x = 1) /\ (hasPasswd <=> y = 1)
  OBVIOUS
<1>20. /\ flags \in Byte /\ IsSet(flags, 1) = FALSE /\ IsSet(flags, 2) = clean
       /\ IsSet(flags, 4) = TRUE /\ (flags \div 8) % 4 = qos /\ IsSet(flags, 32) = retain
       /\ IsSet(flags, 64) = hasPasswd /\ IsSet(flags, 128) = hasName
  <2>1. /\ hasName <=> (c.user # NoUser /\ c.user.name # <<>>)
        /\ hasPasswd <=> (c.user # NoUser /\ c.user.passwd # <<>>)
    BY <1>5, <1>6
  <2>2. flags = FlagByte(clean, qos, retain, hasPasswd, hasName)
    <3>. DEFINE strings == Bit(hasPasswd, 64) + Bit(hasName, 128)
    <3>1. strings = IF c.user = NoUser THEN 0
                    ELSE Bit(c.user.passwd # <<>>, 64) + Bit(c.user.name # <<>>, 128)
      <4>1. CASE c.user = NoUser
        BY <2>1, <4>1 DEF Bit
      <4>2. CASE c.user # NoUser
        BY <2>1, <4>2 DEF Bit
      <4>. QED
        BY <4>1, <4>2
    <3>. QED
      BY <1>4, <3>1, Zenon DEF ConnectFlags, FlagByte
  <2>3. FlagsSound(clean, qos, retain, hasPasswd, hasName)
    BY FlagBits, Zenon
  <2>. QED
    BY <2>2, <2>3, Zenon DEF FlagsSound
<1>. HIDE DEF flags, ss
<1>7. BodyWire(m) = ConnectWire(c)
  BY DEF BodyWire, c
<1>8. /\ ConnectWire(c) \in Bytes
      /\ UTF8_decode(b, i) = Protocol /\ After(b, i) = i + 6 /\ ByteAt(b, i + 6) = Level
      /\ ByteAt(b, j) = flags /\ NumberAt(b, j + 1) = keepAlive
      /\ Holds(b, j + 3, Strings(ss))
  <2>1. Holds(b, i, ConnectWire(c)) /\ c.keepAlive \in Uint16
    BY <1>4, <1>7, Zenon
  <2>2. ConnectFlags(c) \in Byte /\ ConnectStrings(c) \in Seq(Short)
    BY <1>5, <1>20 DEF flags, ss
  <2>3. /\ ConnectWire(c) \in Bytes
        /\ UTF8_decode(b, i) = Protocol /\ After(b, i) = i + 6 /\ ByteAt(b, i + 6) = Level
        /\ ByteAt(b, (i + 6) + 1) = ConnectFlags(c)
        /\ NumberAt(b, ((i + 6) + 1) + 1) = c.keepAlive
        /\ Holds(b, ((i + 6) + 1) + 3, Strings(ConnectStrings(c)))
    BY <2>1, <2>2, ConnectLayout
  <2>. QED
    BY <1>4, <2>3, Zenon DEF flags, ss
<1>9. ParseConnect(b, i) = IF hasPasswd /\ ~hasName THEN NoFields ELSE ConnectFields(b, j)
  <2>1. ParseConnect(b, i) =
          IF \/ UTF8_decode(b, i) # Protocol \/ ByteAt(b, i + 6) # Level
             \/ IsSet(flags, 1) \/ (IsSet(flags, 64) /\ ~IsSet(flags, 128))
          THEN NoFields ELSE ConnectFields(b, j)
    BY <1>8, Zenon DEF ParseConnect
  <2>. QED
    BY <1>8, <1>20, <2>1, Zenon
<1>. DEFINE n == 1 + Bit(TRUE, 2) + Bit(hasName, 1) + Bit(hasPasswd, 1)
            rr == StringsAt(b, j + 3, n)
<1>10. n = 3 + (x + y)
  BY <1>6 DEF Bit
<1>. HIDE DEF n
<1>11. \A k \in 1 .. 3 + (x + y) : rr[k] = ss[k]
  <2>. TAKE k \in 1 .. 3 + (x + y)
  <2>1. j + 3 \in Nat \ {0} /\ n \in Nat /\ k \in 1 .. n
    BY <1>10
  <2>2. k <= Len(ss)
    BY <1>5
  <2>. QED
    BY <1>5, <1>8, <2>1, <2>2, StringsReadBack
<1>12. Len(rr) = 3 + (x + y)
  BY <1>10 DEF StringsAt
<1>. HIDE DEF rr
<1>13. /\ rr[1] = id /\ rr[2] = topic /\ rr[3] = message
       /\ x = 1 => rr[4] = user.name
       /\ y = 1 => Last(rr) = user.passwd
  <2>1. /\ 1 \in 1 .. 3 + (x + y) /\ 2 \in 1 .. 3 + (x + y) /\ 3 \in 1 .. 3 + (x + y)
        /\ x = 1 => 4 \in 1 .. 3 + (x + y)
        /\ 3 + (x + y) \in 1 .. 3 + (x + y)
    OBVIOUS
  <2>2. Last(rr) = rr[3 + (x + y)]
    BY <1>12 DEF Last
  <2>. QED
    BY <1>4, <1>5, <1>11, <2>1, <2>2
<1>14. ConnectFields(b, j) =
         [keepAlive |-> keepAlive, clientID |-> rr[1], clean |-> clean,
          will |-> [topic |-> rr[2], message |-> rr[3], retain |-> retain, qos |-> qos],
          user |-> IF hasName \/ hasPasswd
                   THEN [name |-> IF hasName THEN rr[2 + Bit(TRUE, 2)] ELSE <<>>,
                         passwd |-> IF hasPasswd THEN Last(rr) ELSE <<>>]
                   ELSE Unset]
  <2>. DEFINE F(w4, w128, w64, w2, w32, q) ==
                LET strings == StringsAt(b, j + 3, 1 + Bit(w4, 2) + Bit(w128, 1) + Bit(w64, 1))
                IN  [keepAlive |-> NumberAt(b, j + 1), clientID |-> strings[1], clean |-> w2,
                     will |-> IF w4 THEN [topic |-> strings[2], message |-> strings[3],
                                          retain |-> w32, qos |-> q]
                              ELSE Unset,
                     user |-> IF w128 \/ w64
                              THEN [name |-> IF w128 THEN strings[2 + Bit(w4, 2)] ELSE <<>>,
                                    passwd |-> IF w64 THEN Last(strings) ELSE <<>>]
                              ELSE Unset]
  <2>1. ConnectFields(b, j) = F(IsSet(flags, 4), IsSet(flags, 128), IsSet(flags, 64),
                                IsSet(flags, 2), IsSet(flags, 32), (flags \div 8) % 4)
    BY <1>8, Zenon DEF ConnectFields
  <2>. HIDE DEF F
  <2>2. ConnectFields(b, j) = F(TRUE, hasName, hasPasswd, clean, retain, qos)
    BY <1>20, <2>1, Zenon
  <2>. QED
    BY <1>8, <2>2, Zenon DEF F, rr, n
<1>15. ParseConnect(b, i) = AsRead(c)
  <2>0. 2 + Bit(TRUE, 2) = 4
    BY DEF Bit
  <2>1. CASE hasPasswd /\ ~hasName
    <3>1. c.user # NoUser /\ c.user.name = <<>> /\ c.user.passwd # <<>>
      BY <1>5, <1>6, <2>1
    <3>. QED
      BY <3>1, <2>1, <1>9 DEF AsRead
  <2>2. CASE hasName
    <3>1. c.user # NoUser /\ c.user.name # <<>>
      BY <1>5, <1>6, <2>2
    <3>2. AsRead(c) = c
      BY <3>1 DEF AsRead
    <3>3. (IF hasPasswd THEN Last(rr) ELSE <<>>) = user.passwd
      BY <1>4, <1>5, <1>6, <1>13, <3>1
    <3>4. ParseConnect(b, i) = ConnectFields(b, j)
      BY <1>9, <2>2
    <3>5. ConnectFields(b, j) =
            [keepAlive |-> keepAlive, clientID |-> id, clean |-> clean,
             will |-> [topic |-> topic, message |-> message, retain |-> retain, qos |-> qos],
             user |-> [name |-> user.name, passwd |-> user.passwd]]
      BY <1>6, <1>13, <1>14, <2>0, <2>2, <3>3
    <3>. QED
      BY <1>1, <1>2, <1>3, <1>4, <3>1, <3>2, <3>4, <3>5 DEF c
  <2>3. CASE ~hasName /\ ~hasPasswd
    <3>1. c.user = NoUser \/ (c.user.name = <<>> /\ c.user.passwd = <<>>)
      BY <1>5, <1>6, <2>3
    <3>2. AsRead(c) = [c EXCEPT !.user = Unset]
      BY <3>1 DEF AsRead
    <3>3. ParseConnect(b, i) = ConnectFields(b, j)
      BY <1>9, <2>3
    <3>4. ConnectFields(b, j) =
            [keepAlive |-> keepAlive, clientID |-> id, clean |-> clean,
             will |-> [topic |-> topic, message |-> message, retain |-> retain, qos |-> qos],
             user |-> Unset]
      BY <1>13, <1>14, <2>3
    <3>. QED
      BY <1>1, <1>2, <3>2, <3>3, <3>4 DEF c
  <2>. QED
    BY <2>1, <2>2, <2>3
<1>. HIDE DEF h
<1>16. ParseBody(b, i, h) = [h EXCEPT !.body = ParseConnect(b, i)]
  <2>1. h.type = "CONNECT"
    BY DEF h
  <2>. QED
    BY <2>1 DEF ParseBody
<1>. QED
  BY <1>7, <1>8, <1>15, <1>16 DEF h, c

-----------------------------------------------------------------------------
(***************************************************************************)
(* Whole messages.                                                         *)
(***************************************************************************)
LEMMA TypesAre ==
    ASSUME NEW type \in Range(MessageType)
    PROVE  \/ type \in {"CONNECT", "CONNACK", "PUBLISH", "SUBSCRIBE", "SUBACK", "UNSUBSCRIBE"}
           \/ type \in AckTypes \/ type \in BareTypes
BY DEF Range, MessageType, AckTypes, BareTypes

\* A message as the constructors make it of strings that fit their lengths.
IsMessage(m) ==
    /\ IsHeader(m) /\ m.length \in 0 .. MaxLength /\ m.id \in Uint16
    /\ m.length = 0 <=> m.type \in BareTypes
    /\ m.type = "CONNECT" => m.body \in ConnectBodies
    /\ m.type = "CONNACK" => m.body \in [sessionPresent : BOOLEAN, returnCode : Byte]
    /\ m.type = "PUBLISH" => m.body.payload \in Bytes
    /\ m.type = "SUBSCRIBE" =>
         /\ m.body \in Seq(Wants)
         /\ m.length = 2 + Len(m.body) + TotalLen(TopicNames(m.body))
    /\ m.type = "SUBACK" => m.body \in Bytes /\ m.length = 2 + Len(m.body)
    /\ m.type = "UNSUBSCRIBE" => m.body \in Seq(Short) /\ m.length >= 2 + Len(m.body)

LEMMA ConnectType ==
    ASSUME NEW c, c \in ConnectBodies
    PROVE  ConnectWire(c) \in Bytes
<1>1. PICK keepAlive \in Uint16, id \in Short, clean \in BOOLEAN, will \in Wills,
           user \in Users \cup {NoUser} :
        c = [keepAlive |-> keepAlive, clientID |-> id, clean |-> clean, will |-> will, user |-> user]
  BY DEF ConnectBodies
<1>2. PICK topic \in Short, message \in Short, retain \in BOOLEAN, qos \in 0 .. 2 :
        will = [topic |-> topic, message |-> message, retain |-> retain, qos |-> qos]
  BY DEF Wills
<1>3. user # NoUser => user.name \in Short /\ user.passwd \in Short
  BY DEF Users
<1>4. /\ c.keepAlive = keepAlive /\ c.clientID = id /\ c.clean = clean /\ c.user = user
      /\ c.will.topic = topic /\ c.will.message = message
      /\ c.will.qos = qos /\ c.will.retain = retain
  BY <1>1, <1>2
<1>5. ConnectStrings(c) \in Seq(Short)
  <2>1. c.user # NoUser => c.user.name \in Short /\ c.user.passwd \in Short
    BY <1>3, <1>4
  <2>. QED
    BY <1>4, <2>1, ConnectStringsAre
<1>6. ConnectFlags(c) \in Byte
  <2>. DEFINE strings == IF c.user = NoUser THEN 0
                         ELSE Bit(c.user.passwd # <<>>, 64) + Bit(c.user.name # <<>>, 128)
  <2>1. PICK v \in {0, 2}, w \in {0, 32}, s \in {0, 64, 128, 192} :
          v = Bit(c.clean, 2) /\ w = Bit(c.will.retain, 32) /\ s = strings
    BY DEF Bit
  <2>2. ConnectFlags(c) = v + 4 + 8 * qos + w + s
    BY <1>4, <2>1, Zenon DEF ConnectFlags
  <2>. QED
    BY <2>2 DEF Byte
<1>. DEFINE head == UTF8_encode(Protocol)
            mid == <<Level, ConnectFlags(c)>>
            num == Number(c.keepAlive)
            tail == Strings(ConnectStrings(c))
<1>7. ConnectWire(c) = ((head \o mid) \o num) \o tail
  BY Zenon DEF ConnectWire
<1>8. head \in Bytes
  <2>1. Protocol \in Bytes /\ Len(Protocol) = 4
    BY DEF Protocol, Bytes, Byte
  <2>. QED
    BY <2>1, EncodeType, FourInUint16
<1>9. mid \in Bytes
  BY <1>6 DEF Bytes, Byte, Level
<1>10. num \in Bytes
  BY <1>4, NumberType
<1>11. tail \in Bytes
  BY <1>5, StringsType
<1>. HIDE DEF head, mid, num, tail
<1>12. head \o mid \in Bytes
  BY <1>8, <1>9, ConcatLen
<1>13. (head \o mid) \o num \in Bytes
  BY <1>10, <1>12, ConcatLen
<1>14. ((head \o mid) \o num) \o tail \in Bytes
  BY <1>11, <1>13, ConcatLen
<1>. QED
  BY <1>7, <1>14

LEMMA BodyType ==
    ASSUME NEW m, IsMessage(m)
    PROVE  BodyWire(m) \in Bytes
<1>. m.type \in Range(MessageType) /\ m.id \in Uint16
  BY DEF IsMessage, IsHeader
<1>1. Number(m.id) \in Bytes
  BY NumberType
<1>2. CASE m.type = "CONNECT"
  <2>1. m.body \in ConnectBodies
    BY <1>2 DEF IsMessage
  <2>2. ConnectWire(m.body) \in Bytes
    BY <2>1, ConnectType
  <2>. QED
    BY <1>2, <2>2 DEF BodyWire
<1>3. CASE m.type = "CONNACK"
  <2>1. m.body.returnCode \in Byte
    BY <1>3 DEF IsMessage
  <2>. DEFINE present == IF m.body.sessionPresent THEN <<1>> ELSE <<>>
              code == <<m.body.returnCode>>
  <2>3. present \in Bytes /\ code \in Bytes
    <3>1. <<>> \in Bytes /\ <<1>> \in Bytes
      BY DEF Bytes, Byte
    <3>2. code \in Bytes
      BY <2>1 DEF Bytes
    <3>. QED
      BY <3>1, <3>2
  <2>. HIDE DEF present, code
  <2>4. present \o code \in Bytes
    BY <2>3, ConcatLen
  <2>2. ConnackWire(m.body) \in Bytes
    BY <2>4 DEF ConnackWire, present, code
  <2>. QED
    BY <1>3, <2>2 DEF BodyWire
<1>4. CASE m.type = "PUBLISH"
  <2>1. m.body.payload \in Bytes /\ <<>> \in Bytes
    BY <1>4 DEF IsMessage, Bytes
  <2>2. PublishWire(m) \in Bytes
    BY <1>1, <2>1, ConcatLen DEF PublishWire
  <2>. QED
    BY <1>4, <2>2 DEF BodyWire
<1>5. CASE m.type = "SUBSCRIBE"
  <2>1. m.body \in Seq(Wants)
    BY <1>5 DEF IsMessage
  <2>2. EncodedTopics(m.body) \in Seq(Bytes)
    BY <2>1, EncodedTopicsType
  <2>3. FlattenSeq(EncodedTopics(m.body)) \in Bytes
    BY <2>2, FlattenType DEF Bytes
  <2>4. SubscribeWire(m) = Number(m.id) \o FlattenSeq(EncodedTopics(m.body))
    BY Zenon DEF SubscribeWire, EncodedTopics
  <2>5. SubscribeWire(m) \in Bytes
    BY <1>1, <2>3, <2>4, ConcatLen
  <2>. QED
    BY <1>5, <2>5 DEF BodyWire
<1>6. CASE m.type = "SUBACK"
  <2>1. m.body \in Bytes
    BY <1>6 DEF IsMessage
  <2>2. SubackWire(m) \in Bytes
    BY <1>1, <2>1, ConcatLen DEF SubackWire
  <2>. QED
    BY <1>6, <2>2 DEF BodyWire
<1>7. CASE m.type = "UNSUBSCRIBE"
  <2>1. m.body \in Seq(Short)
    BY <1>7 DEF IsMessage
  <2>2. Strings(m.body) \in Bytes
    BY <2>1, StringsType
  <2>3. Number(m.id) \o Strings(m.body) \in Bytes
    BY <1>1, <2>2, ConcatLen
  <2>. QED
    BY <1>7, <2>3 DEF BodyWire, UnsubscribeWire
<1>8. CASE m.type \in AckTypes
  BY <1>1, <1>8 DEF BodyWire, AckTypes, AckWire, UnsubackWire
<1>9. CASE m.type \in BareTypes
  BY <1>9 DEF BodyWire, BareTypes, BareWire, Bytes
<1>. QED
  BY <1>2, <1>3, <1>4, <1>5, <1>6, <1>7, <1>8, <1>9, TypesAre DEF AckTypes, BareTypes

\* A message is a sequence of bytes on the wire, its header first.
THEOREM WireType ==
    ASSUME NEW m, IsMessage(m)
    PROVE  /\ HeaderWire(m) \in Bytes /\ BodyWire(m) \in Bytes /\ Wire(m) \in Bytes
           /\ Len(Wire(m)) = Len(HeaderWire(m)) + Len(BodyWire(m))
<1>1. IsHeader(m) /\ m.length \in 0 .. MaxLength
  BY DEF IsMessage
<1>2. HeaderWire(m) \in Bytes
  BY <1>1, HeaderParts
<1>3. BodyWire(m) \in Bytes
  BY BodyType
<1>4. /\ HeaderWire(m) \o BodyWire(m) \in Bytes
      /\ Len(HeaderWire(m) \o BodyWire(m)) = Len(HeaderWire(m)) + Len(BodyWire(m))
  BY <1>2, <1>3, ConcatLen
<1>. QED
  BY <1>2, <1>3, <1>4, Zenon DEF Wire

\* What the handler is given, as Faithful says, and a little more: the topics of
\* a SUBSCRIBE are the first of those that were sent, and a payload is read only
\* with a topic that has wildcards of both kinds.
Arrives(m, g) ==
    /\ Faithful(m, g)
    /\ m.type = "SUBSCRIBE" => Part(g.body, m.body)
    /\ m.type = "PUBLISH" /\ PublishStops(g.body.topic) => g.body.payload = <<>>

\* Whatever a buffer holds behind it, a message at its beginning reaches the
\* handler as Faithful says.  Only a message without a length may be refused
\* instead: no byte says that it has none, and the byte that follows it in the
\* buffer is taken for its length.  A CONNACK without a session, which is one
\* byte short, is read well as long as it carries no error and what follows it
\* begins with 0.
THEOREM MessageReadBack ==
    ASSUME NEW m, IsMessage(m), NEW b \in Bytes, Holds(b, 1, Wire(m)),
           m.type = "CONNACK" /\ ~m.body.sessionPresent
             => m.body.returnCode = 0 /\ ByteAt(b, Len(Wire(m)) + 1) = 0
    PROVE  /\ Parse(b).err = "NO_ERROR" =>
                Faithful(m, Parse(b).msg) /\ Arrives(m, Parse(b).msg)
           /\ Parse(b).err # "NO_ERROR" => LengthEnds(b) = {} /\ m.type \in BareTypes
<1>. DEFINE h == ParseHeader(b)
            i == 2 + LengthBytes(b)
            g == Parse(b).msg
<1>1. /\ IsHeader(m) /\ m.length \in 0 .. MaxLength /\ m.id \in Uint16
      /\ m.type \in Range(MessageType)
      /\ m.length = 0 <=> m.type \in BareTypes
  BY DEF IsMessage, IsHeader
<1>2. /\ HeaderWire(m) \in Bytes /\ BodyWire(m) \in Bytes
      /\ Len(Wire(m)) = Len(HeaderWire(m)) + Len(BodyWire(m))
      /\ Len(HeaderWire(m)) \in Nat
  BY WireType DEF Bytes
<1>3. Holds(b, 1, HeaderWire(m)) /\ Holds(b, 1 + Len(HeaderWire(m)), BodyWire(m))
  <2>1. 1 \in Nat
    OBVIOUS
  <2>2. Holds(b, 1, HeaderWire(m) \o BodyWire(m))
    BY Zenon DEF Wire
  <2>. QED
    BY <1>2, <2>1, <2>2, HoldsParts
<1>4. /\ Parse(b).err = IF LengthEnds(b) = {} THEN "MALFORMED_REMAIN_LENGTH" ELSE "NO_ERROR"
      /\ LengthEnds(b) # {} => g = ParseBody(b, i, h)
      /\ h.type = m.type /\ h.qos = m.qos /\ h.retain = m.retain /\ h.dup = FALSE
      /\ m.length # 0 => /\ LengthEnds(b) # {} /\ h.length = m.length
                         /\ i = 1 + Len(HeaderWire(m))
  BY <1>1, <1>3, HeaderReadBack
<1>. HIDE DEF h, i, g
<1>5. LengthEnds(b) = {} => Parse(b).err # "NO_ERROR" /\ m.type \in BareTypes
  BY <1>1, <1>4
<1>. SUFFICES ASSUME LengthEnds(b) # {}
              PROVE  Arrives(m, g)
  BY <1>4, <1>5 DEF g, Arrives
<1>6. g = ParseBody(b, i, h)
  BY <1>4
<1>7. LengthBytes(b) \in Nat /\ i \in Nat \ {0}
  <2>1. LengthEnds(b) \subseteq Nat
    BY DEF LengthEnds
  <2>2. PICK x \in LengthEnds(b) : \A y \in LengthEnds(b) : x <= y
    BY <2>1, LeastNumber
  <2>3. LengthBytes(b) \in LengthEnds(b)
    BY <2>2 DEF LengthBytes
  <2>. QED
    BY <2>1, <2>3 DEF i
<1>8. ASSUME m.type \notin BareTypes
      PROVE  h.length = m.length /\ Holds(b, i, BodyWire(m))
  BY <1>1, <1>3, <1>4, <1>8
\* The fields that the header gives.
<1>. DEFINE Header(x) == x.type = m.type /\ x.qos = m.qos /\ x.retain = m.retain /\ ~x.dup
<1>9. \A id, body :
        /\ LET x == [h EXCEPT !.id = id, !.body = body]
           IN  Header(x) /\ x.id = id /\ x.body = body
        /\ LET x == [h EXCEPT !.id = id] IN Header(x) /\ x.id = id
        /\ LET x == [h EXCEPT !.body = body] IN Header(x) /\ x.body = body
        /\ Header(h)
  BY <1>4, FilledIn DEF h
<1>10. CASE m.type = "CONNECT"
  <2>1. m.body \in ConnectBodies /\ m.type \notin BareTypes
    BY <1>10 DEF IsMessage, BareTypes
  <2>2. g = [h EXCEPT !.body = AsRead(m.body)]
    BY <1>4, <1>6, <1>7, <1>8, <1>10, <2>1, ConnectBody DEF h
  <2>3. Header(g) /\ g.body = AsRead(m.body)
    BY <1>9, <2>2
  <2>. QED
    BY <1>10, <2>3 DEF Arrives, Faithful
<1>11. CASE m.type = "CONNACK"
  <2>1. /\ m.body \in [sessionPresent : BOOLEAN, returnCode : Byte] /\ m.type \notin BareTypes
        /\ m.length # 0
    BY <1>1, <1>11 DEF IsMessage, BareTypes
  <2>2. ~m.body.sessionPresent => m.body.returnCode = 0 /\ ByteAt(b, i + 1) = 0
    <3>1. SUFFICES ASSUME ~m.body.sessionPresent
                   PROVE  m.body.returnCode = 0 /\ ByteAt(b, i + 1) = 0
      OBVIOUS
    <3>2. BodyWire(m) = ConnackWire(m.body)
      BY <1>11 DEF BodyWire
    <3>3. Len(BodyWire(m)) = 1
      BY <3>1, <3>2 DEF ConnackWire
    <3>4. i + 1 = Len(Wire(m)) + 1
      <4>1. PICK n \in Nat : n = Len(HeaderWire(m))
        BY <1>2
      <4>2. i = 1 + n /\ Len(Wire(m)) = n + 1
        BY <1>2, <1>4, <2>1, <3>3, <4>1
      <4>. QED
        BY <4>2
    <3>. QED
      BY <1>11, <3>1, <3>4
  <2>3. g = [h EXCEPT !.body = m.body]
    BY <1>4, <1>6, <1>7, <1>8, <1>11, <2>1, <2>2, ConnackBody DEF h
  <2>4. Header(g) /\ g.body = m.body
    BY <1>9, <2>3
  <2>. QED
    BY <1>11, <2>4 DEF Arrives, Faithful
<1>12. CASE m.type = "PUBLISH"
  <2>1. m.body.payload \in Bytes
    BY <1>12 DEF IsMessage
  <2>2. PICK id, topic, payload :
          /\ PublishStops(topic) => payload = <<>>
          /\ \/ g = [h EXCEPT !.id = id, !.body = [topic |-> topic, payload |-> payload]]
             \/ g = [h EXCEPT !.body = [topic |-> topic, payload |-> payload]]
    <3>1. PublishRead(ParseBody(b, i, ParseHeader(b)), ParseHeader(b))
      BY <1>1, <1>4, <1>7, <1>12, <2>1, PublishBody DEF h
    <3>. QED
      BY <1>6, <3>1, Zenon DEF h, PublishRead
  <2>3. Header(g) /\ (PublishStops(g.body.topic) => g.body.payload = <<>>)
    <3>1. CASE g = [h EXCEPT !.id = id, !.body = [topic |-> topic, payload |-> payload]]
      BY <1>9, <2>2, <3>1
    <3>2. CASE g = [h EXCEPT !.body = [topic |-> topic, payload |-> payload]]
      BY <1>9, <2>2, <3>2
    <3>. QED
      BY <2>2, <3>1, <3>2
  <2>. QED
    BY <1>12, <2>3 DEF Arrives, Faithful
<1>13. CASE m.type = "SUBSCRIBE"
  <2>1. /\ m.body \in Seq(Wants) /\ m.type \notin BareTypes
        /\ m.length = 2 + Len(m.body) + TotalLen(TopicNames(m.body))
    BY <1>13 DEF IsMessage, BareTypes
  <2>2. PICK body : /\ Part(body, m.body)
                    /\ g = [h EXCEPT !.id = m.id, !.body = body]
    <3>1. /\ ParseHeader(b).type = m.type /\ ParseHeader(b).length = m.length
          /\ Holds(b, i, BodyWire(m))
      BY <1>4, <1>8, <2>1 DEF h
    <3>2. g = ParseBody(b, i, ParseHeader(b))
      BY <1>6 DEF h
    <3>3. i \in Nat \ {0} /\ m.type = "SUBSCRIBE" /\ m.id \in Uint16
      BY <1>1, <1>7, <1>13
    <3>4. \E body : /\ Part(body, m.body)
                     /\ ParseBody(b, i, ParseHeader(b))
                          = [ParseHeader(b) EXCEPT !.id = m.id, !.body = body]
      BY <2>1, <3>1, <3>3, SubscribeBody
    <3>. QED
      BY <3>2, <3>4, Zenon DEF h
  <2>3. Header(g) /\ g.id = m.id /\ g.body = body
    BY <1>9, <2>2
  <2>. QED
    BY <1>13, <2>2, <2>3 DEF Arrives, Faithful, Part
<1>14. CASE m.type = "SUBACK"
  <2>1. m.body \in Bytes /\ m.type \notin BareTypes /\ m.length = 2 + Len(m.body)
    BY <1>14 DEF IsMessage, BareTypes
  <2>2. g = [h EXCEPT !.id = m.id, !.body = m.body]
    BY <1>1, <1>4, <1>6, <1>7, <1>8, <1>14, <2>1, SubackBody DEF h
  <2>3. Header(g) /\ g.id = m.id /\ g.body = m.body
    BY <1>9, <2>2
  <2>. QED
    BY <1>14, <2>3 DEF Arrives, Faithful
<1>15. CASE m.type = "UNSUBSCRIBE"
  <2>1. /\ m.body \in Seq(Short) /\ m.type \notin BareTypes /\ m.length >= 2 + Len(m.body)
        /\ m.length \in Nat
    BY <1>1, <1>15 DEF IsMessage, BareTypes
  <2>2. PICK body : /\ IsPrefix(m.body, body)
                    /\ g = [h EXCEPT !.id = m.id, !.body = body]
    <3>1. /\ ParseHeader(b).type = m.type /\ ParseHeader(b).length = m.length
          /\ Holds(b, i, BodyWire(m))
      BY <1>4, <1>8, <2>1 DEF h
    <3>2. g = ParseBody(b, i, ParseHeader(b))
      BY <1>6 DEF h
    <3>3. i \in Nat \ {0} /\ m.type = "UNSUBSCRIBE" /\ m.id \in Uint16
      BY <1>1, <1>7, <1>15
    <3>4. \E body : /\ IsPrefix(m.body, body)
                     /\ ParseBody(b, i, ParseHeader(b))
                          = [ParseHeader(b) EXCEPT !.id = m.id, !.body = body]
      BY <2>1, <3>1, <3>3, UnsubscribeBody
    <3>. QED
      BY <3>2, <3>4, Zenon DEF h
  <2>3. Header(g) /\ g.id = m.id /\ g.body = body
    BY <1>9, <2>2
  <2>. QED
    BY <1>15, <2>2, <2>3 DEF Arrives, Faithful
<1>16. CASE m.type \in AckTypes
  <2>1. m.type \notin BareTypes
    BY <1>16 DEF AckTypes, BareTypes
  <2>2. g = [h EXCEPT !.id = m.id]
    BY <1>1, <1>4, <1>6, <1>7, <1>8, <1>16, <2>1, AckBody DEF h
  <2>3. Header(g) /\ g.id = m.id
    BY <1>9, <2>2
  <2>. QED
    BY <1>16, <2>3 DEF Arrives, Faithful, AckTypes
<1>17. CASE m.type \in BareTypes
  <2>1. g = h
    BY <1>4, <1>6, <1>7, <1>17, BareBody DEF h
  <2>2. Header(g)
    BY <1>9, <2>1
  <2>. QED
    BY <1>17, <2>2 DEF Arrives, Faithful, BareTypes
<1>. QED
  BY <1>1, <1>10, <1>11, <1>12, <1>13, <1>14, <1>15, <1>16, <1>17, TypesAre
=============================================================================
