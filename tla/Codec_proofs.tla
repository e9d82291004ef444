---------------------------- MODULE Codec_proofs ----------------------------
(* Proofs about Layout and Codec: bytes and numbers, what a layout writes    *)
(* and reads, the layouts themselves, and then the session and the record.   *)
EXTENDS Codec, SequenceTheorems, TLAPS
-----------------------------------------------------------------------------
(* Numbers and their bytes.                                                  *)

\* A shift by one byte, and the byte it shifts out.
LEMMA Shift ==
  ASSUME NEW x \in Nat
  PROVE  /\ x \div 256 \in Nat /\ x % 256 \in Byte /\ x = (x % 256) + 256 * (x \div 256)
  BY Z3 DEF Byte

\* The nine shifts of a number, as numbers.
LEMMA ShiftsOf ==
  ASSUME NEW x \in Nat
  PROVE  /\ Shifts(x)[1] = x
         /\ \A i \in 1..9 : Shifts(x)[i] \in Nat
         /\ \A i \in 1..8 : Shifts(x)[i + 1] = Shifts(x)[i] \div 256
<1> DEFINE x1 == x \div 256
           x2 == x1 \div 256
           x3 == x2 \div 256
           x4 == x3 \div 256
           x5 == x4 \div 256
           x6 == x5 \div 256
           x7 == x6 \div 256
           x8 == x7 \div 256
<1>1. /\ x1 \in Nat /\ x2 \in Nat /\ x3 \in Nat /\ x4 \in Nat
      /\ x5 \in Nat /\ x6 \in Nat /\ x7 \in Nat /\ x8 \in Nat
  <2>1. x1 \in Nat BY Shift
  <2> HIDE DEF x1
  <2>2. x2 \in Nat BY <2>1, Shift
  <2> HIDE DEF x2
  <2>3. x3 \in Nat BY <2>2, Shift
  <2> HIDE DEF x3
  <2>4. x4 \in Nat BY <2>3, Shift
  <2> HIDE DEF x4
  <2>5. x5 \in Nat BY <2>4, Shift
  <2> HIDE DEF x5
  <2>6. x6 \in Nat BY <2>5, Shift
  <2> HIDE DEF x6
  <2>7. x7 \in Nat BY <2>6, Shift
  <2> HIDE DEF x7
  <2>8. x8 \in Nat BY <2>7, Shift
  <2> QED BY <2>1, <2>2, <2>3, <2>4, <2>5, <2>6, <2>7, <2>8
<1>2. Shifts(x) = <<x, x1, x2, x3, x4, x5, x6, x7, x8>>
  BY Zenon DEF Shifts
<1> DEFINE shift(y) == y \div 256
<1>6. /\ x1 = shift(x) /\ x2 = shift(x1) /\ x3 = shift(x2) /\ x4 = shift(x3)
      /\ x5 = shift(x4) /\ x6 = shift(x5) /\ x7 = shift(x6) /\ x8 = shift(x7)
  BY Zenon
<1> HIDE DEF x1, x2, x3, x4, x5, x6, x7, x8
<1>4. \A i \in 1..9 : Shifts(x)[i] \in Nat
  BY <1>1, <1>2
<1>5. \A i \in 1..8 : Shifts(x)[i + 1] = Shifts(x)[i] \div 256
  <2> SUFFICES ASSUME NEW i \in 1..8 PROVE Shifts(x)[i + 1] = Shifts(x)[i] \div 256
    OBVIOUS
  <2> DEFINE T == <<x, x1, x2, x3, x4, x5, x6, x7, x8>>
  <2>1. /\ T[1] = x /\ T[2] = x1 /\ T[3] = x2 /\ T[4] = x3 /\ T[5] = x4
        /\ T[6] = x5 /\ T[7] = x6 /\ T[8] = x7 /\ T[9] = x8
    OBVIOUS
  <2>2. Shifts(x) = T
    BY <1>2
  <2> HIDE DEF T, shift
  <2>31. ASSUME i = 1 PROVE Shifts(x)[i + 1] = shift(Shifts(x)[i])
    <3>1. T[2] = shift(T[1]) BY <1>6, <2>1, Zenon
    <3>2. i + 1 = 2 BY <2>31
    <3> QED BY <2>2, <2>31, <3>1, <3>2, Zenon
  <2>32. ASSUME i = 2 PROVE Shifts(x)[i + 1] = shift(Shifts(x)[i])
    <3>1. T[3] = shift(T[2]) BY <1>6, <2>1, Zenon
    <3>2. i + 1 = 3 BY <2>32
    <3> QED BY <2>2, <2>32, <3>1, <3>2, Zenon
  <2>33. ASSUME i = 3 PROVE Shifts(x)[i + 1] = shift(Shifts(x)[i])
    <3>1. T[4] = shift(T[3]) BY <1>6, <2>1, Zenon
    <3>2. i + 1 = 4 BY <2>33
    <3> QED BY <2>2, <2>33, <3>1, <3>2, Zenon
  <2>34. ASSUME i = 4 PROVE Shifts(x)[i + 1] = shift(Shifts(x)[i])
    <3>1. T[5] = shift(T[4]) BY <1>6, <2>1, Zenon
    <3>2. i + 1 = 5 BY <2>34
    <3> QED BY <2>2, <2>34, <3>1, <3>2, Zenon
  <2>35. ASSUME i = 5 PROVE Shifts(x)[i + 1] = shift(Shifts(x)[i])
    <3>1. T[6] = shift(T[5]) BY <1>6, <2>1, Zenon
    <3>2. i + 1 = 6 BY <2>35
    <3> QED BY <2>2, <2>35, <3>1, <3>2, Zenon
  <2>36. ASSUME i = 6 PROVE Shifts(x)[i + 1] = shift(Shifts(x)[i])
    <3>1. T[7] = shift(T[6]) BY <1>6, <2>1, Zenon
    <3>2. i + 1 = 7 BY <2>36
    <3> QED BY <2>2, <2>36, <3>1, <3>2, Zenon
  <2>37. ASSUME i = 7 PROVE Shifts(x)[i + 1] = shift(Shifts(x)[i])
    <3>1. T[8] = shift(T[7]) BY <1>6, <2>1, Zenon
    <3>2. i + 1 = 8 BY <2>37
    <3> QED BY <2>2, <2>37, <3>1, <3>2, Zenon
  <2>38. ASSUME i = 8 PROVE Shifts(x)[i + 1] = shift(Shifts(x)[i])
    <3>1. T[9] = shift(T[8]) BY <1>6, <2>1, Zenon
    <3>2. i + 1 = 9 BY <2>38
    <3> QED BY <2>2, <2>38, <3>1, <3>2, Zenon
  <2>4. i = 1 \/ i = 2 \/ i = 3 \/ i = 4 \/ i = 5 \/ i = 6 \/ i = 7 \/ i = 8
    OBVIOUS
  <2>5. Shifts(x)[i + 1] = shift(Shifts(x)[i])
    BY <2>31, <2>32, <2>33, <2>34, <2>35, <2>36, <2>37, <2>38, <2>4, Zenon
  <2> QED BY <2>5 DEF shift
<1> QED BY <1>2, <1>4, <1>5

\* Once nothing is left nothing comes.
LEMMA NothingLeft ==
  ASSUME NEW x \in Nat, NEW w \in 1..8, Fits(x, w)
  PROVE  \A i \in (w + 1)..9 : Shifts(x)[i] = 0
<1> DEFINE s == Shifts(x)
<1>1. /\ s[w + 1] = 0 /\ \A i \in 1..9 : s[i] \in Nat
      /\ \A i \in 1..8 : s[i + 1] = s[i] \div 256
  BY ShiftsOf DEF Fits
<1> HIDE DEF s
<1>2. \A i \in 1..8 : s[i] = 0 => s[i + 1] = 0
  BY <1>1
<1>3. s[w + 1] = 0
  BY <1>1
<1>4. \A i \in 1..9 : i >= w + 1 => s[i] = 0
  <2>1. (2 >= w + 1 => s[2] = 0)
    BY <1>3
  <2>2. (3 >= w + 1 => s[3] = 0)
    BY <1>2, <1>3, <2>1
  <2>3. (4 >= w + 1 => s[4] = 0)
    BY <1>2, <1>3, <2>2
  <2>4. (5 >= w + 1 => s[5] = 0)
    BY <1>2, <1>3, <2>3
  <2>5. (6 >= w + 1 => s[6] = 0)
    BY <1>2, <1>3, <2>4
  <2>6. (7 >= w + 1 => s[7] = 0)
    BY <1>2, <1>3, <2>5
  <2>7. (8 >= w + 1 => s[8] = 0)
    BY <1>2, <1>3, <2>6
  <2>8. (9 >= w + 1 => s[9] = 0)
    BY <1>2, <1>3, <2>7
  <2> QED BY <2>1, <2>2, <2>3, <2>4, <2>5, <2>6, <2>7, <2>8
<1> QED BY <1>4 DEF s

\* The bytes of a number are bytes.
LEMMA LittleEndianBytes ==
  ASSUME NEW x \in Nat, NEW w \in 1..8
  PROVE  LittleEndian(w, x) \in [1..w -> Byte]
<1> DEFINE s == Shifts(x)
<1>1. \A i \in 1..9 : s[i] \in Nat
  BY ShiftsOf, Zenon
<1> HIDE DEF s
<1>2. ASSUME NEW i \in 1..w PROVE s[i] % 256 \in Byte
  <2>1. i \in 1..9
    OBVIOUS
  <2>2. s[i] \in Nat
    BY <1>1, <2>1, Zenon
  <2> QED BY <2>2, Shift
<1>3. LittleEndian(w, x) = [i \in 1..w |-> s[i] % 256]
  BY Zenon DEF LittleEndian, s
<1> QED BY <1>2, <1>3

\* What a decoder reads from the bytes an encoder wrote is the number.
LEMMA NumberOfBytes ==
  ASSUME NEW x \in Nat, NEW w \in 1..8, Fits(x, w)
  PROVE  Number(w, LittleEndian(w, x)) = x
<1> DEFINE s == Shifts(x)
           bytes == LittleEndian(w, x)
           b == [i \in 1..8 |-> IF i <= w THEN bytes[i] ELSE 0]
<1>1. /\ s[1] = x /\ \A i \in 1..9 : s[i] \in Nat
      /\ \A i \in 1..8 : s[i + 1] = s[i] \div 256
  BY ShiftsOf
<1>2. \A i \in (w + 1)..9 : s[i] = 0
  BY NothingLeft
<1>3. \A i \in 1..w : bytes[i] = s[i] % 256
  BY DEF LittleEndian
<1>4. Number(w, bytes) = b[1] + 256 * (b[2] + 256 * (b[3] + 256 * (b[4] + 256 * (b[5] + 256 *
                           (b[6] + 256 * (b[7] + 256 * b[8]))))))
  BY DEF Number
<1> HIDE DEF s, bytes
<1>5. \A i \in 1..8 : b[i] \in Nat /\ s[i] = b[i] + 256 * s[i + 1]
  <2> SUFFICES ASSUME NEW i \in 1..8 PROVE b[i] \in Nat /\ s[i] = b[i] + 256 * s[i + 1]
    OBVIOUS
  <2>1. s[i] \in Nat /\ s[i + 1] \in Nat /\ s[i + 1] = s[i] \div 256
    BY <1>1
  <2>2. CASE i <= w
    <3>1. b[i] = s[i] % 256 BY <1>3, <2>2
    <3> QED BY <2>1, <3>1, Shift DEF Byte
  <2>3. CASE ~(i <= w)
    <3>1. b[i] = 0 /\ i \in (w + 1)..9 /\ i + 1 \in (w + 1)..9 BY <2>3
    <3>2. s[i] = 0 /\ s[i + 1] = 0 BY <1>2, <3>1
    <3> QED BY <3>1, <3>2
  <2> QED BY <2>2, <2>3
<1>6. s[9] = 0
  BY <1>2
<1> HIDE DEF b
<1>7. /\ b[1] \in Nat /\ b[2] \in Nat /\ b[3] \in Nat /\ b[4] \in Nat
      /\ b[5] \in Nat /\ b[6] \in Nat /\ b[7] \in Nat /\ b[8] \in Nat
  BY <1>5
<1>8. /\ s[1] = b[1] + 256 * s[2] /\ s[2] = b[2] + 256 * s[3] /\ s[3] = b[3] + 256 * s[4]
      /\ s[4] = b[4] + 256 * s[5] /\ s[5] = b[5] + 256 * s[6] /\ s[6] = b[6] + 256 * s[7]
      /\ s[7] = b[7] + 256 * s[8] /\ s[8] = b[8] + 256 * s[9]
  BY <1>5
<1>9. s[8] = b[8]
  BY <1>6, <1>7, <1>8
<1>10. /\ s[7] = b[7] + 256 * b[8]
       /\ s[6] = b[6] + 256 * (b[7] + 256 * b[8])
       /\ s[5] = b[5] + 256 * (b[6] + 256 * (b[7] + 256 * b[8]))
  BY <1>8, <1>9
<1>11. s[1] = b[1] + 256 * (b[2] + 256 * (b[3] + 256 * (b[4] + 256 * s[5])))
  BY <1>8
<1>12. Number(w, bytes) = s[1]
  BY <1>4, <1>10, <1>11
<1> QED BY <1>1, <1>12 DEF bytes
-----------------------------------------------------------------------------
(* What a layout writes is what it reads.                                    *)

\* The places of a layout: within the 64 bytes, of a width the field's type has,
\* and apart from one another.
Inside(f, place) ==
  /\ place.first \in Nat /\ place.width \in 1..16 /\ place.first + place.width <= 64
  /\ IF f \in Ids THEN place.width = 16 ELSE place.width \in 1..8

Apart(p, q) == p.first + p.width <= q.first \/ q.first + q.width <= p.first

WellLaid(layout) ==
  /\ \A f \in DOMAIN layout.fields : Inside(f, layout.fields[f])
  /\ \A f, g \in DOMAIN layout.fields : f = g \/ Apart(layout.fields[f], layout.fields[g])

\* A value the field can have; a buffer that has it.
Value(f, place, v) == IF f \in Ids THEN v \in [1..16 -> Byte] ELSE Fits(v, place.width)

Carries(layout, c) == \A f \in DOMAIN layout.fields : Value(f, layout.fields[f], c[f])

Holds(buf, f, place, v) ==
  \A i \in 1..place.width : buf[place.first + i - 1] = Bytes(f, place, v)[i]

\* The bytes of a value.
LEMMA BytesOf ==
  ASSUME NEW f, NEW place, NEW v, Inside(f, place), Value(f, place, v)
  PROVE  Bytes(f, place, v) \in [1..place.width -> Byte]
<1>1. CASE f \in Ids
  BY <1>1 DEF Bytes, Value, Inside
<1>2. CASE f \notin Ids
  <2>1. v \in Nat /\ place.width \in 1..8
    BY <1>2 DEF Value, Inside, Fits
  <2>2. LittleEndian(place.width, v) \in [1..place.width -> Byte]
    BY <2>1, LittleEndianBytes
  <2> QED BY <1>2, <2>2 DEF Bytes
<1> QED BY <1>1, <1>2

\* A position belongs to one field at most, so the CHOOSE of Encoded has no choice.
LEMMA EncodedAt ==
  ASSUME NEW layout, NEW c, NEW buf, WellLaid(layout), NEW f \in DOMAIN layout.fields,
         NEW i \in Positions, Covers(layout.fields[f], i)
  PROVE  Encoded(layout, c, buf)[i] = Bytes(f, layout.fields[f], c[f])[i - layout.fields[f].first + 1]
<1> DEFINE here == {g \in DOMAIN layout.fields : Covers(layout.fields[g], i)}
           h == CHOOSE g \in here : TRUE
<1>1. \A g \in here : g = f
  <2> SUFFICES ASSUME NEW g \in DOMAIN layout.fields, Covers(layout.fields[g], i), g # f
               PROVE  FALSE
    BY Zenon
  <2> DEFINE p == layout.fields[f]
             q == layout.fields[g]
  <2>1. Apart(p, q) /\ Inside(f, p) /\ Inside(g, q)
    BY Zenon DEF WellLaid
  <2>2. Covers(p, i) /\ Covers(q, i)
    BY Zenon
  <2> HIDE DEF p, q
  <2> QED BY <2>1, <2>2 DEF Apart, Inside, Covers, Positions
<1>2. f \in here /\ here # {}
  BY Zenon
<1>3. h = f
  BY <1>1, <1>2, Zenon
<1>4. Encoded(layout, c, buf)[i] = EncodedByte(layout, c, buf, i)
  BY Zenon DEF Encoded
<1>5. EncodedByte(layout, c, buf, i) =
        IF here # {} THEN Bytes(h, layout.fields[h], c[h])[i - layout.fields[h].first + 1]
        ELSE IF i >= layout.blank THEN 0 ELSE buf[i]
  BY Zenon DEF EncodedByte
<1> HIDE DEF here, h
<1> QED BY <1>2, <1>3, <1>4, <1>5, Zenon

\* So every field is in the buffer.
LEMMA EncodedHolds ==
  ASSUME NEW layout, NEW c, NEW buf, WellLaid(layout), NEW f \in DOMAIN layout.fields
  PROVE  Holds(Encoded(layout, c, buf), f, layout.fields[f], c[f])
<1> DEFINE p == layout.fields[f]
           e == Encoded(layout, c, buf)
<1>1. Inside(f, p)
  BY Zenon DEF WellLaid
<1> SUFFICES ASSUME NEW i \in 1..p.width PROVE e[p.first + i - 1] = Bytes(f, p, c[f])[i]
  BY Zenon DEF Holds
<1> DEFINE j == p.first + i - 1
<1>2. j \in Positions /\ Covers(p, j) /\ j - p.first + 1 = i
  <2> HIDE DEF p
  <2> QED BY <1>1 DEF Inside, Covers, Positions
<1>3. e[j] = Bytes(f, p, c[f])[j - p.first + 1]
  <2> HIDE DEF j
  <2> QED BY <1>2, EncodedAt
<1>4. e[j] = Bytes(f, p, c[f])[i]
  <2> HIDE DEF e, p, j
  <2> QED BY <1>2, <1>3, Zenon
<1> QED BY <1>4

\* Elsewhere there are zeros, or what was there.
LEMMA EncodedKeeps ==
  ASSUME NEW layout, NEW c, NEW buf, NEW i \in Positions,
         \A f \in DOMAIN layout.fields : ~Covers(layout.fields[f], i)
  PROVE  Encoded(layout, c, buf)[i] = IF i >= layout.blank THEN 0 ELSE buf[i]
<1> DEFINE here == {g \in DOMAIN layout.fields : Covers(layout.fields[g], i)}
           h == CHOOSE g \in here : TRUE
<1>1. here = {}
  BY Zenon
<1>2. Encoded(layout, c, buf)[i] = EncodedByte(layout, c, buf, i)
  BY Zenon DEF Encoded
<1>3. EncodedByte(layout, c, buf, i) =
        IF here # {} THEN Bytes(h, layout.fields[h], c[h])[i - layout.fields[h].first + 1]
        ELSE IF i >= layout.blank THEN 0 ELSE buf[i]
  BY Zenon DEF EncodedByte
<1> HIDE DEF here, h
<1> QED BY <1>1, <1>2, <1>3, Zenon

\* An encoder leaves bytes.
LEMMA EncodedType ==
  ASSUME NEW layout, NEW c, NEW buf \in [Positions -> Byte], WellLaid(layout), Carries(layout, c)
  PROVE  Encoded(layout, c, buf) \in [Positions -> Byte]
<1> DEFINE e == Encoded(layout, c, buf)
<1>1. ASSUME NEW i \in Positions PROVE e[i] \in Byte
  <2>1. CASE \E f \in DOMAIN layout.fields : Covers(layout.fields[f], i)
    <3>1. PICK f \in DOMAIN layout.fields : Covers(layout.fields[f], i)
      BY <2>1
    <3> DEFINE p == layout.fields[f]
               b == Bytes(f, p, c[f])
    <3>2. e[i] = b[i - p.first + 1]
      BY <3>1, EncodedAt
    <3>3. Inside(f, p) /\ Value(f, p, c[f])
      BY Zenon DEF WellLaid, Carries
    <3>4. b \in [1..p.width -> Byte]
      BY <3>3, BytesOf, Zenon
    <3>5. Covers(p, i)
      BY <3>1
    <3> HIDE DEF p, b
    <3>6. i - p.first + 1 \in 1..p.width
      BY <3>3, <3>5 DEF Inside, Covers, Positions
    <3>7. b[i - p.first + 1] \in Byte
      BY <3>4, <3>6, Zenon
    <3> QED BY <3>2, <3>7, Zenon
  <2>2. CASE \A f \in DOMAIN layout.fields : ~Covers(layout.fields[f], i)
    <3>1. e[i] = IF i >= layout.blank THEN 0 ELSE buf[i]
      BY <2>2, EncodedKeeps
    <3>2. 0 \in Byte /\ buf[i] \in Byte
      BY DEF Byte
    <3> HIDE DEF e
    <3> QED BY <3>1, <3>2, Zenon
  <2> QED BY <2>1, <2>2, Zenon
<1>2. e = [i \in Positions |-> e[i]]
  BY Zenon DEF Encoded
<1> HIDE DEF e
<1> QED BY <1>1, <1>2, Zenon DEF e

\* A decoder reads from a place the value the buffer has there.
LEMMA DecodedField ==
  ASSUME NEW layout, NEW buf, NEW f \in DOMAIN layout.fields, NEW v,
         Inside(f, layout.fields[f]), Value(f, layout.fields[f], v),
         Holds(buf, f, layout.fields[f], v)
  PROVE  Decoded(layout, buf)[f] = v
<1> DEFINE p == layout.fields[f]
           bytes == [i \in 1..p.width |-> buf[p.first + i - 1]]
<1>1. Decoded(layout, buf)[f] = IF f \in Ids THEN bytes ELSE Number(p.width, bytes)
  BY Zenon DEF Decoded
<1>2. Bytes(f, p, v) \in [1..p.width -> Byte]
  BY BytesOf, Zenon
<1>3. bytes = Bytes(f, p, v)
  <2>1. \A i \in 1..p.width : bytes[i] = Bytes(f, p, v)[i]
    BY Zenon DEF Holds
  <2>2. bytes = [i \in 1..p.width |-> bytes[i]]
    BY Zenon
  <2> HIDE DEF bytes, p
  <2> QED BY <1>2, <2>1, <2>2
<1>4. Inside(f, p) /\ Value(f, p, v)
  OBVIOUS
<1> HIDE DEF bytes, p
<1>5. CASE f \in Ids
  BY <1>1, <1>3, <1>5, Zenon DEF Bytes
<1>6. CASE f \notin Ids
  <2>1. v \in Nat /\ p.width \in 1..8 /\ Fits(v, p.width)
    BY <1>4, <1>6 DEF Value, Inside, Fits
  <2>2. bytes = LittleEndian(p.width, v)
    BY <1>3, <1>6, Zenon DEF Bytes
  <2>3. Number(p.width, LittleEndian(p.width, v)) = v
    BY <2>1, NumberOfBytes, Zenon
  <2> QED BY <1>1, <1>6, <2>2, <2>3, Zenon
<1> QED BY <1>5, <1>6

\* Decode after Encode.
LEMMA DecodedEncoded ==
  ASSUME NEW layout, NEW c, NEW buf, WellLaid(layout), IsOf(layout, c)
  PROVE  /\ DOMAIN Decoded(layout, Encoded(layout, c, buf)) = DOMAIN c
         /\ \A f \in DOMAIN c : Decoded(layout, Encoded(layout, c, buf))[f] = c[f]
<1> DEFINE e == Encoded(layout, c, buf)
           d == Decoded(layout, e)
<1>1. ASSUME NEW f \in DOMAIN layout.fields PROVE d[f] = c[f]
  <2>1. Inside(f, layout.fields[f])
    BY Zenon DEF WellLaid
  <2>2. Value(f, layout.fields[f], c[f])
    BY Zenon DEF IsOf, Value
  <2>3. Holds(e, f, layout.fields[f], c[f])
    BY EncodedHolds, Zenon
  <2> QED BY <2>1, <2>2, <2>3, DecodedField, Zenon
<1>2. DOMAIN d = DOMAIN layout.fields
  BY Zenon DEF Decoded
<1>3. DOMAIN c = DOMAIN layout.fields
  BY Zenon DEF IsOf
<1> HIDE DEF d
<1> QED BY <1>1, <1>2, <1>3, Zenon DEF d
-----------------------------------------------------------------------------
(* The layouts of protocol/command.go, server/protocol.go and server/aof.go. *)

\* The fields of LOCK and UNLOCK.
LEMMA LockCommandFields ==
  LockCommand.fields =
    [Magic |-> At(0, 1), Version |-> At(1, 1), CommandType |-> At(2, 1), RequestId |-> At(3, 16),
     Flag |-> At(19, 1), DbId |-> At(20, 1), LockId |-> At(21, 16), LockKey |-> At(37, 16),
     Timeout |-> At(53, 2), TimeoutFlag |-> At(55, 2), Expried |-> At(57, 2), ExpriedFlag |-> At(59, 2),
     Count |-> At(61, 2), Rcount |-> At(63, 1)]
  BY SMTT(30) DEF LockCommand, LockFields, Header, And, Layout

\* No two fields of a command share a byte.
LEMMA CommandsLaid ==
  /\ WellLaid(Command) /\ WellLaid(InitCommand) /\ WellLaid(LockCommand)
  /\ WellLaid(StateCommand) /\ WellLaid(AdminCommand)
<1>1. WellLaid(Command)
  BY DEF WellLaid, Command, Header, Layout, At, Inside, Apart, Ids
<1>2. WellLaid(InitCommand)
  BY DEF WellLaid, InitCommand, Header, And, Layout, At, Inside, Apart, Ids
<1>3. WellLaid(LockCommand)
  <2> DEFINE places == LockCommand.fields
  <2>1. \A f \in DOMAIN places : Inside(f, places[f])
    BY LockCommandFields, SMTT(30) DEF At, Inside, Ids
  <2>2. \A f, g \in DOMAIN places : f = g \/ Apart(places[f], places[g])
    BY LockCommandFields, SMTT(30) DEF At, Apart
  <2> QED BY <2>1, <2>2, Zenon DEF WellLaid
<1>4. WellLaid(StateCommand)
  BY DEF WellLaid, StateCommand, Header, And, Layout, At, Inside, Apart, Ids
<1>5. WellLaid(AdminCommand)
  BY DEF WellLaid, AdminCommand, Header, And, Layout, At, Inside, Apart, Ids
<1> QED BY <1>1, <1>2, <1>3, <1>4, <1>5

\* The fields of STATE's result.
LEMMA StateResultFields ==
  StateResultCommand.fields =
    [Magic |-> At(0, 1), Version |-> At(1, 1), CommandType |-> At(2, 1), RequestId |-> At(3, 16),
     Result |-> At(19, 1), Flag |-> At(20, 1), DbId |-> At(22, 1), DbState |-> At(21, 1),
     LockCount |-> At(23, 8), UnLockCount |-> At(31, 8), LockedCount |-> At(39, 4),
     WaitCount |-> At(43, 4), TimeoutedCount |-> At(47, 4), ExpriedCount |-> At(51, 4),
     UnlockErrorCount |-> At(55, 4), KeyCount |-> At(59, 4)]
  BY SMTT(30) DEF StateResultCommand, StateFields, Header, ResultHeader, And, Layout

\* No two fields of a result share a byte.
LEMMA ResultsLaid ==
  /\ WellLaid(ResultCommand) /\ WellLaid(InitResultCommand) /\ WellLaid(LockResultCommand)
  /\ WellLaid(StateResultCommand) /\ WellLaid(WrittenLockResult)
<1>1. WellLaid(ResultCommand)
  BY DEF WellLaid, ResultCommand, ResultHeader, Header, And, Layout, At, Inside, Apart, Ids
<1>2. WellLaid(InitResultCommand)
  BY DEF WellLaid, InitResultCommand, ResultHeader, Header, And, Layout, At, Inside, Apart, Ids
<1>3. WellLaid(LockResultCommand)
  BY SMTT(30) DEF WellLaid, LockResultCommand, LockResultFields, Header, And, Layout, At, Inside, Apart, Ids
<1>4. WellLaid(StateResultCommand)
  <2> DEFINE places == StateResultCommand.fields
  <2>1. \A f \in DOMAIN places : Inside(f, places[f])
    BY StateResultFields, SMTT(30) DEF At, Inside, Ids
  <2>2. \A f, g \in DOMAIN places : f = g \/ Apart(places[f], places[g])
    BY StateResultFields, SMTT(30) DEF At, Apart
  <2> QED BY <2>1, <2>2, Zenon DEF WellLaid
<1>5. WellLaid(WrittenLockResult)
  BY SMTT(30) DEF WellLaid, WrittenLockResult, WrittenFields, Layout, At, Inside, Apart, Ids
<1> QED BY <1>1, <1>2, <1>3, <1>4, <1>5

\* Nor do two fields of a record of the log.
LEMMA RecordsLaid ==
  WellLaid(AofLock) /\ WellLaid(AofIndexId)
<1>1. WellLaid(AofLock)
  BY SMTT(30) DEF WellLaid, AofLock, Layout, At, Inside, Apart, Ids
<1>2. WellLaid(AofIndexId)
  BY DEF WellLaid, AofIndexId, Layout, At, Inside, Apart, Ids
<1> QED BY <1>1, <1>2

\* The layouts a client encodes with begin with the header.
LEMMA CommandHeads ==
  ASSUME NEW type
  PROVE  /\ WellLaid(CommandLayout(type))
         /\ \A f \in DOMAIN Header :
              f \in DOMAIN CommandLayout(type).fields /\ CommandLayout(type).fields[f] = Header[f]
<1> DEFINE L == CommandLayout(type)
           Heads(layout) ==
             \A f \in DOMAIN Header : f \in DOMAIN layout.fields /\ layout.fields[f] = Header[f]
<1>1. Heads(Command) /\ Heads(PingCommand) /\ Heads(QuitCommand)
  BY DEF Command, PingCommand, QuitCommand, Layout
<1>2. Heads(InitCommand)
  BY DEF InitCommand, Header, And, Layout
<1>3. Heads(LockCommand)
  BY DEF LockCommand, LockFields, Header, And, Layout
<1>4. Heads(StateCommand)
  BY DEF StateCommand, Header, And, Layout
<1>5. Heads(AdminCommand)
  BY DEF AdminCommand, Header, And, Layout
<1>6. PingCommand = Command /\ QuitCommand = Command
  BY DEF PingCommand, QuitCommand, Command
<1>7. L \in {LockCommand, InitCommand, StateCommand, AdminCommand, PingCommand, QuitCommand, Command}
  BY DEF CommandLayout
<1> HIDE DEF L, Heads
<1>8. Heads(L) /\ WellLaid(L)
  BY <1>1, <1>2, <1>3, <1>4, <1>5, <1>6, <1>7, CommandsLaid, Zenon
<1> QED BY <1>8 DEF L, Heads

\* The layouts a client decodes with begin with the header of results.
LEMMA ResultHeads ==
  ASSUME NEW type \in ResultTypes
  PROVE  /\ WellLaid(ResultLayout(type))
         /\ \A f \in DOMAIN ResultHeader :
              /\ f \in DOMAIN ResultLayout(type).fields
              /\ ResultLayout(type).fields[f] = ResultHeader[f]
         /\ \A f \in DOMAIN ResultLayout(type).fields \ DOMAIN ResultHeader :
              ResultLayout(type).fields[f].first >= 20
<1> DEFINE L == ResultLayout(type)
           Heads(layout) ==
             /\ \A f \in DOMAIN ResultHeader :
                  f \in DOMAIN layout.fields /\ layout.fields[f] = ResultHeader[f]
             /\ \A f \in DOMAIN layout.fields \ DOMAIN ResultHeader : layout.fields[f].first >= 20
<1>1. Heads(ResultCommand) /\ Heads(PingResultCommand) /\ Heads(QuitResultCommand) /\ Heads(AdminResultCommand)
  BY DEF ResultCommand, PingResultCommand, QuitResultCommand, AdminResultCommand, Layout
<1>2. Heads(InitResultCommand)
  BY DEF InitResultCommand, ResultHeader, Header, And, Layout, At
<1>3. Heads(LockResultCommand)
  BY SMTT(30) DEF LockResultCommand, LockResultFields, ResultHeader, Header, And, Layout, At
<1>4. Heads(StateResultCommand)
  BY StateResultFields, SMTT(30) DEF ResultHeader, Header, And, At
<1>5. /\ PingResultCommand = ResultCommand /\ QuitResultCommand = ResultCommand
      /\ AdminResultCommand = ResultCommand
  BY DEF PingResultCommand, QuitResultCommand, AdminResultCommand, ResultCommand
<1>6. L \in {LockResultCommand, InitResultCommand, StateResultCommand, AdminResultCommand,
             PingResultCommand, QuitResultCommand, ResultCommand}
  BY DEF ResultLayout, ResultTypes, IsLock
<1> HIDE DEF L, Heads
<1>7. Heads(L) /\ WellLaid(L)
  BY <1>1, <1>2, <1>3, <1>4, <1>5, <1>6, ResultsLaid, Zenon
<1> QED BY <1>7 DEF L, Heads
-----------------------------------------------------------------------------
(* Results: what the client decodes of what the server encoded into wbuf.    *)

\* The value that zero bytes are.
ZeroValue(f) == IF f \in Ids THEN ZeroId ELSE 0

\* A byte is a number of one byte.
LEMMA OneByte ==
  ASSUME NEW v
  PROVE  Fits(v, 1) <=> v \in Byte
<1>1. ASSUME v \in Nat PROVE Shifts(v)[2] = v \div 256
  <2>1. Shifts(v)[1] = v /\ Shifts(v)[1 + 1] = Shifts(v)[1] \div 256
    BY <1>1, ShiftsOf
  <2>2. 1 + 1 = 2
    OBVIOUS
  <2> QED BY <2>1, <2>2, Zenon
<1>2. Fits(v, 1) <=> v \in Nat /\ Shifts(v)[2] = 0
  <2>1. 1 + 1 = 2
    OBVIOUS
  <2> QED BY <2>1, Zenon DEF Fits
<1>3. v \in Byte <=> v \in Nat /\ v \div 256 = 0
  BY DEF Byte
<1> QED BY <1>1, <1>2, <1>3, Zenon

\* And a number below 2^16 one of two.
LEMMA TwoBytes ==
  ASSUME NEW v
  PROVE  Fits(v, 2) <=> v \in Nat /\ v < 65536
<1>1. ASSUME v \in Nat PROVE Shifts(v)[3] = (v \div 256) \div 256
  <2>1. /\ Shifts(v)[1] = v /\ Shifts(v)[1 + 1] = Shifts(v)[1] \div 256
        /\ Shifts(v)[2 + 1] = Shifts(v)[2] \div 256
    BY <1>1, ShiftsOf
  <2> QED BY <2>1
<1>2. Fits(v, 2) <=> v \in Nat /\ Shifts(v)[3] = 0
  <2>1. 2 + 1 = 3
    OBVIOUS
  <2> QED BY <2>1, Zenon DEF Fits
<1>3. ASSUME v \in Nat PROVE v < 65536 <=> (v \div 256) \div 256 = 0
  <2> DEFINE x == v \div 256
             y == x \div 256
             a == v % 256
             b == x % 256
  <2>1. x \in Nat /\ a \in Byte /\ v = a + 256 * x
    BY <1>3, Shift
  <2> HIDE DEF x, a
  <2>2. y \in Nat /\ b \in Byte /\ x = b + 256 * y
    BY <2>1, Shift
  <2> HIDE DEF y, b
  <2>3. v < 65536 <=> y = 0
    BY <1>3, <2>1, <2>2 DEF Byte
  <2> QED BY <2>3 DEF x, y
<1> QED BY <1>1, <1>2, <1>3

\* The bytes of 0.
LEMMA ZeroFits ==
  /\ \A i \in 1..9 : Shifts(0)[i] = 0
  /\ \A w \in 1..8 : Fits(0, w)
<1>1. Fits(0, 1)
  BY OneByte DEF Byte
<1>2. \A i \in 2..9 : Shifts(0)[i] = 0
  BY <1>1, NothingLeft
<1>3. Shifts(0)[1] = 0
  BY ShiftsOf
<1>4. \A i \in 1..9 : Shifts(0)[i] = 0
  BY <1>2, <1>3
<1>5. ASSUME NEW w \in 1..8 PROVE Fits(0, w)
  <2>1. w + 1 \in 1..9
    OBVIOUS
  <2> QED BY <1>4, <2>1 DEF Fits
<1> QED BY <1>4, <1>5

\* Where there are zeros a field is zero.
LEMMA ZeroHeld ==
  ASSUME NEW f, NEW place, Inside(f, place), NEW buf,
         \A i \in 1..place.width : buf[place.first + i - 1] = 0
  PROVE  Value(f, place, ZeroValue(f)) /\ Holds(buf, f, place, ZeroValue(f))
<1>1. CASE f \in Ids
  <2>1. ZeroValue(f) = ZeroId /\ place.width = 16
    BY <1>1 DEF ZeroValue, Inside
  <2>2. ZeroId \in [1..16 -> Byte]
    BY DEF ZeroId, Byte
  <2>3. \A i \in 1..16 : Bytes(f, place, ZeroId)[i] = 0
    BY <1>1 DEF Bytes, ZeroId
  <2> QED BY <1>1, <2>1, <2>2, <2>3 DEF Value, Holds
<1>2. CASE f \notin Ids
  <2>1. ZeroValue(f) = 0 /\ place.width \in 1..8
    BY <1>2 DEF ZeroValue, Inside
  <2>2. \A i \in 1..place.width : Bytes(f, place, 0)[i] = 0
    <3>1. Bytes(f, place, 0) = LittleEndian(place.width, 0)
      BY <1>2 DEF Bytes
    <3>2. \A i \in 1..place.width : LittleEndian(place.width, 0)[i] = Shifts(0)[i] % 256
      BY DEF LittleEndian
    <3>3. \A i \in 1..place.width : Shifts(0)[i] = 0
      BY <2>1, ZeroFits
    <3>4. 0 % 256 = 0
      OBVIOUS
    <3> QED BY <3>1, <3>2, <3>3, <3>4
  <2>3. Value(f, place, 0)
    BY <1>2, <2>1, ZeroFits, Zenon DEF Value
  <2>4. Holds(buf, f, place, 0)
    BY <2>2, Zenon DEF Holds
  <2> QED BY <2>1, <2>3, <2>4, Zenon
<1> QED BY <1>1, <1>2

\* A field of one byte is the byte it is encoded as.
LEMMA ByteField ==
  ASSUME NEW layout, NEW c, NEW buf, WellLaid(layout), NEW f \in DOMAIN layout.fields, f \notin Ids,
         NEW k \in Positions, layout.fields[f] = At(k, 1), c[f] \in Byte
  PROVE  Encoded(layout, c, buf)[k] = c[f]
<1> DEFINE e == Encoded(layout, c, buf)
           p == layout.fields[f]
           v == c[f]
<1>1. p.first = k /\ p.width = 1
  BY DEF At
<1>2. Holds(e, f, p, v)
  BY EncodedHolds
<1>3. Bytes(f, p, v) = LittleEndian(1, v)
  BY <1>1, Zenon DEF Bytes
<1>4. v \in Byte
  OBVIOUS
<1> HIDE DEF e, p, v
<1>5. LittleEndian(1, v)[1] = Shifts(v)[1] % 256
  BY DEF LittleEndian
<1>6. v \in Nat /\ v % 256 = v
  BY <1>4 DEF Byte
<1>10. Shifts(v)[1] = v
  BY <1>6, ShiftsOf
<1>7. e[k + 1 - 1] = LittleEndian(1, v)[1]
  BY <1>1, <1>2, <1>3 DEF Holds
<1>8. k + 1 - 1 = k
  BY DEF Positions
<1>9. e[k] = v
  BY <1>5, <1>6, <1>7, <1>8, <1>10
<1> QED BY <1>9 DEF e, v

\* Two layouts that agree on a field: what one writes the other reads.
LEMMA FieldRead ==
  ASSUME NEW layout, NEW other, NEW c, NEW buf, WellLaid(layout), NEW f \in DOMAIN layout.fields,
         f \in DOMAIN other.fields, other.fields[f] = layout.fields[f], Value(f, layout.fields[f], c[f])
  PROVE  Decoded(other, Encoded(layout, c, buf))[f] = c[f]
<1>1. Holds(Encoded(layout, c, buf), f, other.fields[f], c[f])
  BY EncodedHolds
<1>2. Inside(f, other.fields[f])
  BY Zenon DEF WellLaid
<1> QED BY <1>1, <1>2, DecodedField

\* A result as it lies in wbuf after it was encoded.
ReadBack(buf) == Decoded(ResultLayout(buf[2]), buf)

\* What a client makes of it.
Understood(buf, result) ==
  /\ IsBinary(buf) /\ buf[2] = result.CommandType
  /\ result.CommandType \in ResultTypes => ReadAsGiven(ReadBack(buf), result)

Shown(buf, result) == buf \in [Positions -> Byte] /\ Understood(buf, result)

\* Results that are encoded with the layout the client takes.
LEMMA ResultShown ==
  ASSUME NEW r, NEW buf \in [Positions -> Byte], r.Magic = MAGIC, r.Version = VERSION,
         r.CommandType \in ResultTypes, IsOf(ResultLayout(r.CommandType), r)
  PROVE  Shown(Encoded(ResultLayout(r.CommandType), r, buf), r)
<1> DEFINE L == ResultLayout(r.CommandType)
           e == Encoded(L, r, buf)
<1>1. /\ WellLaid(L)
      /\ \A f \in DOMAIN ResultHeader : f \in DOMAIN L.fields /\ L.fields[f] = ResultHeader[f]
  BY ResultHeads, Zenon
<1>2. IsOf(L, r)
  OBVIOUS
<1>3. Carries(L, r)
  BY <1>2, Zenon DEF IsOf, Carries, Value
<1> HIDE DEF L
<1>4. e \in [Positions -> Byte]
  BY <1>1, <1>3, EncodedType
<1>5. /\ "Magic" \in DOMAIN L.fields /\ L.fields["Magic"] = At(0, 1)
      /\ "Version" \in DOMAIN L.fields /\ L.fields["Version"] = At(1, 1)
      /\ "CommandType" \in DOMAIN L.fields /\ L.fields["CommandType"] = At(2, 1)
  BY <1>1 DEF ResultHeader, Header, And
<1>6. /\ "Magic" \notin Ids /\ "Version" \notin Ids /\ "CommandType" \notin Ids
  BY DEF Ids
<1>7. r.Magic \in Byte /\ r.Version \in Byte /\ MAGIC \in Byte /\ VERSION \in Byte
  BY DEF MAGIC, VERSION, Byte
<1>8. r.CommandType \in Byte
  <2>1. Fits(r.CommandType, L.fields["CommandType"].width)
    BY <1>2, <1>5, <1>6, Zenon DEF IsOf
  <2>2. L.fields["CommandType"].width = 1
    BY <1>5 DEF At
  <2> QED BY <2>1, <2>2, OneByte
<1>9. 0 \in Positions /\ 1 \in Positions /\ 2 \in Positions
  BY DEF Positions
<1>10. e[0] = MAGIC
  BY <1>1, <1>5, <1>6, <1>7, <1>9, ByteField
<1>11. e[1] = VERSION
  BY <1>1, <1>5, <1>6, <1>7, <1>9, ByteField
<1>12. e[2] = r.CommandType
  BY <1>1, <1>5, <1>6, <1>8, <1>9, ByteField
<1>13. DOMAIN Decoded(L, e) = DOMAIN r /\ \A f \in DOMAIN r : Decoded(L, e)[f] = r[f]
  BY <1>1, <1>2, DecodedEncoded
<1>14. ReadBack(e) = Decoded(L, e)
  BY <1>12, Zenon DEF ReadBack, L
<1>15. ReadAsGiven(ReadBack(e), r)
  BY <1>13, <1>14, Zenon DEF ReadAsGiven
<1>16. Shown(e, r)
  BY <1>4, <1>10, <1>11, <1>12, <1>15, Zenon DEF Shown, Understood, IsBinary
<1> QED BY <1>16 DEF L

\* What a result says of its command: the header, the type and the request id.
Asked(c) == c.CommandType \in Byte /\ c.RequestId \in [1..16 -> Byte]

\* NewResultCommand makes a result of the first fields.
LEMMA ResultOfType ==
  ASSUME NEW c, NEW x, Asked(c), x \in Byte
  PROVE  /\ IsOf(ResultCommand, ResultOf(c, x))
         /\ ResultOf(c, x).Magic = MAGIC /\ ResultOf(c, x).Version = VERSION
         /\ ResultOf(c, x).CommandType = c.CommandType /\ ResultOf(c, x).Result = x
         /\ DOMAIN ResultOf(c, x) = {"Magic", "Version", "CommandType", "RequestId", "Result"}
<1>1. Fits(MAGIC, 1) /\ Fits(VERSION, 1) /\ Fits(c.CommandType, 1) /\ Fits(x, 1)
  <2>1. MAGIC \in Byte /\ VERSION \in Byte
    BY DEF MAGIC, VERSION, Byte
  <2>2. c.CommandType \in Byte
    BY Zenon DEF Asked
  <2> QED BY <2>1, <2>2, OneByte, Zenon
<1>2. c.RequestId \in [1..16 -> Byte]
  BY DEF Asked
<1>3. ResultCommand.fields = [Magic |-> At(0, 1), Version |-> At(1, 1), CommandType |-> At(2, 1),
                             RequestId |-> At(3, 16), Result |-> At(19, 1)]
  BY DEF ResultCommand, ResultHeader, Header, And, Layout
<1> DEFINE r == ResultOf(c, x)
<1>4. /\ r.Magic = MAGIC /\ r.Version = VERSION /\ r.CommandType = c.CommandType
      /\ r.RequestId = c.RequestId /\ r.Result = x
      /\ DOMAIN r = {"Magic", "Version", "CommandType", "RequestId", "Result"}
  BY DEF ResultOf
<1> HIDE DEF r
<1>5. IsOf(ResultCommand, r)
  <2>1. DOMAIN r = DOMAIN ResultCommand.fields
    BY <1>3, <1>4
  <2>2. ASSUME NEW f \in DOMAIN r
        PROVE IF f \in Ids THEN r[f] \in [1..16 -> Byte] ELSE Fits(r[f], ResultCommand.fields[f].width)
    BY <1>1, <1>2, <1>3, <1>4 DEF Ids, At
  <2> QED BY <2>1, <2>2, Zenon DEF IsOf
<1> QED BY <1>4, <1>5 DEF r

\* The result of a header the server refused is one of ResultCommand, whatever the
\* type in it; the client reads the fields it has for that type as zeros. So is the
\* result of a type neither knows.
LEMMA RefusalShown ==
  ASSUME NEW r, NEW buf \in [Positions -> Byte], r.Magic = MAGIC, r.Version = VERSION,
         r.CommandType \in Byte, IsOf(ResultCommand, r),
         r.CommandType \in ResultTypes => r.Result \in {RESULT_UNKNOWN_MAGIC, RESULT_UNKNOWN_VERSION}
  PROVE  Shown(Encoded(ResultCommand, r, buf), r)
<1> DEFINE L == ResultCommand
           e == Encoded(L, r, buf)
           R == ResultLayout(r.CommandType)
           d == Decoded(R, e)
<1>1. WellLaid(L) /\ L.fields = ResultHeader /\ L.blank = 20
  BY ResultsLaid DEF ResultCommand, Layout
<1>2. IsOf(L, r)
  OBVIOUS
<1>3. Carries(L, r)
  BY <1>2, Zenon DEF IsOf, Carries, Value
<1>4. r.CommandType \in ResultTypes =>
        /\ WellLaid(R)
        /\ \A f \in DOMAIN ResultHeader : f \in DOMAIN R.fields /\ R.fields[f] = ResultHeader[f]
        /\ \A f \in DOMAIN R.fields \ DOMAIN ResultHeader : R.fields[f].first >= 20
  BY ResultHeads, Zenon
<1> HIDE DEF L
<1>5. e \in [Positions -> Byte]
  BY <1>1, <1>3, EncodedType
<1>6. /\ "Magic" \in DOMAIN L.fields /\ L.fields["Magic"] = At(0, 1)
      /\ "Version" \in DOMAIN L.fields /\ L.fields["Version"] = At(1, 1)
      /\ "CommandType" \in DOMAIN L.fields /\ L.fields["CommandType"] = At(2, 1)
  BY <1>1 DEF ResultHeader, Header, And
<1>7. /\ "Magic" \notin Ids /\ "Version" \notin Ids /\ "CommandType" \notin Ids
  BY DEF Ids
<1>8. r.Magic \in Byte /\ r.Version \in Byte
  BY DEF MAGIC, VERSION, Byte
<1>9. 0 \in Positions /\ 1 \in Positions /\ 2 \in Positions
  BY DEF Positions
<1>10. e[0] = MAGIC /\ e[1] = VERSION /\ e[2] = r.CommandType
  BY <1>1, <1>6, <1>7, <1>8, <1>9, ByteField
<1>11. DOMAIN r = DOMAIN ResultHeader
  BY <1>1, <1>2, Zenon DEF IsOf
<1>12. ReadBack(e) = d
  BY <1>10, Zenon DEF ReadBack
<1>13. DOMAIN d = DOMAIN R.fields
  BY Zenon DEF Decoded
<1>14. ASSUME r.CommandType \in ResultTypes, NEW f \in DOMAIN r PROVE f \in DOMAIN d /\ d[f] = r[f]
  <2>1. f \in DOMAIN L.fields /\ f \in DOMAIN R.fields /\ R.fields[f] = L.fields[f]
    BY <1>1, <1>4, <1>11, <1>14, Zenon
  <2>2. Value(f, L.fields[f], r[f])
    BY <1>3, <2>1, Zenon DEF Carries
  <2>3. d[f] = r[f]
    BY <1>1, <2>1, <2>2, FieldRead
  <2> QED BY <1>13, <2>1, <2>3, Zenon
<1>15. ASSUME r.CommandType \in ResultTypes, NEW f \in DOMAIN d \ DOMAIN r PROVE d[f] = ZeroValue(f)
  <2> DEFINE p == R.fields[f]
  <2>1. p.first >= 20 /\ f \in DOMAIN R.fields
    BY <1>4, <1>11, <1>13, <1>15, Zenon
  <2>2. Inside(f, p)
    BY <1>4, <1>15, <2>1, Zenon DEF WellLaid
  <2>3. \A g \in DOMAIN L.fields : L.fields[g].first + L.fields[g].width <= 20 /\ L.fields[g].first \in Nat /\ L.fields[g].width \in Nat
    BY <1>1 DEF ResultHeader, Header, And, At
  <2>4. ASSUME NEW i \in 1..p.width PROVE e[p.first + i - 1] = 0
    <3> DEFINE j == p.first + i - 1
    <3>1. j \in Positions /\ j >= 20
      <4> HIDE DEF p
      <4> QED BY <2>1, <2>2 DEF Inside, Positions
    <3> HIDE DEF j
    <3>2. \A g \in DOMAIN L.fields : ~Covers(L.fields[g], j)
      BY <2>3, <3>1 DEF Covers, Positions
    <3>3. e[j] = IF j >= L.blank THEN 0 ELSE buf[j]
      BY <3>1, <3>2, EncodedKeeps
    <3>4. e[j] = 0
      BY <1>1, <3>1, <3>3
    <3> QED BY <3>4 DEF j
  <2>5. Value(f, p, ZeroValue(f)) /\ Holds(e, f, p, ZeroValue(f))
    BY <2>2, <2>4, ZeroHeld
  <2> QED BY <1>4, <1>15, <2>1, <2>2, <2>5, DecodedField
<1>16. r.CommandType \in ResultTypes => ReadAsGiven(d, r)
  BY <1>14, <1>15, Zenon DEF ReadAsGiven, ZeroValue
<1>17. Shown(e, r)
  BY <1>5, <1>10, <1>12, <1>16, Zenon DEF Shown, Understood, IsBinary
<1> QED BY <1>17 DEF L

\* The result of INIT.
LEMMA InitShown ==
  ASSUME NEW c, Asked(c), c.CommandType = COMMAND_INIT, NEW t \in {0, 1}, NEW buf \in [Positions -> Byte]
  PROVE  Shown(Encoded(InitResultCommand, And(ResultOf(c, 0), [InitType |-> t]), buf),
               And(ResultOf(c, 0), [InitType |-> t]))
<1> DEFINE q == ResultOf(c, 0)
           r == And(q, [InitType |-> t])
<1>1. /\ IsOf(ResultCommand, q) /\ q.Magic = MAGIC /\ q.Version = VERSION /\ q.CommandType = c.CommandType
      /\ DOMAIN q = {"Magic", "Version", "CommandType", "RequestId", "Result"}
  BY ResultOfType DEF Byte
<1>2. Fits(t, 1)
  BY OneByte DEF Byte
<1> HIDE DEF q
<1>3. /\ DOMAIN r = {"Magic", "Version", "CommandType", "RequestId", "Result", "InitType"}
      /\ r["InitType"] = t /\ \A f \in DOMAIN q : r[f] = q[f]
  BY <1>1 DEF And
<1>4. /\ ResultCommand.fields = ResultHeader
      /\ InitResultCommand.fields = And(ResultHeader, [InitType |-> At(20, 1)])
  BY DEF ResultCommand, InitResultCommand, Layout
<1>5. /\ DOMAIN InitResultCommand.fields = DOMAIN r /\ InitResultCommand.fields["InitType"].width = 1
      /\ \A f \in DOMAIN q : InitResultCommand.fields[f] = ResultCommand.fields[f]
  BY <1>1, <1>3, <1>4 DEF ResultHeader, Header, And, At
<1> HIDE DEF r
<1>6. IsOf(InitResultCommand, r)
  <2>1. \A f \in DOMAIN q :
          IF f \in Ids THEN q[f] \in [1..16 -> Byte] ELSE Fits(q[f], ResultCommand.fields[f].width)
    BY <1>1, Zenon DEF IsOf
  <2>2. "InitType" \notin Ids
    BY DEF Ids
  <2>3. \A f \in DOMAIN r : f \in DOMAIN q \/ f = "InitType"
    BY <1>1, <1>3
  <2> QED BY <1>2, <1>3, <1>5, <2>1, <2>2, <2>3, Zenon DEF IsOf
<1>7. r.Magic = MAGIC /\ r.Version = VERSION /\ r.CommandType = COMMAND_INIT
  BY <1>1, <1>3
<1>8. ResultLayout(r.CommandType) = InitResultCommand
  BY <1>7 DEF ResultLayout, IsLock, COMMAND_INIT, COMMAND_LOCK, COMMAND_UNLOCK, COMMAND_STATE,
              COMMAND_ADMIN, COMMAND_PING, COMMAND_QUIT
<1>9. Shown(Encoded(ResultLayout(r.CommandType), r, buf), r)
  <2>1. r.CommandType \in ResultTypes
    BY <1>7 DEF ResultTypes
  <2> QED BY <1>6, <1>7, <1>8, <2>1, ResultShown
<1>10. Shown(Encoded(InitResultCommand, r, buf), r)
  BY <1>8, <1>9, Zenon
<1> QED BY <1>10 DEF r, q

\* The result of STATE.
LEMMA StateShown ==
  ASSUME NEW c, Asked(c), c.CommandType = COMMAND_STATE, c.DbId \in Byte, NEW s \in States,
         NEW buf \in [Positions -> Byte]
  PROVE  Shown(Encoded(StateResultCommand, And(And(ResultOf(c, 0), [Flag |-> 0, DbId |-> c.DbId]), s), buf),
               And(And(ResultOf(c, 0), [Flag |-> 0, DbId |-> c.DbId]), s))
<1> DEFINE q == ResultOf(c, 0)
           m == And(q, [Flag |-> 0, DbId |-> c.DbId])
           r == And(m, s)
           L == StateResultCommand
<1>1. /\ IsOf(ResultCommand, q) /\ q.Magic = MAGIC /\ q.Version = VERSION /\ q.CommandType = c.CommandType
      /\ DOMAIN q = {"Magic", "Version", "CommandType", "RequestId", "Result"}
  BY ResultOfType DEF Byte
<1>2. Fits(0, 1) /\ Fits(c.DbId, 1)
  BY OneByte DEF Byte
<1>3. IsOf(Layout(StateFields, 64), s)
  BY CodecConstants, Zenon
<1>4. /\ DOMAIN s = DOMAIN StateFields
      /\ \A f \in DOMAIN s : IF f \in Ids THEN s[f] \in [1..16 -> Byte] ELSE Fits(s[f], StateFields[f].width)
  BY <1>3 DEF IsOf, Layout
<1> HIDE DEF q
<1>5. /\ DOMAIN m = {"Magic", "Version", "CommandType", "RequestId", "Result", "Flag", "DbId"}
      /\ m["Flag"] = 0 /\ m["DbId"] = c.DbId /\ \A f \in DOMAIN q : m[f] = q[f]
  BY <1>1 DEF And
<1> HIDE DEF m
<1>6. DOMAIN s = {"DbState", "LockCount", "UnLockCount", "LockedCount", "WaitCount", "TimeoutedCount",
                  "ExpriedCount", "UnlockErrorCount", "KeyCount"}
  BY <1>4 DEF StateFields
<1>7. /\ DOMAIN r = DOMAIN m \cup DOMAIN s
      /\ \A f \in DOMAIN s : r[f] = s[f]
      /\ \A f \in DOMAIN m : r[f] = m[f]
  <2>1. \A f \in DOMAIN m : f \notin DOMAIN s
    BY <1>5, <1>6
  <2> QED BY <2>1, Zenon DEF And
<1>8. DOMAIN L.fields = DOMAIN r
  BY <1>5, <1>6, <1>7, StateResultFields
<1>9. /\ L.fields["Flag"].width = 1 /\ L.fields["DbId"].width = 1
      /\ \A f \in DOMAIN q : L.fields[f] = ResultCommand.fields[f]
  BY <1>1, StateResultFields DEF ResultCommand, ResultHeader, Header, And, At, Layout
<1>10. \A f \in DOMAIN s : L.fields[f] = StateFields[f]
  BY <1>6, StateResultFields DEF StateFields
<1> HIDE DEF r, L
<1>11. IsOf(L, r)
  <2>1. \A f \in DOMAIN q :
          IF f \in Ids THEN q[f] \in [1..16 -> Byte] ELSE Fits(q[f], ResultCommand.fields[f].width)
    BY <1>1, Zenon DEF IsOf
  <2>2. "Flag" \notin Ids /\ "DbId" \notin Ids
    BY DEF Ids
  <2>3. \A f \in DOMAIN m : f \in DOMAIN q \/ f = "Flag" \/ f = "DbId"
    BY <1>1, <1>5
  <2>4. \A f \in DOMAIN m :
          IF f \in Ids THEN r[f] \in [1..16 -> Byte] ELSE Fits(r[f], L.fields[f].width)
    <3>1. \A f \in DOMAIN q : r[f] = q[f] /\ L.fields[f] = ResultCommand.fields[f]
      BY <1>1, <1>5, <1>7, <1>9
    <3>2. \A f \in DOMAIN q : IF f \in Ids THEN r[f] \in [1..16 -> Byte] ELSE Fits(r[f], L.fields[f].width)
      BY <2>1, <3>1, Zenon
    <3>3. Fits(r["Flag"], L.fields["Flag"].width) /\ Fits(r["DbId"], L.fields["DbId"].width)
      BY <1>2, <1>5, <1>7, <1>9
    <3> QED BY <2>2, <2>3, <3>2, <3>3, Zenon
  <2>5. \A f \in DOMAIN s :
          IF f \in Ids THEN r[f] \in [1..16 -> Byte] ELSE Fits(r[f], L.fields[f].width)
    BY <1>4, <1>7, <1>10, Zenon
  <2> QED BY <1>7, <1>8, <2>4, <2>5, Zenon DEF IsOf
<1>12. r.Magic = MAGIC /\ r.Version = VERSION /\ r.CommandType = COMMAND_STATE
  BY <1>1, <1>5, <1>7
<1>13. ResultLayout(r.CommandType) = L
  BY <1>12 DEF ResultLayout, IsLock, COMMAND_INIT, COMMAND_LOCK, COMMAND_UNLOCK, COMMAND_STATE,
              COMMAND_ADMIN, COMMAND_PING, COMMAND_QUIT, L
<1>14. Shown(Encoded(ResultLayout(r.CommandType), r, buf), r)
  <2>1. r.CommandType \in ResultTypes
    BY <1>12 DEF ResultTypes
  <2> QED BY <1>11, <1>12, <1>13, <2>1, ResultShown
<1>15. Shown(Encoded(L, r, buf), r)
  BY <1>13, <1>14, Zenon
<1> QED BY <1>15 DEF r, m, q, L

\* The results of the other commands.
LEMMA OtherShown ==
  ASSUME NEW c, Asked(c), c.CommandType \in {COMMAND_ADMIN, COMMAND_PING, COMMAND_QUIT},
         NEW x \in Byte, NEW buf \in [Positions -> Byte]
  PROVE  Shown(Encoded(ResultLayout(c.CommandType), ResultOf(c, x), buf), ResultOf(c, x))
<1> DEFINE q == ResultOf(c, x)
<1>1. /\ IsOf(ResultCommand, q) /\ q.Magic = MAGIC /\ q.Version = VERSION
      /\ q.CommandType = c.CommandType
  BY ResultOfType
<1>2. ResultLayout(c.CommandType) = ResultCommand
  BY DEF ResultLayout, AdminResultCommand, PingResultCommand, QuitResultCommand, ResultCommand, IsLock,
         COMMAND_INIT, COMMAND_LOCK, COMMAND_UNLOCK, COMMAND_STATE, COMMAND_ADMIN, COMMAND_PING, COMMAND_QUIT
<1>4. c.CommandType \in ResultTypes
  BY DEF ResultTypes
<1> HIDE DEF q
<1>3. Shown(Encoded(ResultLayout(q.CommandType), q, buf), q)
  BY <1>1, <1>2, <1>4, ResultShown
<1> QED BY <1>1, <1>3 DEF q

\* The values of the fields of LOCK and UNLOCK.
LEMMA LockCommandType ==
  ASSUME NEW c, IsOf(LockCommand, c)
  PROVE  /\ Asked(c) /\ c.LockId \in [1..16 -> Byte] /\ c.LockKey \in [1..16 -> Byte]
         /\ c.DbId \in Byte /\ Fits(c.DbId, 1) /\ Fits(c.Flag, 1) /\ Fits(c.Rcount, 1) /\ Fits(c.CommandType, 1)
         /\ Fits(c.Count, 2) /\ Fits(c.Expried, 2) /\ Fits(c.ExpriedFlag, 2)
<1>1. \A f \in DOMAIN LockCommand.fields :
        IF f \in Ids THEN c[f] \in [1..16 -> Byte] ELSE Fits(c[f], LockCommand.fields[f].width)
  BY Zenon DEF IsOf
<1>2. /\ c["RequestId"] \in [1..16 -> Byte] /\ c["LockId"] \in [1..16 -> Byte]
      /\ c["LockKey"] \in [1..16 -> Byte]
  BY <1>1, LockCommandFields DEF Ids
<1>3. /\ Fits(c["CommandType"], 1) /\ Fits(c["DbId"], 1) /\ Fits(c["Flag"], 1) /\ Fits(c["Rcount"], 1)
      /\ Fits(c["Count"], 2) /\ Fits(c["Expried"], 2) /\ Fits(c["ExpriedFlag"], 2)
  BY <1>1, LockCommandFields DEF Ids, At
<1> QED BY <1>2, <1>3, OneByte DEF Asked

\* The results of LOCK and UNLOCK, which ProcessLockResultCommand writes into wbuf
\* from its third byte on.
LEMMA LockShown ==
  ASSUME NEW c, IsOf(LockCommand, c), IsLock(c.CommandType), NEW answer,
         Fits(answer.Result, 1), Fits(answer.Lcount, 2), Fits(answer.Lrcount, 1),
         NEW buf \in [Positions -> Byte], buf[0] = MAGIC, buf[1] = VERSION
  PROVE  Shown(Encoded(WrittenLockResult, LockResultOf(c, answer), buf), LockResultOf(c, answer))
<1> DEFINE q == ResultOf(c, answer.Result)
           m == [Flag |-> 0, DbId |-> c.DbId, LockId |-> c.LockId, LockKey |-> c.LockKey,
                 Lcount |-> answer.Lcount, Count |-> c.Count, Lrcount |-> answer.Lrcount, Rcount |-> c.Rcount]
           r == LockResultOf(c, answer)
           L == WrittenLockResult
           R == LockResultCommand
           e == Encoded(L, r, buf)
           d == Decoded(R, e)
<1>1. /\ IsOf(ResultCommand, q) /\ q.Magic = MAGIC /\ q.Version = VERSION /\ q.CommandType = c.CommandType
      /\ q.Result = answer.Result
      /\ DOMAIN q = {"Magic", "Version", "CommandType", "RequestId", "Result"}
  BY LockCommandType, ResultOfType, OneByte
<1>2. /\ r = And(q, m) /\ q.RequestId = c.RequestId
  BY DEF LockResultOf, ResultOf
<1> HIDE DEF q
<1>3. /\ DOMAIN r = {"Magic", "Version", "CommandType", "RequestId", "Result", "Flag", "DbId", "LockId",
                     "LockKey", "Lcount", "Count", "Lrcount", "Rcount"}
      /\ r["Magic"] = MAGIC /\ r["Version"] = VERSION /\ r["CommandType"] = c.CommandType
      /\ r["RequestId"] = c.RequestId /\ r["Result"] = answer.Result /\ r["Flag"] = 0
      /\ r["DbId"] = c.DbId /\ r["LockId"] = c.LockId /\ r["LockKey"] = c.LockKey
      /\ r["Lcount"] = answer.Lcount /\ r["Count"] = c.Count /\ r["Lrcount"] = answer.Lrcount
      /\ r["Rcount"] = c.Rcount
  <2> HIDE DEF r
  <2> QED BY <1>1, <1>2 DEF And
<1>4. R.fields =
        [Magic |-> At(0, 1), Version |-> At(1, 1), CommandType |-> At(2, 1), RequestId |-> At(3, 16),
         Result |-> At(19, 1), Flag |-> At(20, 1), DbId |-> At(21, 1), LockId |-> At(22, 16),
         LockKey |-> At(38, 16), Lcount |-> At(54, 2), Count |-> At(56, 2), Lrcount |-> At(58, 1),
         Rcount |-> At(59, 1)]
  BY SMTT(30) DEF LockResultCommand, LockResultFields, Header, And, Layout
<1>5. L.fields = WrittenFields /\ L.blank = 60 /\ WellLaid(L) /\ WellLaid(R)
  BY ResultsLaid DEF WrittenLockResult, Layout
<1> HIDE DEF m, r, L, R
<1>6. \A f \in DOMAIN R.fields : f \in DOMAIN L.fields \/ f = "Magic" \/ f = "Version"
  BY <1>4, <1>5 DEF WrittenFields
<1>7. \A f \in DOMAIN L.fields : f \in DOMAIN R.fields /\ R.fields[f] = L.fields[f]
  BY <1>4, <1>5 DEF WrittenFields
<1>8. DOMAIN R.fields = DOMAIN r
  BY <1>3, <1>4
<1>9. Carries(L, r)
  <2>1. Fits(0, 1)
    BY ZeroFits
  <2>2. ASSUME NEW f \in DOMAIN WrittenFields PROVE Value(f, WrittenFields[f], r[f])
    <3>1. /\ Fits(r["CommandType"], 1) /\ Fits(r["Result"], 1) /\ Fits(r["Flag"], 1) /\ Fits(r["DbId"], 1)
          /\ Fits(r["Lrcount"], 1) /\ Fits(r["Rcount"], 1) /\ Fits(r["Lcount"], 2) /\ Fits(r["Count"], 2)
          /\ r["RequestId"] \in [1..16 -> Byte] /\ r["LockId"] \in [1..16 -> Byte]
          /\ r["LockKey"] \in [1..16 -> Byte]
      BY <1>3, <2>1, LockCommandType, Zenon DEF Asked
    <3> QED BY <3>1, SMTT(30) DEF WrittenFields, Value, Ids, At
  <2> QED BY <1>5, <2>2, Zenon DEF Carries
<1>10. e \in [Positions -> Byte]
  BY <1>5, <1>9, EncodedType
<1>11. 0 \in Positions /\ 1 \in Positions /\ 2 \in Positions
  BY DEF Positions
<1>12. e[0] = MAGIC /\ e[1] = VERSION
  <2>1. \A f \in DOMAIN L.fields : ~Covers(L.fields[f], 0) /\ ~Covers(L.fields[f], 1)
    BY <1>5 DEF WrittenFields, Covers, At
  <2>2. /\ e[0] = IF 0 >= L.blank THEN 0 ELSE buf[0]
        /\ e[1] = IF 1 >= L.blank THEN 0 ELSE buf[1]
    BY <1>11, <2>1, EncodedKeeps
  <2> QED BY <1>5, <2>2
<1>13. e[2] = c.CommandType
  <2>1. /\ "CommandType" \in DOMAIN L.fields /\ L.fields["CommandType"] = At(2, 1) /\ "CommandType" \notin Ids
    BY <1>5 DEF WrittenFields, Ids
  <2>2. r["CommandType"] \in Byte
    BY <1>3, LockCommandType DEF Asked
  <2>3. e[2] = r["CommandType"]
    BY <1>5, <1>11, <2>1, <2>2, ByteField
  <2> QED BY <1>3, <2>3
<1>14. ReadBack(e) = d
  <2>1. ResultLayout(c.CommandType) = R
    BY DEF ResultLayout, IsLock, COMMAND_INIT, COMMAND_LOCK, COMMAND_UNLOCK, COMMAND_STATE, COMMAND_ADMIN,
           COMMAND_PING, COMMAND_QUIT, R
  <2> QED BY <1>13, <2>1, Zenon DEF ReadBack
<1>15. DOMAIN d = DOMAIN R.fields
  BY Zenon DEF Decoded
<1>16. ASSUME NEW f \in DOMAIN r PROVE d[f] = r[f]
  <2>1. CASE f \in DOMAIN L.fields
    <3>1. f \in DOMAIN R.fields /\ R.fields[f] = L.fields[f] /\ Value(f, L.fields[f], r[f])
      BY <1>7, <1>9, <2>1, Zenon DEF Carries
    <3> QED BY <1>5, <2>1, <3>1, FieldRead
  <2>2. ASSUME f = "Magic" \/ f = "Version" PROVE d[f] = r[f]
    <3> DEFINE p == R.fields[f]
    <3>1. f \in DOMAIN R.fields /\ Inside(f, p)
      BY <1>5, <1>8, Zenon DEF WellLaid
    <3>2. f \notin Ids /\ p.width = 1 /\ e[p.first] = r[f] /\ p.first \in Nat
      BY <1>3, <1>4, <1>12, <2>2 DEF Ids, At
    <3>3. r[f] \in Byte
      BY <1>3, <2>2 DEF MAGIC, VERSION, Byte
    <3>4. Value(f, p, r[f])
      BY <3>2, <3>3, OneByte DEF Value
    <3>5. Holds(e, f, p, r[f])
      <4> DEFINE v == r[f]
      <4>1. Bytes(f, p, v) = LittleEndian(1, v)
        BY <3>2, Zenon DEF Bytes
      <4> HIDE DEF v, p
      <4>2. LittleEndian(1, v)[1] = Shifts(v)[1] % 256
        BY DEF LittleEndian
      <4>3. v \in Nat /\ v % 256 = v
        BY <3>3 DEF Byte, v
      <4>4. Shifts(v)[1] = v
        BY <4>3, ShiftsOf
      <4>5. Bytes(f, p, v)[1] = e[p.first]
        BY <3>2, <4>1, <4>2, <4>3, <4>4, Zenon DEF v
      <4>6. p.first + 1 - 1 = p.first
        BY <3>2
      <4>7. \A i \in 1..p.width : i = 1
        BY <3>2
      <4> QED BY <4>5, <4>6, <4>7, Zenon DEF Holds, v
    <3> QED BY <3>1, <3>4, <3>5, DecodedField
  <2> QED BY <1>6, <1>8, <2>1, <2>2, Zenon
<1>17. ReadAsGiven(d, r)
  BY <1>8, <1>15, <1>16, Zenon DEF ReadAsGiven
<1>18. Shown(e, r)
  BY <1>3, <1>10, <1>12, <1>13, <1>14, <1>17, Zenon DEF Shown, Understood, IsBinary
<1> QED BY <1>18 DEF r, L
-----------------------------------------------------------------------------
(* Commands: what the server decodes of what the client encoded.             *)

\* The 64 bytes of a command.
Wire(c) == Encoded(CommandLayout(c.CommandType), c, Zeros)

Sent(c) == IsOf(CommandLayout(c.CommandType), c)

\* What CommandsDecoded says of one command.
ParsedAs(p, c) ==
  IF c.Magic = MAGIC /\ c.Version = VERSION THEN OnWire(p) = OnWire(c)
  ELSE \A f \in DOMAIN Header : p[f] = c[f]

\* A new buffer.
LEMMA ZerosType == Zeros \in [Positions -> Byte]
  BY DEF Zeros, Byte

\* The first three bytes of a command.
LEMMA WireHead ==
  ASSUME NEW c, Sent(c)
  PROVE  /\ Wire(c) \in [Positions -> Byte] /\ Asked(c)
         /\ Wire(c)[0] = c.Magic /\ Wire(c)[1] = c.Version /\ Wire(c)[2] = c.CommandType
         /\ \A f \in DOMAIN Header : f \in DOMAIN c /\ Value(f, Header[f], c[f])
<1> DEFINE L == CommandLayout(c.CommandType)
           e == Encoded(L, c, Zeros)
<1>1. /\ WellLaid(L)
      /\ \A f \in DOMAIN Header : f \in DOMAIN L.fields /\ L.fields[f] = Header[f]
  BY CommandHeads, Zenon
<1>2. IsOf(L, c)
  BY DEF Sent
<1>3. Carries(L, c)
  BY <1>2, Zenon DEF IsOf, Carries, Value
<1> HIDE DEF L
<1>4. e \in [Positions -> Byte]
  BY <1>1, <1>3, EncodedType, ZerosType
<1>5. \A f \in DOMAIN Header : f \in DOMAIN c /\ Value(f, Header[f], c[f])
  BY <1>1, <1>2, <1>3, Zenon DEF IsOf, Carries
<1>6. /\ "Magic" \in DOMAIN L.fields /\ L.fields["Magic"] = At(0, 1)
      /\ "Version" \in DOMAIN L.fields /\ L.fields["Version"] = At(1, 1)
      /\ "CommandType" \in DOMAIN L.fields /\ L.fields["CommandType"] = At(2, 1)
  BY <1>1 DEF Header
<1>7. /\ "Magic" \notin Ids /\ "Version" \notin Ids /\ "CommandType" \notin Ids /\ "RequestId" \in Ids
  BY DEF Ids
<1>8. c.Magic \in Byte /\ c.Version \in Byte /\ c.CommandType \in Byte
  <2>1. /\ Value("Magic", At(0, 1), c["Magic"]) /\ Value("Version", At(1, 1), c["Version"])
        /\ Value("CommandType", At(2, 1), c["CommandType"])
    BY <1>5 DEF Header
  <2>2. Fits(c["Magic"], 1) /\ Fits(c["Version"], 1) /\ Fits(c["CommandType"], 1)
    BY <1>7, <2>1 DEF Value, At
  <2> QED BY <2>2, OneByte
<1>9. c.RequestId \in [1..16 -> Byte]
  <2>1. Value("RequestId", At(3, 16), c["RequestId"])
    BY <1>5 DEF Header
  <2> QED BY <1>7, <2>1, Zenon DEF Value
<1>10. 0 \in Positions /\ 1 \in Positions /\ 2 \in Positions
  BY DEF Positions
<1>11. e[0] = c.Magic /\ e[1] = c.Version /\ e[2] = c.CommandType
  BY <1>1, <1>6, <1>7, <1>8, <1>10, ByteField
<1>12. Wire(c) = e
  BY DEF Wire, L
<1> QED BY <1>4, <1>5, <1>8, <1>9, <1>11, <1>12, Zenon DEF Asked

\* A header that is refused is read as it is.
LEMMA RefusedParsed ==
  ASSUME NEW c, Sent(c)
  PROVE  \A f \in DOMAIN Header : Decoded(Command, Wire(c))[f] = c[f]
<1> DEFINE L == CommandLayout(c.CommandType)
<1>1. /\ WellLaid(L)
      /\ \A f \in DOMAIN Header : f \in DOMAIN L.fields /\ L.fields[f] = Header[f]
  BY CommandHeads, Zenon
<1>2. Command.fields = Header
  BY DEF Command, Layout
<1>3. \A f \in DOMAIN Header : Value(f, Header[f], c[f])
  BY WireHead
<1>4. Wire(c) = Encoded(L, c, Zeros)
  BY DEF Wire
<1> HIDE DEF L
<1>5. ASSUME NEW f \in DOMAIN Header PROVE Decoded(Command, Encoded(L, c, Zeros))[f] = c[f]
  <2>1. f \in DOMAIN L.fields /\ L.fields[f] = Command.fields[f] /\ f \in DOMAIN Command.fields
        /\ Value(f, L.fields[f], c[f])
    BY <1>1, <1>2, <1>3, Zenon
  <2> QED BY <1>1, <2>1, FieldRead
<1> QED BY <1>4, <1>5, Zenon

\* The commands that are decoded into a struct of their own.
LEMMA OtherParsed ==
  ASSUME NEW c, Sent(c)
  PROVE  LET p == Decoded(CommandLayout(c.CommandType), Wire(c))
         IN /\ DOMAIN p = DOMAIN c /\ \A f \in DOMAIN c : p[f] = c[f]
            /\ OnWire(p) = OnWire(c)
<1> DEFINE L == CommandLayout(c.CommandType)
           p == Decoded(L, Wire(c))
<1>1. WellLaid(L) /\ IsOf(L, c) /\ Wire(c) = Encoded(L, c, Zeros)
  BY CommandHeads DEF Sent, Wire
<1>2. DOMAIN p = DOMAIN c /\ \A f \in DOMAIN c : p[f] = c[f]
  BY <1>1, DecodedEncoded
<1>3. OnWire(p) = OnWire(c)
  <2> HIDE DEF p
  <2> QED BY <1>2 DEF OnWire
<1> QED BY <1>2, <1>3

\* LOCK and UNLOCK, decoded into a command that was used before.
LEMMA LockParsed ==
  ASSUME NEW c, Sent(c), IsLock(c.CommandType), NEW old, IsOf(LockCommand, old)
  PROVE  LET p == DecodedOver(ParsedLockCommand, Wire(c), old)
         IN /\ IsOf(LockCommand, p) /\ OnWire(p) = OnWire(c) /\ p.CommandType = c.CommandType
<1> DEFINE L == LockCommand
           e == Encoded(L, c, Zeros)
           p == DecodedOver(ParsedLockCommand, e, old)
           fields == ParsedLockCommand.fields
<1>1. CommandLayout(c.CommandType) = L
  BY DEF CommandLayout, IsLock, COMMAND_INIT, COMMAND_LOCK, COMMAND_UNLOCK, COMMAND_STATE, COMMAND_ADMIN,
         COMMAND_PING, COMMAND_QUIT
<1>2. IsOf(L, c) /\ Wire(c) = e /\ WellLaid(L)
  BY <1>1, CommandsLaid, Zenon DEF Sent, Wire
<1>3. /\ DOMAIN c = DOMAIN L.fields /\ DOMAIN old = DOMAIN L.fields
      /\ \A f \in DOMAIN L.fields : Value(f, L.fields[f], c[f]) /\ Value(f, L.fields[f], old[f])
  BY <1>2, Zenon DEF IsOf, Value
<1>4. /\ \A f \in DOMAIN fields : f \in DOMAIN L.fields /\ fields[f] = L.fields[f]
      /\ \A f \in DOMAIN L.fields : f \in DOMAIN fields \/ f = "Magic" \/ f = "Version"
      /\ "CommandType" \in DOMAIN fields /\ "Magic" \notin DOMAIN fields /\ "Version" \notin DOMAIN fields
  BY LockCommandFields DEF ParsedLockCommand, ParsedFields, Layout
<1>5. /\ DOMAIN p = DOMAIN old
      /\ \A f \in DOMAIN old :
           p[f] = IF f \in DOMAIN fields THEN Decoded(ParsedLockCommand, e)[f] ELSE old[f]
  BY Zenon DEF DecodedOver
<1> HIDE DEF p
<1>6. ASSUME NEW f \in DOMAIN fields PROVE p[f] = c[f]
  <2>1. f \in DOMAIN L.fields /\ fields[f] = L.fields[f] /\ Value(f, L.fields[f], c[f])
    BY <1>3, <1>4, Zenon
  <2>2. Decoded(ParsedLockCommand, e)[f] = c[f]
    BY <1>2, <2>1, FieldRead
  <2> QED BY <1>3, <1>5, <2>1, <2>2, Zenon
<1>7. \A f \in DOMAIN L.fields : Value(f, L.fields[f], p[f])
  BY <1>3, <1>4, <1>5, <1>6, Zenon
<1>8. IsOf(L, p)
  BY <1>3, <1>5, <1>7, Zenon DEF IsOf, Value
<1>9. OnWire(p) = OnWire(c)
  <2>1. DOMAIN p = DOMAIN c
    BY <1>3, <1>5
  <2>2. \A f \in DOMAIN c \ {"Magic", "Version"} : p[f] = c[f]
    BY <1>3, <1>4, <1>6, Zenon
  <2> HIDE DEF fields, L
  <2> QED BY <2>1, <2>2 DEF OnWire
<1>10. p.CommandType = c.CommandType
  BY <1>4, <1>6
<1> QED BY <1>2, <1>8, <1>9, <1>10, Zenon DEF p
-----------------------------------------------------------------------------
(* The way of commands: what is on its way to the server, and in rbuf.       *)

IsSeq(s) == \E S : s \in Seq(S)

\* A history grows at its end.
LEMMA Appended ==
  ASSUME NEW s, NEW e, IsSeq(s)
  PROVE  /\ IsSeq(Append(s, e)) /\ Len(s) \in Nat /\ Len(Append(s, e)) = Len(s) + 1
         /\ DOMAIN s = 1..Len(s) /\ DOMAIN Append(s, e) = 1..(Len(s) + 1)
         /\ \A i \in 1..Len(s) : Append(s, e)[i] = s[i]
         /\ Append(s, e)[Len(s) + 1] = e
<1>1. PICK S : s \in Seq(S)
  BY DEF IsSeq
<1>2. s \in Seq(S \cup {e})
  BY <1>1
<1>3. Append(s, e) \in Seq(S \cup {e})
  BY <1>2
<1>4. IsSeq(Append(s, e))
  BY <1>3 DEF IsSeq
<1> QED BY <1>1, <1>4

\* The byte q of what the client has sent after k commands.
StreamByte(k, q) == Wire(script[k + 1 + (q \div 64)])[q % 64]

\* What is in rbuf and what is on its way are the commands not yet parsed, whole.
InStream ==
  /\ n + Len(toServer) = 64 * (sent - Len(parsed))
  /\ \A j \in 0..(n - 1) : rbuf[j] = StreamByte(Len(parsed), j)
  /\ \A j \in 1..Len(toServer) : toServer[j] = StreamByte(Len(parsed), n + j - 1)

InType ==
  /\ script \in Scripts /\ sent \in 0..Len(script) /\ toServer \in Seq(Byte)
  /\ at \in {"accept", "read", "parse", "text", "closed"}
  /\ rbuf \in [Positions -> Byte] /\ n \in 0..64 /\ IsSeq(parsed) /\ Len(parsed) <= sent

InPhase ==
  /\ at = "accept" => n = 0
  /\ at = "read" => n < 64
  /\ at = "parse" => n = 64

InParsed == \A i \in 1..Len(parsed) : ParsedAs(parsed[i], script[i])

InInv ==
  /\ InType /\ InPhase /\ InParsed
  /\ at \in {"accept", "read", "parse"} => InStream

inVars == <<script, sent, toServer, at, rbuf, n, parsed>>

\* A script.
LEMMA ScriptType ==
  ASSUME NEW s \in Scripts
  PROVE  Len(s) \in Nat /\ \A i \in 1..Len(s) : Sent(s[i])
  BY CodecConstants DEF Sent

\* A read returns at least one byte, and no more than a command.
LEMMA ReadsType ==
  ASSUME NEW r \in Reads
  PROVE  r \in Nat /\ 1 <= r /\ r <= 64
<1>1. Reads \subseteq 1..64
  BY CodecConstants, Zenon
<1>2. r \in 1..64
  BY <1>1, Zenon
<1> QED BY <1>2

\* The 64 bytes of a message.
LEMMA MessageType ==
  ASSUME NEW buf \in [Positions -> Byte]
  PROVE  /\ Message(buf) \in Seq(Byte) /\ Len(Message(buf)) = 64
         /\ \A i \in 1..64 : Message(buf)[i] = buf[i - 1]
<1>1. \A i \in 1..64 : i - 1 \in Positions
  BY DEF Positions
<1>2. Message(buf) \in [1..64 -> Byte]
  BY <1>1 DEF Message
<1>3. \A i \in 1..64 : Message(buf)[i] = buf[i - 1]
  BY DEF Message
<1> DEFINE m == Message(buf)
<1> HIDE DEF m
<1>4. m \in Seq(Byte)
  <2>1. m \in [1..64 -> Byte] /\ 64 \in Nat
    BY <1>2 DEF m
  <2>2. Seq(Byte) = UNION {[1..k -> Byte] : k \in Nat}
    BY SeqDef, Zenon
  <2> QED BY <2>1, <2>2, Zenon
<1>5. m \in [1..Len(m) -> Byte] /\ Len(m) \in Nat
  BY <1>4, LenProperties
<1>6. DOMAIN m = 1..64 /\ DOMAIN m = 1..Len(m)
  BY <1>2, <1>5 DEF m
<1>7. Len(m) = 64
  <2>1. \A i \in Nat : i \in 1..64 <=> i \in 1..Len(m)
    BY <1>6, Zenon
  <2> DEFINE k == Len(m)
  <2>2. k \in Nat
    BY <1>5
  <2> HIDE DEF k
  <2>3. \A i \in Nat : i \in 1..64 <=> i \in 1..k
    BY <2>1 DEF k
  <2>4. 64 \in 1..k /\ (k > 0 => k \in 1..64)
    BY <2>2, <2>3
  <2>5. k = 64
    BY <2>2, <2>4
  <2> QED BY <2>5 DEF k
<1> QED BY <1>3, <1>4, <1>7 DEF m

\* One sequence after another.
LEMMA Joined ==
  ASSUME NEW S, NEW s \in Seq(S), NEW m \in Seq(S)
  PROVE  /\ s \o m \in Seq(S) /\ Len(s \o m) = Len(s) + Len(m) /\ Len(s) \in Nat
         /\ \A i \in 1..Len(s) : (s \o m)[i] = s[i]
         /\ \A i \in 1..Len(m) : (s \o m)[Len(s) + i] = m[i]
<1>1. s \o m \in Seq(S)
  BY ConcatProperties
<1>2. Len(s \o m) = Len(s) + Len(m) /\ Len(s) \in Nat
  BY ConcatProperties
<1>3. \A i \in 1..Len(s) : (s \o m)[i] = s[i]
  OBVIOUS
<1>4. \A i \in 1..Len(m) : (s \o m)[Len(s) + i] = m[i]
  OBVIOUS
<1> QED BY <1>1, <1>2, <1>3, <1>4, Zenon

\* What follows when m, k bytes, is written after s.
Follows(s, m, k) ==
  /\ s \o m \in Seq(Byte) /\ Len(s \o m) = Len(s) + k /\ Len(s) \in Nat
  /\ \A i \in 1..Len(s) : (s \o m)[i] = s[i]
  /\ \A i \in 1..k : (s \o m)[Len(s) + i] = m[i]

\* A message after the bytes that are there.
LEMMA MessageAppended ==
  ASSUME NEW s \in Seq(Byte), NEW m \in Seq(Byte), NEW k
  PROVE  Len(m) = k => Follows(s, m, k)
<1>1. /\ s \o m \in Seq(Byte) /\ Len(s \o m) = Len(s) + Len(m) /\ Len(s) \in Nat
      /\ \A i \in 1..Len(s) : (s \o m)[i] = s[i]
      /\ \A i \in 1..Len(m) : (s \o m)[Len(s) + i] = m[i]
  BY Joined
<1> QED BY <1>1, Zenon DEF Follows

\* Positions in whole messages.
LEMMA Position ==
  ASSUME NEW a \in Nat, NEW b \in Nat, b < 64
  PROVE  (64 * a + b) \div 64 = a /\ (64 * a + b) % 64 = b
  OBVIOUS

\* Steps that leave the commands on their way alone keep InInv.
LEMMA InInvUnchanged ==
  ASSUME InInv, UNCHANGED inVars
  PROVE  InInv'
  BY DEF InInv, InType, InPhase, InParsed, InStream, StreamByte, inVars

\* At first no command is on its way.
LEMMA InInvInit ==
  ASSUME Init
  PROVE  InInv
<1>1. sent = 0 /\ parsed = <<>> /\ n = 0 /\ toServer = <<>> /\ rbuf = Zeros /\ at = "accept" /\ script \in Scripts
  BY DEF Init
<1>2. Len(script) \in Nat
  BY <1>1, ScriptType
<1>3. InType
  BY <1>1, <1>2, ZerosType DEF InType, IsSeq
<1>4. InPhase /\ InParsed /\ InStream
  BY <1>1 DEF InPhase, InParsed, InStream
<1> QED BY <1>3, <1>4 DEF InInv

\* Write adds a command to what is on its way.
LEMMA InInvWrite ==
  ASSUME InInv, Write
  PROVE  InInv'
<1> DEFINE K == Len(parsed)
           N == Len(toServer)
           m == Message(Wire(script[sent + 1]))
<1>1. /\ sent < Len(script) /\ toServer' = toServer \o m /\ sent' = sent + 1
      /\ UNCHANGED <<script, at, rbuf, n, parsed>>
  BY DEF Write, Wire
<1>2. InType /\ InPhase /\ InParsed /\ (at \in {"accept", "read", "parse"} => InStream)
  BY DEF InInv
<1>3. /\ sent \in Nat /\ Len(script) \in Nat /\ K \in Nat /\ n \in Nat /\ N \in Nat /\ K <= sent
  BY <1>2, ScriptType, Appended DEF InType
<1>10. toServer \in Seq(Byte)
  BY <1>2 DEF InType
<1>4. Sent(script[sent + 1])
  BY <1>1, <1>2, <1>3, ScriptType DEF InType
<1>5. m \in Seq(Byte) /\ Len(m) = 64 /\ \A i \in 1..64 : m[i] = Wire(script[sent + 1])[i - 1]
  BY <1>4, WireHead, MessageType
<1> HIDE DEF m, N, K
<1>9. /\ toServer' \in Seq(Byte) /\ Len(toServer') = N + 64
      /\ \A i \in 1..N : toServer'[i] = toServer[i]
      /\ \A i \in 1..64 : toServer'[N + i] = m[i]
  <2>1. /\ toServer \o m \in Seq(Byte) /\ Len(toServer \o m) = Len(toServer) + 64
        /\ \A i \in 1..Len(toServer) : (toServer \o m)[i] = toServer[i]
        /\ \A i \in 1..64 : (toServer \o m)[Len(toServer) + i] = m[i]
    <3>1. m \in Seq(Byte)
      BY <1>5
    <3>2. Len(m) = 64 => Follows(toServer, m, 64)
      BY <1>10, <3>1, MessageAppended, Zenon
    <3> QED BY <1>5, <3>2, Zenon DEF Follows
  <2> QED BY <1>1, <2>1, Zenon DEF N
<1>6. InType'
  <2>1. /\ script \in Scripts /\ rbuf \in [Positions -> Byte] /\ n \in 0..64 /\ IsSeq(parsed)
        /\ at \in {"accept", "read", "parse", "text", "closed"}
    BY <1>2 DEF InType
  <2>2. sent' \in 0..Len(script) /\ K <= sent'
    BY <1>1, <1>3
  <2> QED BY <1>1, <1>9, <2>1, <2>2 DEF InType, K
<1>7. InPhase' /\ InParsed'
  BY <1>1, <1>2 DEF InPhase, InParsed
<1>8. ASSUME InStream PROVE InStream'
  <2>1. Len(toServer') = N + 64 /\ n + N = 64 * (sent - K)
    BY <1>8, <1>9 DEF InStream, N, K
  <2>2. n + Len(toServer') = 64 * (sent' - K)
    BY <1>1, <1>3, <2>1
  <2>3. ASSUME NEW j \in 1..(N + 64) PROVE toServer'[j] = StreamByte(K, n + j - 1)
    <3>1. CASE j <= N
      <4>1. toServer'[j] = toServer[j]
        <5>1. j \in 1..N
          BY <1>3, <3>1
        <5> QED BY <1>9, <5>1, Zenon
      <4> QED BY <1>3, <1>8, <3>1, <4>1 DEF InStream, N, K
    <3>2. CASE j > N
      <4> DEFINE i == j - N
                 q == n + j - 1
      <4>1. i \in 1..64 /\ toServer'[j] = m[i]
        <5>1. i \in 1..64 /\ N + i = j
          BY <1>3, <3>2
        <5> HIDE DEF i
        <5> QED BY <1>9, <5>1
      <4>2. q = 64 * (sent - K) + (i - 1)
        BY <1>3, <2>1
      <4>3. q \in Nat /\ q \div 64 = sent - K /\ q % 64 = i - 1
        <5> HIDE DEF i, q
        <5>1. sent - K \in Nat /\ i - 1 \in Nat /\ i - 1 < 64
          BY <1>3, <4>1
        <5> QED BY <4>2, <5>1, Position
      <4>4. K + 1 + (q \div 64) = sent + 1
        BY <1>3, <4>3
      <4>5. StreamByte(K, q) = Wire(script[sent + 1])[i - 1]
        BY <4>3, <4>4, Zenon DEF StreamByte
      <4>6. m[i] = Wire(script[sent + 1])[i - 1]
        BY <1>5, <4>1
      <4> QED BY <4>1, <4>5, <4>6, Zenon
    <3> QED BY <1>3, <3>1, <3>2
  <2>4. \A j \in 0..(n - 1) : rbuf[j] = StreamByte(K, j)
    BY <1>8 DEF InStream, K
  <2>5. script' = script /\ n' = n /\ rbuf' = rbuf /\ parsed' = parsed
    BY <1>1
  <2> QED BY <2>1, <2>2, <2>3, <2>4, <2>5 DEF InStream, StreamByte, K
<1> QED BY <1>1, <1>2, <1>6, <1>7, <1>8 DEF InInv

\* The rest of a sequence.
LEMMA Rested ==
  ASSUME NEW S, NEW s \in Seq(S), NEW k \in Nat, k <= Len(s)
  PROVE  /\ SubSeq(s, k + 1, Len(s)) \in Seq(S) /\ Len(SubSeq(s, k + 1, Len(s))) = Len(s) - k
         /\ \A i \in 1..(Len(s) - k) : SubSeq(s, k + 1, Len(s))[i] = s[k + i]
<1>1. SubSeq(s, k + 1, Len(s)) \in Seq(S)
  OBVIOUS
<1>2. Len(SubSeq(s, k + 1, Len(s))) = Len(s) - k
  OBVIOUS
<1>3. \A i \in 1..(Len(s) - k) : SubSeq(s, k + 1, Len(s))[i] = s[k + i]
  OBVIOUS
<1> QED BY <1>1, <1>2, <1>3, Zenon

\* The first bytes of a buffer.
LEMMA InPositions ==
  ASSUME NEW m \in Nat, m <= 64, NEW j \in 0..(m - 1)
  PROVE  j \in Positions
  BY DEF Positions

\* A read of k bytes to where the last one ended.
LEMMA StreamRead ==
  ASSUME InType, InStream, NEW k \in Nat, k <= Len(toServer), n + k <= 64,
         NEW buf \in [Positions -> Byte], \A j \in 0..(n - 1) : buf[j] = rbuf[j],
         rbuf' = Received(buf, n, k), toServer' = SubSeq(toServer, k + 1, Len(toServer)),
         UNCHANGED <<script, sent, parsed>>
  PROVE  /\ rbuf' \in [Positions -> Byte] /\ toServer' \in Seq(Byte)
         /\ n' = n + k => InStream'
<1> DEFINE K == Len(parsed)
           N == Len(toServer)
<1>1. toServer \in Seq(Byte)
  BY DEF InType
<1>2. /\ toServer' \in Seq(Byte) /\ Len(toServer') = N - k
      /\ \A i \in 1..(N - k) : toServer'[i] = toServer[k + i]
  BY <1>1, Rested
<1>3. N \in Nat /\ n \in Nat /\ n <= 64 /\ k <= N /\ \A i \in 1..N : toServer[i] \in Byte
  BY <1>1, LenProperties DEF InType
<1>11. n \in Nat /\ k \in Nat /\ n + k <= 64
  BY <1>3
<1>4. \A i \in Positions :
        rbuf'[i] = IF i \in n..(n + k - 1) THEN toServer[i - n + 1] ELSE buf[i]
  BY DEF Received
<1>5. rbuf' \in [Positions -> Byte]
  <2>1. \A i \in Positions : i \in n..(n + k - 1) => i - n + 1 \in 1..N
    <3> HIDE DEF N
    <3> QED BY <1>3 DEF Positions
  <2>2. \A i \in Positions : rbuf'[i] \in Byte
    BY <1>3, <1>4, <2>1, Zenon
  <2>3. rbuf' = [i \in Positions |-> rbuf'[i]]
    BY Zenon DEF Received
  <2> QED BY <2>2, <2>3
<1>6. /\ n + N = 64 * (sent - K)
      /\ \A j \in 0..(n - 1) : rbuf[j] = StreamByte(K, j)
      /\ \A j \in 1..N : toServer[j] = StreamByte(K, n + j - 1)
  BY DEF InStream
<1> HIDE DEF N, K
<1>7. \A q, i : StreamByte(q, i)' = StreamByte(q, i)
  BY DEF StreamByte
<1>8. ASSUME NEW j \in 0..((n + k) - 1) PROVE rbuf'[j] = StreamByte(K, j)
  <2>1. j \in Positions
    <3> DEFINE m == n + k
    <3>1. m \in Nat /\ m <= 64 /\ j \in 0..(m - 1)
      BY <1>11
    <3> HIDE DEF m
    <3> QED BY <3>1, InPositions, Zenon
  <2>2. CASE j < n
    <3>1. j \notin n..(n + k - 1) /\ j \in 0..(n - 1)
      BY <1>3, <2>2
    <3> QED BY <1>4, <1>6, <2>1, <3>1, Zenon
  <2>3. CASE j >= n
    <3> DEFINE i == j - n + 1
    <3>1. j \in n..(n + k - 1) /\ i \in 1..N /\ n + i - 1 = j
      BY <1>3, <2>3
    <3> HIDE DEF i
    <3>2. rbuf'[j] = toServer[i]
      BY <1>4, <2>1, <3>1, Zenon DEF i
    <3> QED BY <1>6, <3>1, <3>2, Zenon
  <2> QED BY <1>3, <2>2, <2>3
<1>9. ASSUME NEW j \in 1..(N - k) PROVE toServer'[j] = StreamByte(K, (n + k) + j - 1)
  <2> DEFINE i == k + j
  <2>1. i \in 1..N /\ n + i - 1 = (n + k) + j - 1
    BY <1>3
  <2>2. toServer'[j] = toServer[i]
    BY <1>2, Zenon
  <2> HIDE DEF i
  <2> QED BY <1>6, <2>1, <2>2, Zenon
<1>10. ASSUME n' = n + k PROVE InStream'
  <2>1. n' + Len(toServer') = 64 * (sent' - K)
    BY <1>2, <1>3, <1>6, <1>10
  <2>2. \A j \in 0..(n' - 1) : rbuf'[j] = StreamByte(K, j)
    <3> DEFINE m == n + k
    <3>1. \A j \in 0..(m - 1) : rbuf'[j] = StreamByte(K, j)
      BY <1>8, Zenon
    <3>2. n' = m
      BY <1>10
    <3> HIDE DEF m
    <3> QED BY <3>1, <3>2, Zenon
  <2>3. \A j \in 1..Len(toServer') : toServer'[j] = StreamByte(K, n' + j - 1)
    BY <1>2, <1>9, <1>10, Zenon
  <2>4. \A j : StreamByte(K, j)' = StreamByte(K, j)
    BY DEF K, StreamByte
  <2>5. Len(parsed') = K
    BY DEF K
  <2> QED BY <2>1, <2>2, <2>3, <2>4, <2>5 DEF InStream, StreamByte
<1> QED BY <1>2, <1>5, <1>10

\* CheckProtocol: the first read, which is a whole command or ends the session.
LEMMA InInvCheckProtocol ==
  ASSUME InInv, NEW r \in Reads, CheckProtocol(r)
  PROVE  InInv'
<1>1. /\ at = "accept" /\ r <= Len(toServer) /\ rbuf' = Received(Zeros, 0, r)
      /\ toServer' = SubSeq(toServer, r + 1, Len(toServer))
      /\ \/ r = 64 /\ at' = "parse" /\ n' = 64
         \/ at' \in {"text", "closed"} /\ n' = 0
      /\ UNCHANGED <<script, sent, parsed>>
  BY DEF CheckProtocol
<1>2. InType /\ InPhase /\ InParsed /\ InStream /\ n = 0
  BY <1>1 DEF InInv, InPhase
<1>3. r \in Nat /\ r <= 64
  BY ReadsType
<1>4. /\ rbuf' \in [Positions -> Byte] /\ toServer' \in Seq(Byte)
      /\ n' = n + r => InStream'
  <2>1. n + r <= 64 /\ \A j \in 0..(n - 1) : Zeros[j] = rbuf[j]
    BY <1>2, <1>3
  <2>2. rbuf' = Received(Zeros, n, r)
    BY <1>1, <1>2
  <2> QED BY <1>1, <1>2, <1>3, <2>1, <2>2, ZerosType, StreamRead
<1>5. InType' /\ InPhase' /\ InParsed'
  BY <1>1, <1>2, <1>4 DEF InType, InPhase, InParsed
<1>6. at' = "parse" => InStream'
  BY <1>1, <1>2, <1>3, <1>4
<1> QED BY <1>1, <1>5, <1>6 DEF InInv

\* Process: a read of what is missing of a command.
LEMMA InInvProcess ==
  ASSUME InInv, NEW r \in Reads, Process(r)
  PROVE  InInv'
<1> DEFINE k == ReadSize(r, Wanted)
<1>1. /\ at = "read" /\ k <= Len(toServer) /\ rbuf' = Received(rbuf, n, k)
      /\ toServer' = SubSeq(toServer, k + 1, Len(toServer)) /\ n' = n + k
      /\ at' = IF n' >= 64 THEN "parse" ELSE "read"
      /\ UNCHANGED <<script, sent, parsed>>
  BY DEF Process
<1>2. InType /\ InPhase /\ InParsed /\ InStream /\ n < 64
  BY <1>1 DEF InInv, InPhase
<1>3. n \in Nat /\ k \in Nat /\ n + k <= 64
  <2>1. r \in Nat /\ n \in Nat /\ n < 64
    BY <1>2, ReadsType DEF InType
  <2> QED BY <2>1 DEF ReadSize, Wanted
<1> HIDE DEF k
<1>4. rbuf' \in [Positions -> Byte] /\ toServer' \in Seq(Byte) /\ InStream'
  <2>1. rbuf \in [Positions -> Byte]
    BY <1>2 DEF InType
  <2> QED BY <1>1, <1>2, <1>3, <2>1, StreamRead
<1>5. InType'
  BY <1>1, <1>2, <1>3, <1>4 DEF InType
<1>6. InPhase' /\ InParsed'
  BY <1>1, <1>2, <1>3 DEF InPhase, InParsed
<1> QED BY <1>4, <1>5, <1>6 DEF InInv

\* When ProcessParse runs rbuf is the next command of the script.
LEMMA NextCommand ==
  ASSUME InInv, at = "parse"
  PROVE  /\ Len(parsed) \in Nat /\ Len(parsed) + 1 <= sent /\ Sent(script[Len(parsed) + 1])
         /\ rbuf = Wire(script[Len(parsed) + 1])
<1> DEFINE K == Len(parsed)
           c == script[K + 1]
<1>1. InType /\ InStream /\ n = 64
  BY DEF InInv, InPhase
<1>2. /\ K \in Nat /\ sent \in Nat /\ Len(toServer) \in Nat /\ Len(script) \in Nat /\ sent <= Len(script)
      /\ script \in Scripts /\ rbuf \in [Positions -> Byte]
  BY <1>1, Appended, ScriptType, LenProperties DEF InType
<1>3. 64 + Len(toServer) = 64 * (sent - K)
  BY <1>1 DEF InStream
<1>4. K + 1 <= sent /\ K + 1 \in 1..Len(script)
  BY <1>2, <1>3
<1>5. Sent(c)
  BY <1>2, <1>4, ScriptType
<1>6. Wire(c) \in [Positions -> Byte]
  BY <1>5, WireHead
<1>7. ASSUME NEW j \in Positions PROVE rbuf[j] = Wire(c)[j]
  <2>1. j \in 0..(n - 1) /\ j \div 64 = 0 /\ j % 64 = j
    BY <1>1 DEF Positions
  <2>2. rbuf[j] = StreamByte(K, j)
    BY <1>1, <2>1, Zenon DEF InStream
  <2>3. K + 1 + (j \div 64) = K + 1
    BY <1>2, <2>1
  <2> QED BY <2>1, <2>2, <2>3, Zenon DEF StreamByte
<1> HIDE DEF c
<1>8. rbuf = Wire(c)
  BY <1>2, <1>6, <1>7
<1> QED BY <1>2, <1>4, <1>5, <1>8 DEF c

\* A command that is parsed as it was sent leaves the next one to be read.
LEMMA InInvParse ==
  ASSUME InInv, at = "parse", NEW p, ParsedAs(p, script[Len(parsed) + 1]), parsed' = Append(parsed, p),
         at' \in {"read", "text", "closed"}, n' = 0, UNCHANGED <<toServer, rbuf, script, sent>>
  PROVE  InInv'
<1> DEFINE K == Len(parsed)
<1>1. InType /\ InStream /\ InParsed /\ n = 64
  BY DEF InInv, InPhase
<1>2. /\ IsSeq(parsed') /\ Len(parsed') = K + 1 /\ K \in Nat
      /\ \A i \in 1..K : parsed'[i] = parsed[i]
      /\ parsed'[K + 1] = p
  BY <1>1, Appended DEF InType
<1>3. K + 1 <= sent
  BY NextCommand
<1>4. InType'
  BY <1>1, <1>2, <1>3 DEF InType
<1>5. InPhase'
  BY DEF InPhase
<1> HIDE DEF K
<1>6. InParsed'
  <2>1. \A i \in 1..K : ParsedAs(parsed[i], script[i])
    BY <1>1 DEF InParsed, K
  <2>2. ParsedAs(p, script[K + 1])
    BY DEF K
  <2>3. ASSUME NEW i \in 1..(K + 1) PROVE ParsedAs(parsed'[i], script[i])
    <3>1. i \in 1..K \/ i = K + 1
      BY <1>2
    <3> QED BY <1>2, <2>1, <2>2, <3>1, Zenon
  <2> QED BY <1>2, <2>3, Zenon DEF InParsed
<1>7. InStream'
  <2>1. /\ 64 + Len(toServer) = 64 * (sent - K)
        /\ \A j \in 1..Len(toServer) : toServer[j] = StreamByte(K, 64 + j - 1)
    BY <1>1 DEF InStream, K
  <2>2. Len(toServer) \in Nat /\ sent \in Nat
    BY <1>1, LenProperties, ScriptType DEF InType
  <2>3. 0 + Len(toServer) = 64 * (sent - (K + 1))
    BY <1>2, <2>1, <2>2
  <2>4. ASSUME NEW j \in 1..Len(toServer) PROVE toServer[j] = StreamByte(K + 1, 0 + j - 1)
    <3> DEFINE N == Len(toServer)
               q == 0 + j - 1
    <3>1. q \in Nat /\ 64 + j - 1 = 64 + q
      <4> HIDE DEF N
      <4> QED BY <2>2
    <3> HIDE DEF q
    <3>2. (64 + q) \div 64 = 1 + (q \div 64) /\ (64 + q) % 64 = q % 64 /\ q \div 64 \in Nat
      BY <3>1
    <3>3. K + 1 + ((64 + q) \div 64) = (K + 1) + 1 + (q \div 64)
      BY <1>2, <3>2
    <3>4. StreamByte(K, 64 + q) = StreamByte(K + 1, q)
      BY <3>2, <3>3, Zenon DEF StreamByte
    <3> QED BY <2>1, <3>1, <3>4, Zenon DEF q
  <2>6. toServer' = toServer /\ script' = script /\ sent' = sent /\ n' = 0
    OBVIOUS
  <2>7. \A j \in 0..(0 - 1) : FALSE
    OBVIOUS
  <2>8. n' + Len(toServer') = 64 * (sent' - Len(parsed'))
    BY <1>2, <2>3, <2>6, Zenon
  <2>9. \A j \in 1..Len(toServer') : toServer'[j] = Wire(script'[Len(parsed') + 1 + ((n' + j - 1) \div 64)])[(n' + j - 1) % 64]
    BY <1>2, <2>4, <2>6, Zenon DEF StreamByte
  <2>10. \A j \in 0..(n' - 1) : rbuf'[j] = Wire(script'[Len(parsed') + 1 + (j \div 64)])[j % 64]
    BY <2>6, <2>7, Zenon
  <2> QED BY <2>8, <2>9, <2>10, Zenon DEF InStream, StreamByte
<1> QED BY <1>4, <1>5, <1>6, <1>7 DEF InInv
-----------------------------------------------------------------------------
(* The way of results: wbuf, and what is on its way to the client.           *)

\* The message after k messages.
Slice(bytes, k) == [p \in Positions |-> bytes[64 * k + p + 1]]

OutType ==
  /\ toClient \in Seq(Byte) /\ IsSeq(given) /\ IsSeq(got) /\ Len(got) <= Len(given) /\ client \in {"open", "closed"}
  /\ wbuf \in [Positions -> Byte] /\ wbuf[0] = MAGIC /\ wbuf[1] = VERSION

\* What is on its way are the results given and not yet read, whole.
OutStream ==
  /\ Len(toClient) = 64 * (Len(given) - Len(got))
  /\ \A i \in 1..(Len(given) - Len(got)) :
       Understood(Slice(toClient, i - 1), given[Len(got) + i])

OutRead == \A i \in 1..Len(got) : ReadAsGiven(got[i], given[i])

\* The client gives up at a result of a type it does not know.
OutClosed == client = "closed" => Len(got) < Len(given) /\ given[Len(got) + 1].CommandType \notin ResultTypes

OutInv == OutType /\ OutStream /\ OutRead /\ OutClosed

outVars == <<toClient, client, wbuf, given, got>>

\* Steps that leave wbuf and the results on their way alone keep OutInv.
LEMMA OutInvUnchanged ==
  ASSUME OutInv, UNCHANGED outVars
  PROVE  OutInv'
  BY DEF OutInv, OutType, OutStream, OutRead, OutClosed, outVars

\* At first no result is on its way, and wbuf has the two bytes every result begins with.
LEMMA OutInvInit ==
  ASSUME Init
  PROVE  OutInv
<1>1. /\ toClient = <<>> /\ client = "open" /\ given = <<>> /\ got = <<>> /\ wbuf = [Zeros EXCEPT ![0] = MAGIC, ![1] = VERSION]
  BY DEF Init
<1>2. wbuf \in [Positions -> Byte] /\ wbuf[0] = MAGIC /\ wbuf[1] = VERSION
  <2>1. 0 \in Positions /\ 1 \in Positions /\ MAGIC \in Byte /\ VERSION \in Byte
    BY DEF Positions, MAGIC, VERSION, Byte
  <2> QED BY <1>1, <2>1, ZerosType
<1>3. OutType
  BY <1>1, <1>2 DEF OutType, IsSeq
<1>4. OutStream /\ OutRead /\ OutClosed
  BY <1>1 DEF OutStream, OutRead, OutClosed
<1> QED BY <1>3, <1>4 DEF OutInv

\* A result follows those that are on their way.
LEMMA OutInvResult ==
  ASSUME OutInv, NEW layout, NEW r, Result(layout, r), Shown(Encoded(layout, r, wbuf), r), UNCHANGED <<got, client>>
  PROVE  OutInv'
<1> DEFINE e == Encoded(layout, r, wbuf)
           m == Message(e)
           G == Len(got)
           M == Len(given)
           N == Len(toClient)
<1>1. wbuf' = e /\ toClient' = toClient \o m /\ given' = Append(given, r)
  BY DEF Result
<1>2. /\ e \in [Positions -> Byte] /\ e[0] = MAGIC /\ e[1] = VERSION /\ Understood(e, r)
  BY DEF Shown, Understood, IsBinary
<1>3. OutType /\ OutStream /\ OutRead /\ OutClosed
  BY DEF OutInv
<1>4. /\ IsSeq(given') /\ M \in Nat /\ Len(given') = M + 1
      /\ \A i \in 1..M : given'[i] = given[i]
      /\ given'[M + 1] = r
  BY <1>1, <1>3, Appended DEF OutType
<1>5. G \in Nat /\ G <= M
  BY <1>3, Appended DEF OutType
<1>6. toClient \in Seq(Byte) /\ N = 64 * (M - G)
  BY <1>3 DEF OutType, OutStream
<1> HIDE DEF e
<1>7. m \in Seq(Byte) /\ Len(m) = 64 /\ \A i \in 1..64 : m[i] = e[i - 1]
  BY <1>2, MessageType
<1> HIDE DEF m
<1>8. /\ toClient' \in Seq(Byte) /\ Len(toClient') = N + 64 /\ N \in Nat
      /\ \A i \in 1..N : toClient'[i] = toClient[i]
      /\ \A i \in 1..64 : toClient'[N + i] = m[i]
  <2>1. /\ toClient \o m \in Seq(Byte) /\ Len(toClient \o m) = Len(toClient) + 64 /\ Len(toClient) \in Nat
        /\ \A i \in 1..Len(toClient) : (toClient \o m)[i] = toClient[i]
        /\ \A i \in 1..64 : (toClient \o m)[Len(toClient) + i] = m[i]
    <3>1. m \in Seq(Byte) /\ toClient \in Seq(Byte)
      BY <1>6, <1>7
    <3>2. Len(m) = 64 => Follows(toClient, m, 64)
      BY <3>1, MessageAppended, Zenon
    <3> QED BY <1>7, <3>2, Zenon DEF Follows
  <2> QED BY <1>1, <2>1, Zenon
<1> HIDE DEF N, M, G
<1>9. \A i \in 1..(M - G) : Understood(Slice(toClient, i - 1), given[G + i])
  BY <1>3, Zenon DEF OutStream, M, G
<1>10. OutType'
  <2>1. IsSeq(got) /\ G <= M + 1 /\ client' \in {"open", "closed"}
    BY <1>3, <1>4, <1>5 DEF OutType
  <2> QED BY <1>1, <1>2, <1>4, <1>8, <2>1, Zenon DEF OutType, G
<1>11. OutRead'
  <2>1. \A i \in 1..G : ReadAsGiven(got[i], given[i])
    BY <1>3 DEF OutRead, G
  <2>2. \A i \in 1..G : given'[i] = given[i]
    BY <1>4, <1>5
  <2> QED BY <2>1, <2>2, Zenon DEF OutRead, G
<1>12. ASSUME NEW i \in 1..((M + 1) - G)
       PROVE  Understood(Slice(toClient', i - 1), given'[G + i])
  <2>1. CASE i <= M - G
    <3>1. i \in 1..(M - G) /\ G + i \in 1..M
      BY <1>4, <1>5, <2>1
    <3>2. \A p \in Positions : 64 * (i - 1) + p + 1 \in 1..N
      BY <1>4, <1>5, <1>6, <3>1 DEF Positions
    <3>3. Slice(toClient', i - 1) = Slice(toClient, i - 1)
      BY <1>8, <3>2, Zenon DEF Slice
    <3> QED BY <1>4, <1>9, <3>1, <3>3, Zenon
  <2>2. CASE i > M - G
    <3>1. G + i = M + 1 /\ 64 * (i - 1) = N
      BY <1>4, <1>5, <1>6, <2>2
    <3>2. \A p \in Positions : p + 1 \in 1..64 /\ N + p + 1 = N + (p + 1) /\ (p + 1) - 1 = p
      BY <1>8 DEF Positions
    <3>3. ASSUME NEW p \in Positions PROVE toClient'[N + p + 1] = e[p]
      <4> DEFINE k == p + 1
      <4>1. k \in 1..64 /\ N + p + 1 = N + k /\ k - 1 = p
        BY <3>2
      <4> HIDE DEF k
      <4>2. toClient'[N + k] = e[p]
        BY <1>7, <1>8, <4>1, Zenon
      <4> QED BY <4>1, <4>2, Zenon
    <3>4. Slice(toClient', i - 1) = [p \in Positions |-> e[p]]
      BY <3>1, <3>3, Zenon DEF Slice
    <3>5. e = [p \in Positions |-> e[p]]
      BY <1>2, Zenon
    <3> QED BY <1>2, <1>4, <3>1, <3>4, <3>5, Zenon
  <2> QED BY <1>4, <1>5, <2>1, <2>2
<1>13. OutStream'
  <2>1. N + 64 = 64 * ((M + 1) - G)
    BY <1>4, <1>5, <1>6
  <2>2. got' = got
    OBVIOUS
  <2> QED BY <1>4, <1>8, <1>12, <2>1, <2>2, Zenon DEF OutStream, G
<1>14. OutClosed'
  <2>1. client' = client /\ got' = got
    OBVIOUS
  <2>2. ASSUME client = "closed" PROVE G < M + 1 /\ given'[G + 1].CommandType \notin ResultTypes
    <3>1. G < M /\ given[G + 1].CommandType \notin ResultTypes
      BY <1>3, <2>2 DEF OutClosed, G, M
    <3>2. G + 1 \in 1..M /\ G < M + 1
      BY <1>4, <1>5, <3>1
    <3> QED BY <1>4, <3>1, <3>2, Zenon
  <2> QED BY <1>4, <2>1, <2>2, Zenon DEF OutClosed, G
<1> QED BY <1>10, <1>11, <1>13, <1>14 DEF OutInv

\* The client reads the first.
LEMMA OutInvReadResult ==
  ASSUME OutInv, ReadResult
  PROVE  OutInv'
<1> DEFINE buf == ResultBuf
           G == Len(got)
           M == Len(given)
           N == Len(toClient)
           x == ReadBack(buf)
<1>1. /\ N >= 64 /\ got' = Append(got, x) /\ toClient' = SubSeq(toClient, 64 + 1, N)
      /\ client = "open" /\ Known(buf) /\ UNCHANGED <<client, given, wbuf>>
  BY DEF ReadResult, ReadBack
<1>2. OutType /\ OutStream /\ OutRead
  BY DEF OutInv
<1>3. /\ IsSeq(got') /\ G \in Nat /\ Len(got') = G + 1
      /\ \A i \in 1..G : got'[i] = got[i]
      /\ got'[G + 1] = x
  BY <1>1, <1>2, Appended DEF OutType
<1>4. M \in Nat /\ G <= M
  BY <1>2, Appended DEF OutType
<1>5. toClient \in Seq(Byte) /\ N = 64 * (M - G)
  BY <1>2 DEF OutType, OutStream
<1>6. /\ toClient' \in Seq(Byte) /\ Len(toClient') = N - 64 /\ N \in Nat
      /\ \A i \in 1..(N - 64) : toClient'[i] = toClient[64 + i]
  <2>1. 64 \in Nat
    OBVIOUS
  <2>2. N \in Nat
    BY <1>5, LenProperties
  <2> QED BY <1>1, <1>5, <2>1, <2>2, Rested
<1>7. \A i \in 1..(M - G) : Understood(Slice(toClient, i - 1), given[G + i])
  BY <1>2, Zenon DEF OutStream
<1>8. buf = Slice(toClient, 0)
  <2>1. \A p \in Positions : 64 * 0 + p + 1 = p + 1
    BY DEF Positions
  <2> QED BY <2>1, Zenon DEF Slice, ResultBuf
<1> HIDE DEF G, M, N, buf, x
<1>9. G + 1 <= M
  BY <1>1, <1>3, <1>4, <1>5
<1>10. ReadAsGiven(x, given[G + 1])
  <2>1. 1 \in 1..(M - G) /\ 1 - 1 = 0
    BY <1>3, <1>4, <1>9
  <2>2. Understood(buf, given[G + 1])
    BY <1>7, <1>8, <2>1, Zenon
  <2> QED BY <1>1, <2>2, Zenon DEF x, Understood, Known
<1>11. OutType'
  <2>1. /\ IsSeq(given) /\ wbuf \in [Positions -> Byte] /\ wbuf[0] = MAGIC /\ wbuf[1] = VERSION
        /\ client \in {"open", "closed"}
    BY <1>2 DEF OutType
  <2> QED BY <1>1, <1>3, <1>6, <1>9, <2>1, Zenon DEF OutType, M
<1>12. OutRead'
  <2>1. \A i \in 1..G : ReadAsGiven(got[i], given[i])
    BY <1>2 DEF OutRead, G
  <2>2. ASSUME NEW i \in 1..(G + 1) PROVE ReadAsGiven(got'[i], given[i])
    <3>1. i \in 1..G \/ i = G + 1
      BY <1>3
    <3> QED BY <1>3, <1>10, <2>1, <3>1, Zenon
  <2> QED BY <1>1, <1>3, <2>2, Zenon DEF OutRead
<1>13. ASSUME NEW i \in 1..(M - (G + 1))
       PROVE  Understood(Slice(toClient', i - 1), given[(G + 1) + i])
  <2> DEFINE j == i + 1
  <2>1. j \in 1..(M - G) /\ G + j = (G + 1) + i /\ j - 1 = i
    BY <1>3, <1>4
  <2>2. \A p \in Positions : /\ 64 * (i - 1) + p + 1 \in 1..(N - 64)
                             /\ 64 + (64 * (i - 1) + p + 1) = 64 * i + p + 1
    BY <1>3, <1>4, <1>5 DEF Positions
  <2>3. ASSUME NEW p \in Positions PROVE toClient'[64 * (i - 1) + p + 1] = toClient[64 * i + p + 1]
    <3> DEFINE k == 64 * (i - 1) + p + 1
    <3>1. k \in 1..(N - 64) /\ 64 + k = 64 * i + p + 1
      BY <2>2
    <3> HIDE DEF k
    <3>2. toClient'[k] = toClient[64 * i + p + 1]
      BY <1>6, <3>1, Zenon
    <3> QED BY <3>2 DEF k
  <2>4. Slice(toClient', i - 1) = Slice(toClient, i)
    BY <2>3, Zenon DEF Slice
  <2> HIDE DEF j
  <2> QED BY <1>7, <2>1, <2>4, Zenon
<1>14. OutStream'
  <2>1. N - 64 = 64 * (M - (G + 1))
    BY <1>3, <1>4, <1>5
  <2> QED BY <1>1, <1>3, <1>6, <1>13, <2>1, Zenon DEF OutStream, M
<1>15. OutClosed'
  <2>1. client' # "closed"
    BY <1>1
  <2> QED BY <2>1, Zenon DEF OutClosed
<1> QED BY <1>11, <1>12, <1>14, <1>15 DEF OutInv

\* Or gives up: it is of a type the client does not know.
LEMMA OutInvRefuseResult ==
  ASSUME OutInv, RefuseResult
  PROVE  OutInv'
<1> DEFINE G == Len(got)
           M == Len(given)
<1>1. /\ Len(toClient) >= 64 /\ ~Known(ResultBuf) /\ client' = "closed"
      /\ UNCHANGED <<toClient, given, got, wbuf>>
  BY DEF RefuseResult
<1>2. OutType /\ OutStream /\ OutRead
  BY DEF OutInv
<1>3. OutType' /\ OutStream' /\ OutRead'
  BY <1>1, <1>2 DEF OutType, OutStream, OutRead
<1>4. M \in Nat /\ G \in Nat /\ Len(toClient) = 64 * (M - G)
  BY <1>2, Appended DEF OutType, OutStream
<1>5. G < M
  BY <1>1, <1>4
<1>6. Understood(ResultBuf, given[G + 1])
  <2>1. 1 \in 1..(M - G) /\ 1 - 1 = 0
    BY <1>4, <1>5
  <2>2. Understood(Slice(toClient, 0), given[G + 1])
    BY <1>2, <2>1, Zenon DEF OutStream
  <2>3. \A p \in Positions : 64 * 0 + p + 1 = p + 1
    BY DEF Positions
  <2>4. ResultBuf = Slice(toClient, 0)
    BY <2>3, Zenon DEF Slice, ResultBuf
  <2> QED BY <2>2, <2>4, Zenon
<1>7. given[G + 1].CommandType \notin ResultTypes
  BY <1>1, <1>6, Zenon DEF Understood, Known
<1>8. OutClosed'
  BY <1>1, <1>5, <1>7 DEF OutClosed
<1> QED BY <1>3, <1>8 DEF OutInv
-----------------------------------------------------------------------------
(* The record of a granted LOCK.                                             *)

\* The flags a record keeps are the flags a lock has after it was loaded.
LEMMA KeptBits ==
  ASSUME NEW flags \in Nat
  PROVE  /\ Kept(flags) \in Nat /\ Kept(flags) < 65536
         /\ (Unlimited(Kept(flags)) <=> Unlimited(flags))
         /\ (Unlimited(Loaded(Kept(flags))) <=> Unlimited(flags))
         /\ Reported(Loaded(Kept(flags))) = Reported(flags)
<1> DEFINE a == Bit(flags, 16384)
           b == Bit(flags, 2048)
           k == 16384 * a + 2048 * b
<1>1. a \in {0, 1} /\ b \in {0, 1}
  BY DEF Bit
<1>2. Kept(flags) = k /\ (Unlimited(flags) <=> a = 1)
  BY DEF Kept, Unlimited
<1> HIDE DEF a, b
<1>3. /\ k \in Nat /\ k < 65536 /\ Bit(k, 16384) = a /\ Bit(k, 2048) = b /\ Bit(k, 4096) = 0 /\ Bit(k, 512) = 0
  <2>1. k \in {0, 2048, 16384, 18432}
    BY <1>1
  <2>2. CASE a = 0 /\ b = 0
    BY <2>2 DEF Bit
  <2>3. CASE a = 0 /\ b = 1
    BY <2>3 DEF Bit
  <2>4. CASE a = 1 /\ b = 0
    BY <2>4 DEF Bit
  <2>5. CASE a = 1 /\ b = 1
    BY <2>5 DEF Bit
  <2> QED BY <1>1, <2>2, <2>3, <2>4, <2>5
<1>4. Loaded(k) = k + 4096 + 512
  BY <1>3 DEF Loaded
<1>5. Bit(k + 4096 + 512, 16384) = a /\ Bit(k + 4096 + 512, 2048) = b
  <2>2. CASE a = 0 /\ b = 0
    BY <2>2 DEF Bit
  <2>3. CASE a = 0 /\ b = 1
    BY <2>3 DEF Bit
  <2>4. CASE a = 1 /\ b = 0
    BY <2>4 DEF Bit
  <2>5. CASE a = 1 /\ b = 1
    BY <2>5 DEF Bit
  <2> QED BY <1>1, <2>2, <2>3, <2>4, <2>5
<1> HIDE DEF k
<1> QED BY <1>2, <1>3, <1>4, <1>5 DEF Unlimited, Reported, b

\* Times are numbers of eight bytes.
LEMMA TimeFits ==
  ASSUME NEW x \in Nat, x <= Forever
  PROVE  Fits(x, 8)
<1> DEFINE s == Shifts(x)
<1>1. /\ s[1] = x /\ s[1 + 1] = s[1] \div 256 /\ s[2 + 1] = s[2] \div 256 /\ s[3 + 1] = s[3] \div 256
      /\ s[4 + 1] = s[4] \div 256
  BY ShiftsOf
<1>2. 1 + 1 = 2 /\ 2 + 1 = 3 /\ 3 + 1 = 4 /\ 4 + 1 = 5
  OBVIOUS
<1>3. s[2] = x \div 256 /\ s[3] = s[2] \div 256 /\ s[4] = s[3] \div 256 /\ s[5] = s[4] \div 256
  <2> HIDE DEF s
  <2> QED BY <1>1
<1> DEFINE a == s[2]
           b == s[3]
           c == s[4]
<1> HIDE DEF s
<1>4. a \in Nat /\ a <= 8388607
  BY <1>3 DEF Forever
<1>5. b = a \div 256 /\ c = b \div 256
  BY <1>3
<1> HIDE DEF a
<1>6. b \in Nat /\ b <= 32767
  BY <1>4, <1>5
<1> HIDE DEF b
<1>7. c \in Nat /\ c <= 127
  BY <1>5, <1>6
<1>8. s[5] = 0
  BY <1>3, <1>7
<1>9. Fits(x, 4)
  BY <1>2, <1>8, Zenon DEF Fits, s
<1>10. \A i \in 5..9 : Shifts(x)[i] = 0
  BY <1>9, NothingLeft
<1>11. 8 + 1 \in 5..9
  OBVIOUS
<1> QED BY <1>10, <1>11, Zenon DEF Fits

\* AddLock: when a lease ends, if it says so.
LEMMA LeaseEnd ==
  ASSUME NEW c, IsOf(LockCommand, c)
  PROVE  /\ ExpriedTime(c) \in Nat /\ ExpriedTime(c) <= Forever
         /\ c.ExpriedFlag \in Nat /\ c.Expried \in Nat /\ c.Expried < 65536
<1>1. c.Expried \in Nat /\ c.Expried < 65536 /\ c.ExpriedFlag \in Nat
  BY LockCommandType, TwoBytes
<1> QED BY <1>1 DEF ExpriedTime, Forever, StartTime

\* The second of a record: no later than now and than the end of the lease.
RecordTime(end, now) == IF end > now THEN now ELSE end

Gone(t) == IF t - StartTime > 65535 \/ t - StartTime < 0 THEN 0 ELSE uint16(t - StartTime)

\* What is left of a lease at a time.
Left(c, end, t) == IF Unlimited(c.ExpriedFlag) THEN 0 ELSE uint16(end - t)

\* The fields of a record made in the pool.
IsRecord(r, c, end, now) ==
  /\ DOMAIN r = DOMAIN AofLock.fields
  /\ r["CommandType"] = COMMAND_LOCK /\ r["AofId"] = 0 /\ r["AofIndex"] = 0 /\ r["AofFlag"] = 0
  /\ r["Flag"] = c.Flag /\ r["DbId"] = c.DbId /\ r["LockId"] = c.LockId /\ r["LockKey"] = c.LockKey
  /\ r["Count"] = c.Count /\ r["Rcount"] = c.Rcount /\ r["ExpriedFlag"] = Kept(c.ExpriedFlag)
  /\ r["CommandTime"] = RecordTime(end, now) /\ r["StartTime"] = Gone(RecordTime(end, now))
  /\ r["ExpriedTime"] = Left(c, end, RecordTime(end, now))

\* RecordOf makes such a record.
LEMMA RecordFields ==
  ASSUME NEW c, NEW end, NEW now
  PROVE  IsRecord(RecordOf(c, end, now, TRUE), c, end, now)
<1> DEFINE t == RecordTime(end, now)
           r == [CommandType |-> COMMAND_LOCK, AofIndex |-> 0, AofId |-> 0, CommandTime |-> t,
                 Flag |-> c.Flag, DbId |-> c.DbId, LockId |-> c.LockId, LockKey |-> c.LockKey,
                 AofFlag |-> 0, StartTime |-> Gone(t), ExpriedFlag |-> Kept(c.ExpriedFlag),
                 ExpriedTime |-> Left(c, end, t), Count |-> c.Count, Rcount |-> c.Rcount]
<1>1. RecordOf(c, end, now, TRUE) = r
  BY DEF RecordOf, RecordTime, Gone, Left
<1>2. DOMAIN r = DOMAIN AofLock.fields
  BY DEF AofLock, Layout
<1>3. /\ r["CommandType"] = COMMAND_LOCK /\ r["AofId"] = 0 /\ r["AofIndex"] = 0 /\ r["AofFlag"] = 0
      /\ r["Flag"] = c.Flag /\ r["DbId"] = c.DbId /\ r["LockId"] = c.LockId /\ r["LockKey"] = c.LockKey
      /\ r["Count"] = c.Count /\ r["Rcount"] = c.Rcount /\ r["ExpriedFlag"] = Kept(c.ExpriedFlag)
      /\ r["CommandTime"] = t /\ r["StartTime"] = Gone(t) /\ r["ExpriedTime"] = Left(c, end, t)
  OBVIOUS
<1> HIDE DEF r
<1> QED BY <1>1, <1>2, <1>3, Zenon DEF IsRecord

\* They are numbers of the widths they are written with.
LEMMA RecordNumbers ==
  ASSUME NEW c, IsOf(LockCommand, c), NEW end \in Nat, end <= Forever, NEW now \in Nat
  PROVE  /\ RecordTime(end, now) \in Nat /\ Fits(RecordTime(end, now), 8)
         /\ Fits(Gone(RecordTime(end, now)), 2) /\ Fits(Left(c, end, RecordTime(end, now)), 2)
         /\ Fits(Kept(c.ExpriedFlag), 2)
<1> DEFINE t == RecordTime(end, now)
<1>1. StartTime \in Nat /\ Forever \in Nat
  BY DEF StartTime, Forever
<1>2. t = IF end > now THEN now ELSE end
  BY DEF RecordTime
<1> HIDE DEF t
<1>3. t \in Nat /\ t <= Forever /\ t <= end
  BY <1>1, <1>2
<1>4. Fits(t, 8)
  BY <1>3, TimeFits
<1>5. \A x \in Nat : Fits(uint16(x), 2)
  <2>1. \A x \in Nat : uint16(x) \in Nat /\ uint16(x) < 65536
    BY DEF uint16
  <2> QED BY <2>1, TwoBytes
<1>6. Fits(0, 2)
  BY ZeroFits
<1>7. (t - StartTime \in Nat \/ t - StartTime < 0) /\ end - t \in Nat
  BY <1>1, <1>3
<1>8. Fits(Gone(t), 2)
  <2>1. CASE t - StartTime < 0
    BY <1>6, <2>1 DEF Gone
  <2>2. CASE t - StartTime \in Nat
    <3>1. Gone(t) = 0 \/ Gone(t) = uint16(t - StartTime)
      BY DEF Gone
    <3> QED BY <1>5, <1>6, <2>2, <3>1
  <2> QED BY <1>7, <2>1, <2>2
<1>9. Fits(Left(c, end, t), 2)
  BY <1>5, <1>6, <1>7, Zenon DEF Left
<1>10. Fits(Kept(c.ExpriedFlag), 2)
  BY LeaseEnd, KeptBits, TwoBytes
<1> QED BY <1>3, <1>4, <1>8, <1>9, <1>10 DEF t

\* So AofLock.Encode can write it.
LEMMA RecordCarried ==
  ASSUME NEW c, IsOf(LockCommand, c), NEW end \in Nat, end <= Forever, NEW now \in Nat
  PROVE  Carries(AofLock, RecordOf(c, end, now, TRUE))
<1> DEFINE r == RecordOf(c, end, now, TRUE)
           t == RecordTime(end, now)
<1>1. /\ Fits(t, 8) /\ Fits(Gone(t), 2) /\ Fits(Left(c, end, t), 2) /\ Fits(Kept(c.ExpriedFlag), 2)
  BY RecordNumbers
<1>2. /\ c.LockId \in [1..16 -> Byte] /\ c.LockKey \in [1..16 -> Byte] /\ Fits(c.DbId, 1)
      /\ Fits(c.Flag, 1) /\ Fits(c.Rcount, 1) /\ Fits(c.Count, 2)
  BY LockCommandType
<1>3. Fits(0, 4) /\ Fits(0, 2) /\ Fits(COMMAND_LOCK, 1)
  BY ZeroFits, OneByte DEF COMMAND_LOCK, Byte
<1>4. /\ Fits(r["CommandType"], 1) /\ Fits(r["AofId"], 4) /\ Fits(r["AofIndex"], 4)
      /\ Fits(r["CommandTime"], 8) /\ Fits(r["Flag"], 1) /\ Fits(r["DbId"], 1)
      /\ r["LockId"] \in [1..16 -> Byte] /\ r["LockKey"] \in [1..16 -> Byte]
      /\ Fits(r["StartTime"], 2) /\ Fits(r["AofFlag"], 2) /\ Fits(r["ExpriedTime"], 2)
      /\ Fits(r["ExpriedFlag"], 2) /\ Fits(r["Count"], 2) /\ Fits(r["Rcount"], 1)
  <2>1. /\ r["CommandType"] = COMMAND_LOCK /\ r["AofId"] = 0 /\ r["AofIndex"] = 0 /\ r["AofFlag"] = 0
        /\ r["Flag"] = c.Flag /\ r["DbId"] = c.DbId /\ r["LockId"] = c.LockId /\ r["LockKey"] = c.LockKey
        /\ r["Count"] = c.Count /\ r["Rcount"] = c.Rcount /\ r["ExpriedFlag"] = Kept(c.ExpriedFlag)
        /\ r["CommandTime"] = t /\ r["StartTime"] = Gone(t) /\ r["ExpriedTime"] = Left(c, end, t)
    <3>1. IsRecord(r, c, end, now)
      BY RecordFields
    <3> HIDE DEF r
    <3> QED BY <3>1, Zenon DEF IsRecord
  <2> HIDE DEF r, t
  <2> QED BY <1>1, <1>2, <1>3, <2>1
<1> HIDE DEF r
<1>5. Carries(AofLock, r)
  BY <1>4 DEF Carries, Value, AofLock, Layout, At, Ids
<1> QED BY <1>5 DEF r

\* HandleLock: UpdateAofIndexId writes over the number of the record and leaves
\* its other fields.
Numbered(buf) == Encoded(AofIndexId, [AofId |-> 1, AofIndex |-> 1], buf)

\* UpdateAofIndexId leaves the fields between which it writes.
LEMMA RecordHeld ==
  ASSUME NEW r, Carries(AofLock, r), NEW f \in DOMAIN AofLock.fields, f # "AofId", f # "AofIndex"
  PROVE  Decoded(AofLock, Numbered(Encoded(AofLock, r, Zeros)))[f] = r[f]
<1> DEFINE p == AofLock.fields[f]
           b == Encoded(AofLock, r, Zeros)
           e == Numbered(b)
           q == AofLock.fields["AofId"]
           s == AofLock.fields["AofIndex"]
<1>1. Inside(f, p) /\ Value(f, p, r[f]) /\ Holds(b, f, p, r[f])
  BY RecordsLaid, EncodedHolds, Zenon DEF WellLaid, Carries
<1>2. /\ "AofId" \in DOMAIN AofLock.fields /\ "AofIndex" \in DOMAIN AofLock.fields
      /\ AofIndexId.blank = 64 /\ DOMAIN AofIndexId.fields = {"AofId", "AofIndex"}
      /\ AofIndexId.fields["AofId"] = q /\ AofIndexId.fields["AofIndex"] = s
  BY DEF AofLock, AofIndexId, Layout
<1>3. Apart(p, q) /\ Apart(p, s) /\ Inside("AofId", q) /\ Inside("AofIndex", s)
  BY <1>2, RecordsLaid, Zenon DEF WellLaid
<1> HIDE DEF p, q, s, b
<1>4. ASSUME NEW i \in 1..p.width PROVE e[p.first + i - 1] = b[p.first + i - 1]
  <2> DEFINE j == p.first + i - 1
  <2>1. j \in Positions /\ ~(j >= 64) /\ Covers(p, j)
    BY <1>1 DEF Inside, Positions, Covers
  <2> HIDE DEF j
  <2>2. j \in Nat
    BY <2>1 DEF Positions
  <2>3. ~Covers(q, j) /\ ~Covers(s, j)
    BY <1>1, <1>3, <2>1, <2>2 DEF Apart, Inside, Covers
  <2>4. \A g \in DOMAIN AofIndexId.fields : ~Covers(AofIndexId.fields[g], j)
    BY <1>2, <2>3, Zenon
  <2>5. e[j] = IF j >= AofIndexId.blank THEN 0 ELSE b[j]
    BY <2>1, <2>4, EncodedKeeps DEF Numbered
  <2>6. e[j] = b[j]
    BY <1>2, <2>1, <2>5, Zenon
  <2> QED BY <2>6 DEF j
<1>5. Holds(e, f, p, r[f])
  BY <1>1, <1>4, Zenon DEF Holds
<1> QED BY <1>1, <1>5, DecodedField DEF p, b

-----------------------------------------------------------------------------
\* The lease of the record: a LOCK that was granted.
Ended(end) == end \in Nat /\ end <= Forever

Held ==
  /\ lease.at \in {"millisecond", "held", "over"} /\ Ended(lease.end)
  /\ IsOf(LockCommand, lease.command) /\ lease.command.CommandType = COMMAND_LOCK

\* A moment, and a second one after it.
Moment(t) == \E x \in Moments : t = StartTime + x

\* A record made in the pool has the fields RecordOf gives it, in memory and in the
\* file, until it is read back.
RecordInv ==
  \/ record = None
  \/ /\ record.at = "queued" /\ Moment(record.time) /\ Ended(record.end)
     /\ record.pooled => record.lock = RecordOf(lease.command, record.end, record.time, TRUE)
  \/ /\ record.at = "written" /\ Moment(record.time) /\ Ended(record.end)
     /\ record.pooled => \A f \in DOMAIN AofLock.fields \ {"AofId", "AofIndex"} :
                           Decoded(AofLock, record.buf)[f] = RecordOf(lease.command, record.end, record.time, TRUE)[f]
  \/ record.at \in {"skipped", "passed", "loaded"} /\ RecordRestored

LeaseInv == (lease = None /\ record = None) \/ (Held /\ RecordInv)

\* The moments of the log.
LEMMA MomentType ==
  ASSUME NEW t, Moment(t)
  PROVE  t \in Nat
<1>1. PICK x \in Moments : t = StartTime + x
  BY DEF Moment
<1>2. x \in Nat
  BY CodecConstants, Zenon
<1>3. StartTime \in Nat
  BY DEF StartTime
<1> QED BY <1>1, <1>2, <1>3

\* What a record tells of the end of its lease.
Tells(c, e, t) ==
  /\ RecordTime(e, t) + Left(c, e, RecordTime(e, t)) = e
  /\ \A y \in Nat : t <= y /\ y <= e => y + uint16(e - y) = e /\ uint16(e - y) = e - y

\* What is left of a lease is what was left when the record was made, less the
\* time since then; where the record has it.
LEMMA LeftOver ==
  ASSUME NEW c, NEW e \in Nat, NEW t \in Nat, Recordable(c, e, t)
  PROVE  Tells(c, e, t)
<1> DEFINE r == RecordTime(e, t)
<1>2. r = IF e > t THEN t ELSE e
  BY DEF RecordTime
<1>3. Left(c, e, r) = uint16(e - r)
  BY DEF Left, Recordable
<1>4. e - t < 65536
  BY DEF Recordable
<1> HIDE DEF r
<1>5. \A x \in Nat : x < 65536 => uint16(x) = x
  BY DEF uint16
<1>6. r \in Nat /\ e - r \in Nat /\ e - r < 65536
  BY <1>2, <1>4
<1>7. uint16(e - r) = e - r
  BY <1>5, <1>6
<1>8. r + Left(c, e, r) = e
  BY <1>3, <1>6, <1>7
<1>9. ASSUME NEW y \in Nat, t <= y, y <= e PROVE y + uint16(e - y) = e /\ uint16(e - y) = e - y
  <2>1. e - y \in Nat /\ e - y < 65536
    BY <1>4, <1>9
  <2>2. uint16(e - y) = e - y
    BY <1>5, <2>1
  <2> QED BY <2>1, <2>2
<1> QED BY <1>8, <1>9, Zenon DEF r, Tells

\* CheckMillisecondExpried gives the lease an end; a record made before is as it was.
LEMMA LeaseInvCheckMillisecondExpried ==
  ASSUME LeaseInv, NEW x \in {0, 1}, CheckMillisecondExpried(x)
  PROVE  LeaseInv'
<1> DEFINE q == lease.command.Expried \div 1000
<1>1. /\ lease.at = "millisecond" /\ record' = record
      /\ lease' = [lease EXCEPT !.at = IF q > 0 THEN "held" ELSE "over", !.end = StartTime + x + q + 1]
  BY DEF CheckMillisecondExpried
<1>2. Held /\ RecordInv
  BY <1>1 DEF LeaseInv, None
<1>3. lease.command.Expried \in Nat /\ lease.command.Expried < 65536
  BY <1>2, LeaseEnd DEF Held
<1>4. q \in Nat /\ q <= 65
  BY <1>3
<1> HIDE DEF q
<1>5. Ended(StartTime + x + q + 1)
  BY <1>4 DEF Ended, StartTime, Forever
<1>6. /\ lease'.command = lease.command /\ lease'.at \in {"held", "over"}
      /\ lease'.end = StartTime + x + q + 1
  BY <1>1
<1>7. Held'
  BY <1>2, <1>5, <1>6 DEF Held
<1>8. RecordRestored' <=> RecordRestored
  BY <1>1, <1>6, Zenon DEF RecordRestored
<1>9. RecordInv'
  BY <1>1, <1>2, <1>6, <1>8, Zenon DEF RecordInv
<1> QED BY <1>7, <1>9 DEF LeaseInv

\* Push: the record of the lease as it is now.
LEMMA LeaseInvPush ==
  ASSUME LeaseInv, NEW s \in Moments, NEW p \in BOOLEAN, Push(s, p)
  PROVE  LeaseInv'
<1>1. /\ lease.at \in {"held", "millisecond"} /\ UNCHANGED lease
      /\ record' = [at |-> "queued", time |-> StartTime + s, pooled |-> p, end |-> lease.end,
                    lock |-> RecordOf(lease.command, lease.end, StartTime + s, p)]
  BY DEF Push
<1>2. Held
  BY <1>1 DEF LeaseInv, None
<1>3. Held'
  BY <1>1, <1>2 DEF Held
<1>4. /\ record'.at = "queued" /\ record'.time = StartTime + s /\ record'.pooled = p
      /\ record'.end = lease.end
      /\ record'.lock = RecordOf(lease.command, lease.end, StartTime + s, p)
  BY <1>1
<1>5. Moment(record'.time) /\ Ended(record'.end)
  BY <1>2, <1>4 DEF Moment, Held
<1>6. record'.pooled => record'.lock = RecordOf(lease'.command, record'.end, record'.time, TRUE)
  BY <1>1, <1>4, Zenon
<1>7. RecordInv'
  BY <1>4, <1>5, <1>6, Zenon DEF RecordInv
<1> QED BY <1>3, <1>7 DEF LeaseInv

\* HandleLock and PushLock: the record in memory becomes the record in the file.
LEMMA LeaseInvHandleLock ==
  ASSUME LeaseInv, HandleLock
  PROVE  LeaseInv'
<1>1. /\ record.at = "queued" /\ UNCHANGED lease
      /\ record' = [at |-> "written", time |-> record.time, pooled |-> record.pooled, end |-> record.end,
                    buf |-> Numbered(Encoded(AofLock, record.lock, Zeros))]
  BY DEF HandleLock, Numbered
<1>2. /\ Held /\ Moment(record.time) /\ Ended(record.end)
      /\ record.pooled => record.lock = RecordOf(lease.command, record.end, record.time, TRUE)
  <2>1. record # None /\ record.at # "written" /\ record.at \notin {"skipped", "passed", "loaded"}
    BY <1>1 DEF None
  <2> QED BY <2>1, Zenon DEF LeaseInv, RecordInv
<1>3. Held'
  BY <1>1, <1>2 DEF Held
<1>4. /\ record'.at = "written" /\ record'.time = record.time /\ record'.pooled = record.pooled
      /\ record'.end = record.end
      /\ record'.buf = Numbered(Encoded(AofLock, record.lock, Zeros))
  BY <1>1
<1>5. ASSUME record.pooled, NEW f \in DOMAIN AofLock.fields, f # "AofId", f # "AofIndex"
      PROVE  Decoded(AofLock, record'.buf)[f] = RecordOf(lease.command, record.end, record.time, TRUE)[f]
  <2> DEFINE r == RecordOf(lease.command, record.end, record.time, TRUE)
  <2>1. record.time \in Nat /\ record.end \in Nat /\ record.end <= Forever
    BY <1>2, MomentType DEF Ended
  <2>2. IsOf(LockCommand, lease.command)
    BY <1>2 DEF Held
  <2>3. Carries(AofLock, r)
    BY <2>1, <2>2, RecordCarried
  <2>4. record.lock = r
    BY <1>2, <1>5, Zenon
  <2> HIDE DEF r
  <2>5. Decoded(AofLock, Numbered(Encoded(AofLock, r, Zeros)))[f] = r[f]
    BY <1>5, <2>3, RecordHeld
  <2>6. Decoded(AofLock, record'.buf)[f] = r[f]
    BY <1>4, <2>4, <2>5, Zenon
  <2> QED BY <2>6 DEF r
<1>6. RecordInv'
  BY <1>1, <1>2, <1>4, <1>5, Zenon DEF RecordInv
<1> QED BY <1>3, <1>6 DEF LeaseInv

\* LoadAofFile: what comes out of the file is the lock that was granted.
LEMMA LeaseInvLoad ==
  ASSUME LeaseInv, NEW s \in Moments, NEW delay \in Delays, Load(s, delay)
  PROVE  LeaseInv'
<1> DEFINE c == lease.command
           t == record.time
           e == record.end
           lock == Decoded(AofLock, record.buf)
           now == t + s
           current == now + delay
           unlimited == Unlimited(lock.ExpriedFlag)
           end == lock.CommandTime + lock.ExpriedTime
           over == ~unlimited /\ end <= now
           command == [CommandType |-> lock.CommandType, Flag |-> lock.Flag, DbId |-> lock.DbId,
                       LockId |-> lock.LockId, LockKey |-> lock.LockKey, Timeout |-> 5, TimeoutFlag |-> 0,
                       ExpriedFlag |-> Loaded(lock.ExpriedFlag),
                       Expried |-> IF unlimited THEN 0 ELSE uint16(end - current),
                       Count |-> lock.Count, Rcount |-> lock.Rcount]
           became == IF over THEN "skipped" ELSE IF command.Expried = 0 THEN "passed" ELSE "loaded"
<1>1. /\ record.at = "written" /\ UNCHANGED lease
      /\ record' = [at |-> became, time |-> t, now |-> now, current |-> current,
                    pooled |-> record.pooled, end |-> e, command |-> command]
  BY DEF Load
<1>2. /\ Held /\ Moment(t) /\ Ended(e)
      /\ record.pooled => \A f \in DOMAIN AofLock.fields \ {"AofId", "AofIndex"} :
                           lock[f] = RecordOf(c, e, t, TRUE)[f]
  <2>1. record # None /\ record.at # "queued" /\ record.at \notin {"skipped", "passed", "loaded"}
    BY <1>1 DEF None
  <2> QED BY <2>1, Zenon DEF LeaseInv, RecordInv
<1>3. Held'
  BY <1>1, <1>2 DEF Held
<1>4. IsOf(LockCommand, c) /\ c.CommandType = COMMAND_LOCK
  BY <1>2 DEF Held
<1>5. t \in Nat /\ s \in Nat /\ delay \in Nat /\ e \in Nat
  <2>1. s \in Nat /\ delay \in Nat
    BY CodecConstants, Zenon
  <2> QED BY <1>2, <2>1, MomentType DEF Ended
<1>6. /\ record'.at = became /\ record'.time = t /\ record'.now = now /\ record'.current = current
      /\ record'.pooled = record.pooled /\ record'.end = e /\ record'.command = command
  <2> HIDE DEF command, became, now, current
  <2> QED BY <1>1
<1>7. /\ command["CommandType"] = lock["CommandType"] /\ command["Flag"] = lock["Flag"]
      /\ command["DbId"] = lock["DbId"] /\ command["LockId"] = lock["LockId"]
      /\ command["LockKey"] = lock["LockKey"] /\ command["Count"] = lock["Count"]
      /\ command["Rcount"] = lock["Rcount"] /\ command.ExpriedFlag = Loaded(lock.ExpriedFlag)
      /\ command.Expried = IF unlimited THEN 0 ELSE uint16(end - current)
  <2> HIDE DEF lock, unlimited, end, current
  <2> QED OBVIOUS
<1>8. ASSUME record.pooled, Recordable(c, e, t)
      PROVE  /\ over <=> e <= now
             /\ now < e /\ current <= e =>
                  /\ command.Expried # 0 <=> current < e
                  /\ \A f \in {"CommandType", "Flag", "DbId", "LockId", "LockKey", "Count", "Rcount"} :
                       command[f] = c[f]
                  /\ ~Unlimited(command.ExpriedFlag)
                  /\ Reported(command.ExpriedFlag) = Reported(c.ExpriedFlag)
                  /\ current + command.Expried = e
  <2> DEFINE r == RecordOf(c, e, t, TRUE)
  <2> HIDE DEF lock, c, t, e
  <2>1. \A f \in DOMAIN AofLock.fields \ {"AofId", "AofIndex"} : lock[f] = r[f]
    BY <1>2, <1>8, Zenon
  <2>2. {"CommandType", "Flag", "DbId", "LockId", "LockKey", "Count", "Rcount", "ExpriedFlag",
         "CommandTime", "ExpriedTime"} \subseteq DOMAIN AofLock.fields \ {"AofId", "AofIndex"}
    BY DEF AofLock, Layout
  <2> DEFINE names == DOMAIN AofLock.fields \ {"AofId", "AofIndex"}
  <2> HIDE DEF names, r
  <2>8. /\ lock["CommandType"] = r["CommandType"] /\ lock["Flag"] = r["Flag"] /\ lock["DbId"] = r["DbId"]
        /\ lock["LockId"] = r["LockId"] /\ lock["LockKey"] = r["LockKey"] /\ lock["Count"] = r["Count"]
        /\ lock["Rcount"] = r["Rcount"] /\ lock["ExpriedFlag"] = r["ExpriedFlag"]
        /\ lock["CommandTime"] = r["CommandTime"] /\ lock["ExpriedTime"] = r["ExpriedTime"]
    <3>1. \A f \in names : lock[f] = r[f]
      BY <2>1 DEF names
    <3>2. /\ "CommandType" \in names /\ "Flag" \in names /\ "DbId" \in names /\ "LockId" \in names
          /\ "LockKey" \in names /\ "Count" \in names /\ "Rcount" \in names /\ "ExpriedFlag" \in names
          /\ "CommandTime" \in names /\ "ExpriedTime" \in names
      BY <2>2 DEF names
    <3> QED BY <3>1, <3>2, Zenon
  <2>3. /\ lock["CommandType"] = COMMAND_LOCK /\ lock["Flag"] = c["Flag"] /\ lock["DbId"] = c["DbId"]
        /\ lock["LockId"] = c["LockId"] /\ lock["LockKey"] = c["LockKey"] /\ lock["Count"] = c["Count"]
        /\ lock["Rcount"] = c["Rcount"] /\ lock["ExpriedFlag"] = Kept(c.ExpriedFlag)
        /\ lock["CommandTime"] = RecordTime(e, t) /\ lock["ExpriedTime"] = Left(c, e, RecordTime(e, t))
    <3>1. /\ r["CommandType"] = COMMAND_LOCK /\ r["Flag"] = c.Flag /\ r["DbId"] = c.DbId
          /\ r["LockId"] = c.LockId /\ r["LockKey"] = c.LockKey /\ r["Count"] = c.Count
          /\ r["Rcount"] = c.Rcount /\ r["ExpriedFlag"] = Kept(c.ExpriedFlag)
          /\ r["CommandTime"] = RecordTime(e, t) /\ r["ExpriedTime"] = Left(c, e, RecordTime(e, t))
      <4>1. IsRecord(r, c, e, t)
        BY RecordFields DEF r
      <4> QED BY <4>1, Zenon DEF IsRecord
    <3> QED BY <2>8, <3>1, Zenon
  <2>4. /\ ~unlimited /\ ~Unlimited(command.ExpriedFlag)
        /\ Reported(command.ExpriedFlag) = Reported(c.ExpriedFlag)
    <3>1. c.ExpriedFlag \in Nat /\ ~Unlimited(c.ExpriedFlag)
      BY <1>4, <1>8, LeaseEnd DEF Recordable
    <3> HIDE DEF command
    <3> QED BY <1>7, <2>3, <3>1, KeptBits
  <2>5. \A f \in {"CommandType", "Flag", "DbId", "LockId", "LockKey", "Count", "Rcount"} : command[f] = c[f]
    <3> HIDE DEF command, c
    <3> QED BY <1>4, <1>7, <2>3
  <2>7. /\ RecordTime(e, t) + Left(c, e, RecordTime(e, t)) = e
        /\ \A y \in Nat : t <= y /\ y <= e => y + uint16(e - y) = e /\ uint16(e - y) = e - y
    <3>1. Tells(c, e, t)
      BY <1>5, <1>8, LeftOver
    <3> QED BY <3>1, Zenon DEF Tells
  <2>6. end = e
    <3>1. end = lock["CommandTime"] + lock["ExpriedTime"]
      BY DEF end
    <3> HIDE DEF end
    <3> QED BY <2>3, <2>7, <3>1
  <2>10. current \in Nat /\ t <= current
    BY <1>5
  <2>9. current <= e => current + uint16(e - current) = e /\ uint16(e - current) = e - current
    <3> HIDE DEF current
    <3> QED BY <2>7, <2>10
  <2> HIDE DEF end, current, unlimited
  <2>11. over <=> e <= now
    BY <2>4, <2>6, Zenon
  <2> HIDE DEF command, over
  <2>12. command.Expried = uint16(e - current)
    BY <1>7, <2>4, <2>6, Zenon
  <2>13. current <= e => (command.Expried # 0 <=> current < e)
    BY <1>5, <2>9, <2>10, <2>12
  <2> QED BY <2>4, <2>5, <2>9, <2>11, <2>12, <2>13, Zenon
<1>13. now \in Nat /\ (now < e <=> ~(e <= now))
  BY <1>5
<1> HIDE DEF over, command, now, current
<1>9. "skipped" # "loaded" /\ "skipped" # "passed" /\ "passed" # "loaded"
  OBVIOUS
<1>10. RecordRestored'
  <2>1. (record'.at = "skipped" <=> over) /\ (record'.at = "loaded" <=> ~over /\ command.Expried # 0)
    BY <1>6, <1>9, Zenon
  <2>2. lease' = lease
    BY <1>1
  <2>3. ASSUME record.pooled, Recordable(c, e, t)
        PROVE  /\ record'.at = "skipped" <=> e <= record'.now
               /\ record'.now < e /\ record'.current <= e =>
                    /\ record'.at = "loaded" <=> record'.current < e
                    /\ \A f \in {"CommandType", "Flag", "DbId", "LockId", "LockKey", "Count", "Rcount"} :
                         record'.command[f] = c[f]
                    /\ ~Unlimited(record'.command.ExpriedFlag)
                    /\ Reported(record'.command.ExpriedFlag) = Reported(c.ExpriedFlag)
                    /\ record'.current + record'.command.Expried = e
    BY <1>6, <1>8, <1>13, <2>1, <2>3, Zenon
  <2> QED BY <1>6, <2>2, <2>3, Zenon DEF RecordRestored
<1>11. RecordInv'
  <2>1. record'.at \in {"skipped", "passed", "loaded"}
    BY <1>6
  <2> QED BY <1>10, <2>1, Zenon DEF RecordInv
<1> QED BY <1>3, <1>11 DEF LeaseInv
-----------------------------------------------------------------------------
(* Commands in the pool and with the database.                               *)

\* Commands that were used before, and those the database has still to answer.
Free(s) == \E S : s \in Seq(S) /\ \A c \in S : IsOf(LockCommand, c)

Waiting(s) == \E S : s \in Seq(S) /\ \A c \in S : IsOf(LockCommand, c) /\ IsLock(c.CommandType)

PoolInv == Free(pool) /\ Waiting(pending)

\* A command of the pool, or a new one.
LEMMA PooledType ==
  ASSUME Free(pool)
  PROVE  IsOf(LockCommand, Pooled)
<1>1. IsOf(LockCommand, NewLockCommand)
  <2> DEFINE fields == LockCommand.fields
             z == NewLockCommand
  <2>1. DOMAIN z = DOMAIN fields /\ \A f \in DOMAIN fields : z[f] = IF f \in Ids THEN ZeroId ELSE 0
    BY Zenon DEF NewLockCommand
  <2>2. ZeroId \in [1..16 -> Byte]
    BY DEF ZeroId, Byte
  <2>3. \A f \in DOMAIN fields : f \in Ids \/ fields[f].width \in 1..8
    BY CommandsLaid, Zenon DEF WellLaid, Inside
  <2>4. \A f \in DOMAIN fields : f \in Ids \/ Fits(0, fields[f].width)
    BY <2>3, ZeroFits, Zenon
  <2> HIDE DEF z, fields
  <2>5. \A f \in DOMAIN fields : IF f \in Ids THEN z[f] \in [1..16 -> Byte] ELSE Fits(z[f], fields[f].width)
    BY <2>1, <2>2, <2>4, Zenon
  <2> QED BY <2>1, <2>5, Zenon DEF IsOf, z, fields
<1>2. ASSUME pool # <<>> PROVE IsOf(LockCommand, Last(pool))
  <2>1. PICK S : pool \in Seq(S) /\ \A c \in S : IsOf(LockCommand, c)
    BY DEF Free
  <2>2. pool[Len(pool)] \in S
    BY <1>2, <2>1
  <2> QED BY <2>1, <2>2, Zenon DEF Last
<1> QED BY <1>1, <1>2, Zenon DEF Pooled

\* One is taken from the pool.
LEMMA FreeTaken ==
  ASSUME NEW s, Free(s), s # <<>>
  PROVE  Free(Front(s))
<1>1. PICK S : s \in Seq(S) /\ \A c \in S : IsOf(LockCommand, c)
  BY DEF Free
<1>2. Front(s) \in Seq(S)
  BY <1>1 DEF Front
<1> QED BY <1>1, <1>2, Zenon DEF Free

\* One is put back.
LEMMA FreePut ==
  ASSUME NEW s, NEW c, Free(s), IsOf(LockCommand, c)
  PROVE  Free(Append(s, c))
<1>1. PICK S : s \in Seq(S) /\ \A d \in S : IsOf(LockCommand, d)
  BY DEF Free
<1> DEFINE T == S \cup {c}
<1>2. s \in Seq(T) /\ c \in T
  BY <1>1
<1>3. Append(s, c) \in Seq(T)
  BY <1>2, AppendProperties
<1>4. \A d \in T : IsOf(LockCommand, d)
  BY <1>1, Zenon
<1> QED BY <1>3, <1>4, Zenon DEF Free

\* The database is given a command.
LEMMA WaitingPut ==
  ASSUME NEW s, NEW c, Waiting(s), IsOf(LockCommand, c), IsLock(c.CommandType)
  PROVE  Waiting(Append(s, c))
<1>1. PICK S : s \in Seq(S) /\ \A d \in S : IsOf(LockCommand, d) /\ IsLock(d.CommandType)
  BY DEF Waiting
<1> DEFINE T == S \cup {c}
<1>2. s \in Seq(T) /\ c \in T
  BY <1>1
<1>3. Append(s, c) \in Seq(T)
  BY <1>2, AppendProperties
<1>4. \A d \in T : IsOf(LockCommand, d) /\ IsLock(d.CommandType)
  BY <1>1, Zenon
<1> QED BY <1>3, <1>4, Zenon DEF Waiting

\* It answers one of them.
LEMMA WaitingTaken ==
  ASSUME NEW s, Waiting(s), NEW i \in DOMAIN s
  PROVE  Waiting(RemoveAt(s, i)) /\ IsOf(LockCommand, s[i]) /\ IsLock(s[i].CommandType)
<1>1. PICK S : s \in Seq(S) /\ \A d \in S : IsOf(LockCommand, d) /\ IsLock(d.CommandType)
  BY DEF Waiting
<1>2. DOMAIN s = 1..Len(s) /\ Len(s) \in Nat
  BY <1>1
<1>3. i \in 1..Len(s) /\ s[i] \in S
  BY <1>1, <1>2
<1>4. SubSeq(s, 1, i - 1) \in Seq(S) /\ SubSeq(s, i + 1, Len(s)) \in Seq(S)
  BY <1>1, <1>2, <1>3
<1>5. SubSeq(s, 1, i - 1) \o SubSeq(s, i + 1, Len(s)) \in Seq(S)
  BY <1>4, ConcatProperties
<1>6. RemoveAt(s, i) \in Seq(S)
  BY <1>5, Zenon DEF RemoveAt
<1> QED BY <1>1, <1>3, <1>6, Zenon DEF Waiting
-----------------------------------------------------------------------------
(* The inductive invariant, action by action.                                *)

CodecInv == InInv /\ OutInv /\ PoolInv /\ LeaseInv

\* Nothing of the lease and its record is touched by the session.
LEMMA LeaseInvUnchanged ==
  ASSUME LeaseInv, UNCHANGED <<lease, record>>
  PROVE  LeaseInv'
<1>1. lease' = lease /\ record' = record
  OBVIOUS
<1>2. RecordRestored' <=> RecordRestored
  BY <1>1, Zenon DEF RecordRestored
<1> QED BY <1>1, <1>2, Zenon DEF LeaseInv, RecordInv, Held

\* The first state.
LEMMA InvInit ==
  ASSUME Init
  PROVE  CodecInv
<1>1. InInv
  BY InInvInit
<1>2. OutInv
  BY OutInvInit
<1>3. PoolInv
  <2>1. pool = <<>> /\ pending = <<>>
    BY DEF Init
  <2>2. Free(<<>>) /\ Waiting(<<>>)
    <3> DEFINE S == {}
    <3>1. <<>> \in Seq(S)
      OBVIOUS
    <3>2. \A c \in S : IsOf(LockCommand, c) /\ IsLock(c.CommandType)
      OBVIOUS
    <3> HIDE DEF S
    <3> QED BY <3>1, <3>2, Zenon DEF Free, Waiting
  <2> QED BY <2>1, <2>2, Zenon DEF PoolInv
<1>4. LeaseInv
  BY DEF Init, LeaseInv
<1> QED BY <1>1, <1>2, <1>3, <1>4 DEF CodecInv

\* ProcessParse of LOCK and UNLOCK.
LEMMA InvParseLock ==
  ASSUME CodecInv, ParseLock
  PROVE  CodecInv'
<1> DEFINE s == script[Len(parsed) + 1]
           c == DecodedOver(ParsedLockCommand, rbuf, Pooled)
<1>1. InInv /\ OutInv /\ PoolInv /\ LeaseInv
  BY DEF CodecInv
<1>2. /\ at = "parse" /\ IsBinary(rbuf) /\ IsLock(rbuf[2]) /\ parsed' = Append(parsed, c)
      /\ pool' = (IF pool = <<>> THEN pool ELSE Front(pool))
      /\ \/ Result(WrittenLockResult, LockResultOf(c, UnknownDB)) /\ UNCHANGED pending
         \/ pending' = Append(pending, c) /\ UNCHANGED <<wbuf, toClient, given>>
      /\ at' = "read" /\ n' = 0 /\ UNCHANGED <<toServer, client, rbuf, script, sent, got, lease, record>>
  BY DEF ParseLock
<1>3. Sent(s) /\ rbuf = Wire(s)
  BY <1>1, <1>2, NextCommand
<1>4. s.Magic = MAGIC /\ s.Version = VERSION /\ IsLock(s.CommandType)
  BY <1>2, <1>3, WireHead, Zenon DEF IsBinary
<1>5. IsOf(LockCommand, Pooled)
  BY <1>1, PooledType DEF PoolInv
<1>6. IsOf(LockCommand, c) /\ OnWire(c) = OnWire(s) /\ c.CommandType = s.CommandType
  <2> HIDE DEF s
  <2> QED BY <1>3, <1>4, <1>5, LockParsed
<1>7. IsLock(c.CommandType)
  BY <1>4, <1>6, Zenon
<1> HIDE DEF c
<1>8. InInv'
  <2>1. ParsedAs(c, s)
    BY <1>4, <1>6, Zenon DEF ParsedAs
  <2> QED BY <1>1, <1>2, <2>1, InInvParse
<1>9. OutInv'
  <2>1. CASE Result(WrittenLockResult, LockResultOf(c, UnknownDB))
    <3>1. Fits(UnknownDB.Result, 1) /\ Fits(UnknownDB.Lcount, 2) /\ Fits(UnknownDB.Lrcount, 1)
      <4>1. Fits(3, 1) /\ Fits(0, 1) /\ Fits(0, 2)
        BY OneByte, ZeroFits DEF Byte
      <4> QED BY <4>1 DEF UnknownDB, RESULT_UNKNOWN_DB
    <3>2. wbuf \in [Positions -> Byte] /\ wbuf[0] = MAGIC /\ wbuf[1] = VERSION
      BY <1>1 DEF OutInv, OutType
    <3>3. Shown(Encoded(WrittenLockResult, LockResultOf(c, UnknownDB), wbuf), LockResultOf(c, UnknownDB))
      BY <1>6, <1>7, <3>1, <3>2, LockShown
    <3>4. UNCHANGED <<got, client>>
      BY <1>2
    <3> QED BY <1>1, <2>1, <3>3, <3>4, OutInvResult
  <2>2. CASE UNCHANGED <<wbuf, toClient, given>>
    <3>1. UNCHANGED outVars
      BY <1>2, <2>2 DEF outVars
    <3> QED BY <1>1, <3>1, OutInvUnchanged
  <2> QED BY <1>2, <2>1, <2>2
<1>10. PoolInv'
  <2>1. Free(pool')
    BY <1>1, <1>2, FreeTaken, Zenon DEF PoolInv
  <2>2. Waiting(pending')
    BY <1>1, <1>2, <1>6, <1>7, WaitingPut, Zenon DEF PoolInv
  <2> QED BY <2>1, <2>2 DEF PoolInv
<1>11. LeaseInv'
  BY <1>1, <1>2, LeaseInvUnchanged
<1> QED BY <1>8, <1>9, <1>10, <1>11 DEF CodecInv

\* The database answers.
LEMMA InvAnswer ==
  ASSUME CodecInv, NEW i \in DOMAIN pending, NEW answer \in Answers, Answer(i, answer)
  PROVE  CodecInv'
<1> DEFINE c == pending[i]
<1>1. InInv /\ OutInv /\ PoolInv /\ LeaseInv
  BY DEF CodecInv
<1>2. /\ Result(WrittenLockResult, LockResultOf(c, answer))
      /\ pool' \in {pool, Append(pool, c)} /\ pending' = RemoveAt(pending, i)
      /\ \/ lease' = lease
         \/ lease = None /\ c.CommandType = COMMAND_LOCK /\ lease' = Lease(c)
      /\ UNCHANGED <<toServer, client, at, rbuf, n, script, sent, parsed, got, record>>
  BY DEF Answer
<1>3. Waiting(pending') /\ IsOf(LockCommand, c) /\ IsLock(c.CommandType)
  BY <1>1, <1>2, WaitingTaken DEF PoolInv
<1> HIDE DEF c
<1>4. InInv'
  <2>1. UNCHANGED inVars
    BY <1>2 DEF inVars
  <2> QED BY <1>1, <2>1, InInvUnchanged
<1>5. OutInv'
  <2>1. Fits(answer.Result, 1) /\ Fits(answer.Lcount, 2) /\ Fits(answer.Lrcount, 1)
    BY CodecConstants, Zenon
  <2>2. wbuf \in [Positions -> Byte] /\ wbuf[0] = MAGIC /\ wbuf[1] = VERSION
    BY <1>1 DEF OutInv, OutType
  <2>3. Shown(Encoded(WrittenLockResult, LockResultOf(c, answer), wbuf), LockResultOf(c, answer))
    BY <1>3, <2>1, <2>2, LockShown
  <2>4. UNCHANGED <<got, client>>
    BY <1>2
  <2> QED BY <1>1, <1>2, <2>3, <2>4, OutInvResult
<1>6. PoolInv'
  <2>1. Free(pool')
    BY <1>1, <1>2, <1>3, FreePut, Zenon DEF PoolInv
  <2> QED BY <1>3, <2>1 DEF PoolInv
<1>7. LeaseInv'
  <2>1. CASE lease' = lease
    BY <1>1, <1>2, <2>1, LeaseInvUnchanged
  <2>2. CASE lease = None /\ c.CommandType = COMMAND_LOCK /\ lease' = Lease(c)
    <3>1. record = None
      <4>1. lease.at = "none"
        BY <2>2 DEF None
      <4> QED BY <1>1, <4>1 DEF LeaseInv, Held
    <3>2. Held'
      <4>1. Ended(ExpriedTime(c))
        BY <1>3, LeaseEnd DEF Ended
      <4>2. lease'.command = c /\ lease'.end = ExpriedTime(c) /\ lease'.at \in {"millisecond", "held"}
        BY <2>2 DEF Lease
      <4> QED BY <1>3, <2>2, <4>1, <4>2 DEF Held
    <3> QED BY <1>2, <3>1, <3>2 DEF LeaseInv, RecordInv, None
  <2> QED BY <1>2, <2>1, <2>2
<1> QED BY <1>4, <1>5, <1>6, <1>7 DEF CodecInv

\* The other commands.
LEMMA InvParseOther ==
  ASSUME CodecInv, ParseOther
  PROVE  CodecInv'
<1> DEFINE s == script[Len(parsed) + 1]
           type == rbuf[2]
           c == Decoded(CommandLayout(type), rbuf)
<1>1. InInv /\ OutInv /\ PoolInv /\ LeaseInv
  BY DEF CodecInv
<1>2. /\ at = "parse" /\ IsBinary(rbuf) /\ ~IsLock(type) /\ parsed' = Append(parsed, c)
      /\ n' = 0 /\ UNCHANGED <<toServer, client, rbuf, pool, pending, script, sent, got, lease, record>>
  BY DEF ParseOther
<1>3. Sent(s) /\ rbuf = Wire(s)
  BY <1>1, <1>2, NextCommand
<1>4. s.Magic = MAGIC /\ s.Version = VERSION /\ s.CommandType = type /\ Asked(s)
  BY <1>2, <1>3, WireHead, Zenon DEF IsBinary
<1>5. DOMAIN c = DOMAIN s /\ (\A f \in DOMAIN s : c[f] = s[f]) /\ OnWire(c) = OnWire(s)
  <2> HIDE DEF s
  <2> QED BY <1>3, <1>4, OtherParsed
<1>6. Asked(c) /\ c.CommandType = type
  <2>1. "CommandType" \in DOMAIN s /\ "RequestId" \in DOMAIN s
    BY <1>3, WireHead DEF Header
  <2>2. c["CommandType"] = s["CommandType"] /\ c["RequestId"] = s["RequestId"]
    BY <1>5, <2>1, Zenon
  <2> QED BY <1>4, <2>2, Zenon DEF Asked
<1>7. at' \in {"read", "text", "closed"}
  BY DEF ParseOther
<1>8. type = COMMAND_STATE => c.DbId \in Byte
  <2> HAVE type = COMMAND_STATE
  <2>1. CommandLayout(s.CommandType) = StateCommand
    BY <1>4 DEF CommandLayout, IsLock, COMMAND_INIT, COMMAND_LOCK, COMMAND_UNLOCK, COMMAND_STATE,
                COMMAND_ADMIN, COMMAND_PING, COMMAND_QUIT
  <2>2. IsOf(StateCommand, s)
    BY <1>3, <2>1, Zenon DEF Sent
  <2>3. "DbId" \in DOMAIN StateCommand.fields /\ StateCommand.fields["DbId"].width = 1 /\ "DbId" \notin Ids
    BY DEF StateCommand, Header, And, Layout, At, Ids
  <2>4. "DbId" \in DOMAIN s /\ Fits(s["DbId"], 1)
    BY <2>2, <2>3, Zenon DEF IsOf
  <2> QED BY <1>5, <2>4, OneByte
<1> DEFINE known == type \in {COMMAND_ADMIN, COMMAND_PING, COMMAND_QUIT}
           x == IF known THEN 0 ELSE RESULT_UNKNOWN_COMMAND
<1>9. \/ type = COMMAND_INIT /\ \E t \in {0, 1} : Result(InitResultCommand, And(ResultOf(c, 0), [InitType |-> t]))
      \/ /\ type = COMMAND_STATE
         /\ \E u \in States : Result(StateResultCommand, And(And(ResultOf(c, 0), [Flag |-> 0, DbId |-> c.DbId]), u))
      \/ /\ type # COMMAND_INIT /\ type # COMMAND_STATE
         /\ Result(IF known THEN ResultLayout(type) ELSE ResultCommand, ResultOf(c, x))
  <2> HIDE DEF c, type
  <2> QED BY Zenon DEF ParseOther, c, type
<1> HIDE DEF c, x
<1>10. InInv'
  <2>1. ParsedAs(c, s)
    BY <1>4, <1>5, Zenon DEF ParsedAs
  <2> QED BY <1>1, <1>2, <1>7, <2>1, InInvParse
<1>11. OutInv'
  <2>1. wbuf \in [Positions -> Byte] /\ UNCHANGED <<got, client>>
    BY <1>1, <1>2 DEF OutInv, OutType
  <2>2. CASE type = COMMAND_INIT /\ \E t \in {0, 1} : Result(InitResultCommand, And(ResultOf(c, 0), [InitType |-> t]))
    <3>1. PICK t \in {0, 1} : Result(InitResultCommand, And(ResultOf(c, 0), [InitType |-> t]))
      BY <2>2
    <3>2. Shown(Encoded(InitResultCommand, And(ResultOf(c, 0), [InitType |-> t]), wbuf),
                And(ResultOf(c, 0), [InitType |-> t]))
      BY <1>6, <2>1, <2>2, InitShown
    <3> QED BY <1>1, <2>1, <3>1, <3>2, OutInvResult
  <2>3. CASE /\ type = COMMAND_STATE
             /\ \E u \in States : Result(StateResultCommand, And(And(ResultOf(c, 0), [Flag |-> 0, DbId |-> c.DbId]), u))
    <3>1. PICK u \in States : Result(StateResultCommand, And(And(ResultOf(c, 0), [Flag |-> 0, DbId |-> c.DbId]), u))
      BY <2>3
    <3>2. Shown(Encoded(StateResultCommand, And(And(ResultOf(c, 0), [Flag |-> 0, DbId |-> c.DbId]), u), wbuf),
                And(And(ResultOf(c, 0), [Flag |-> 0, DbId |-> c.DbId]), u))
      BY <1>6, <1>8, <2>1, <2>3, StateShown
    <3> QED BY <1>1, <2>1, <3>1, <3>2, OutInvResult
  <2>4. CASE known /\ Result(ResultLayout(type), ResultOf(c, x))
    <3>1. x \in Byte
      BY DEF x, RESULT_UNKNOWN_COMMAND, Byte
    <3>2. Shown(Encoded(ResultLayout(c.CommandType), ResultOf(c, x), wbuf), ResultOf(c, x))
      BY <1>6, <2>1, <2>4, <3>1, OtherShown
    <3>3. Result(ResultLayout(c.CommandType), ResultOf(c, x))
      BY <1>6, <2>4, Zenon
    <3> QED BY <1>1, <2>1, <3>2, <3>3, OutInvResult
  <2>5. CASE /\ type # COMMAND_INIT /\ type # COMMAND_STATE /\ ~known
             /\ Result(ResultCommand, ResultOf(c, x))
    <3> DEFINE r == ResultOf(c, x)
    <3>1. x \in Byte
      BY DEF x, RESULT_UNKNOWN_COMMAND, Byte
    <3>2. /\ IsOf(ResultCommand, r) /\ r.Magic = MAGIC /\ r.Version = VERSION /\ r.CommandType = type
          /\ r.CommandType \in Byte
      BY <1>6, <3>1, ResultOfType DEF Asked
    <3>3. type \notin ResultTypes
      BY <1>2, <2>5 DEF ResultTypes, IsLock
    <3> HIDE DEF r
    <3>4. Shown(Encoded(ResultCommand, r, wbuf), r)
      BY <2>1, <3>2, <3>3, RefusalShown
    <3>5. Result(ResultCommand, r)
      BY <2>5 DEF r
    <3> QED BY <1>1, <2>1, <3>4, <3>5, OutInvResult
  <2> QED BY <1>9, <2>2, <2>3, <2>4, <2>5, Zenon
<1>12. PoolInv' /\ LeaseInv'
  BY <1>1, <1>2, LeaseInvUnchanged DEF PoolInv
<1> QED BY <1>10, <1>11, <1>12 DEF CodecInv

\* A header that is refused.
LEMMA InvParseUnknown ==
  ASSUME CodecInv, ParseUnknown
  PROVE  CodecInv'
<1> DEFINE s == script[Len(parsed) + 1]
           c == Decoded(Command, rbuf)
           x == IF c.Magic # MAGIC THEN RESULT_UNKNOWN_MAGIC ELSE RESULT_UNKNOWN_VERSION
<1>1. InInv /\ OutInv /\ PoolInv /\ LeaseInv
  BY DEF CodecInv
<1>2. /\ at = "parse" /\ ~IsBinary(rbuf) /\ parsed' = Append(parsed, c)
      /\ Result(ResultCommand, ResultOf(c, x)) /\ at' = "closed" /\ n' = 0
      /\ UNCHANGED <<toServer, client, rbuf, pool, pending, script, sent, got, lease, record>>
  BY DEF ParseUnknown
<1>3. Sent(s) /\ rbuf = Wire(s)
  BY <1>1, <1>2, NextCommand
<1>4. ~(s.Magic = MAGIC /\ s.Version = VERSION) /\ Asked(s)
  BY <1>2, <1>3, WireHead, Zenon DEF IsBinary
<1>5. \A f \in DOMAIN Header : c[f] = s[f]
  <2> HIDE DEF s
  <2> QED BY <1>3, RefusedParsed
<1>6. Asked(c)
  <2>1. c["CommandType"] = s["CommandType"] /\ c["RequestId"] = s["RequestId"]
    BY <1>5 DEF Header
  <2> QED BY <1>4, <2>1, Zenon DEF Asked
<1>7. x \in {RESULT_UNKNOWN_MAGIC, RESULT_UNKNOWN_VERSION} /\ x \in Byte
  BY DEF RESULT_UNKNOWN_MAGIC, RESULT_UNKNOWN_VERSION, Byte
<1> HIDE DEF c, x
<1>8. InInv'
  <2>1. ParsedAs(c, s)
    BY <1>4, <1>5, Zenon DEF ParsedAs
  <2> QED BY <1>1, <1>2, <2>1, InInvParse
<1>9. OutInv'
  <2> DEFINE r == ResultOf(c, x)
  <2>1. wbuf \in [Positions -> Byte] /\ UNCHANGED <<got, client>>
    BY <1>1, <1>2 DEF OutInv, OutType
  <2>2. /\ IsOf(ResultCommand, r) /\ r.Magic = MAGIC /\ r.Version = VERSION
        /\ r.CommandType \in Byte /\ r.Result \in {RESULT_UNKNOWN_MAGIC, RESULT_UNKNOWN_VERSION}
    BY <1>6, <1>7, ResultOfType DEF Asked
  <2> HIDE DEF r
  <2>3. Shown(Encoded(ResultCommand, r, wbuf), r)
    BY <2>1, <2>2, RefusalShown
  <2>4. Result(ResultCommand, r)
    BY <1>2 DEF r
  <2> QED BY <1>1, <2>1, <2>3, <2>4, OutInvResult
<1>10. PoolInv' /\ LeaseInv'
  BY <1>1, <1>2, LeaseInvUnchanged DEF PoolInv
<1> QED BY <1>8, <1>9, <1>10 DEF CodecInv

\* Every step keeps the invariant.
LEMMA InvNext ==
  ASSUME CodecInv, [Next]_vars
  PROVE  CodecInv'
<1>1. InInv /\ OutInv /\ PoolInv /\ LeaseInv
  BY DEF CodecInv
<1>2. ASSUME Write PROVE CodecInv'
  <2>1. UNCHANGED outVars /\ UNCHANGED <<pool, pending>> /\ UNCHANGED <<lease, record>>
    BY <1>2 DEF Write, outVars
  <2>2. InInv'
    BY <1>1, <1>2, InInvWrite
  <2> QED BY <1>1, <2>1, <2>2, OutInvUnchanged, LeaseInvUnchanged DEF CodecInv, PoolInv
<1>3. ASSUME ReadResult PROVE CodecInv'
  <2>1. UNCHANGED inVars /\ UNCHANGED <<pool, pending>> /\ UNCHANGED <<lease, record>>
    BY <1>3 DEF ReadResult, inVars
  <2>2. OutInv'
    BY <1>1, <1>3, OutInvReadResult
  <2> QED BY <1>1, <2>1, <2>2, InInvUnchanged, LeaseInvUnchanged DEF CodecInv, PoolInv
<1>10. ASSUME RefuseResult PROVE CodecInv'
  <2>1. UNCHANGED inVars /\ UNCHANGED <<pool, pending>> /\ UNCHANGED <<lease, record>>
    BY <1>10 DEF RefuseResult, inVars
  <2>2. OutInv'
    BY <1>1, <1>10, OutInvRefuseResult
  <2> QED BY <1>1, <2>1, <2>2, InInvUnchanged, LeaseInvUnchanged DEF CodecInv, PoolInv
<1>4. ASSUME NEW r \in Reads, CheckProtocol(r) \/ Process(r) PROVE CodecInv'
  <2>1. UNCHANGED outVars /\ UNCHANGED <<pool, pending>> /\ UNCHANGED <<lease, record>>
    BY <1>4 DEF CheckProtocol, Process, outVars
  <2>2. InInv'
    BY <1>1, <1>4, InInvCheckProtocol, InInvProcess
  <2> QED BY <1>1, <2>1, <2>2, OutInvUnchanged, LeaseInvUnchanged DEF CodecInv, PoolInv
<1>5. ASSUME UNCHANGED session, LeaseInv' PROVE CodecInv'
  <2>1. UNCHANGED inVars /\ UNCHANGED outVars /\ UNCHANGED <<pool, pending>>
    BY <1>5 DEF session, inVars, outVars
  <2> QED BY <1>1, <1>5, <2>1, InInvUnchanged, OutInvUnchanged DEF CodecInv, PoolInv
<1>6. ASSUME NEW s \in Moments, NEW p \in BOOLEAN, Push(s, p) PROVE CodecInv'
  <2>1. UNCHANGED session
    BY <1>6 DEF Push
  <2> QED BY <1>1, <1>5, <1>6, <2>1, LeaseInvPush
<1>7. ASSUME HandleLock PROVE CodecInv'
  <2>1. UNCHANGED session
    BY <1>7 DEF HandleLock
  <2> QED BY <1>1, <1>5, <1>7, <2>1, LeaseInvHandleLock
<1>11. ASSUME NEW x \in {0, 1}, CheckMillisecondExpried(x) PROVE CodecInv'
  <2>1. UNCHANGED session
    BY <1>11 DEF CheckMillisecondExpried
  <2> QED BY <1>1, <1>5, <1>11, <2>1, LeaseInvCheckMillisecondExpried
<1>8. ASSUME NEW s \in Moments, NEW d \in Delays, Load(s, d) PROVE CodecInv'
  <2>1. UNCHANGED session
    BY <1>8 DEF Load
  <2> QED BY <1>1, <1>5, <1>8, <2>1, LeaseInvLoad
<1>9. ASSUME UNCHANGED vars PROVE CodecInv'
  <2>1. UNCHANGED session /\ UNCHANGED <<lease, record>>
    BY <1>9 DEF vars
  <2> QED BY <1>1, <1>5, <2>1, LeaseInvUnchanged
<1> QED BY <1>2, <1>3, <1>4, <1>6, <1>7, <1>8, <1>9, <1>10, <1>11, InvParseLock, InvParseOther, InvParseUnknown, InvAnswer,
           Zenon DEF Next

\* What it says of types.
LEMMA InvTypes ==
  ASSUME CodecInv
  PROVE  TypeOK
<1>1. InType /\ OutType /\ OutStream /\ LeaseInv
  BY DEF CodecInv, InInv, OutInv
<1>2. Len(toClient) % 64 = 0
  <2> DEFINE k == Len(given) - Len(got)
             N == Len(toClient)
  <2>1. Len(given) \in Nat /\ Len(got) \in Nat /\ Len(got) <= Len(given)
    BY <1>1, Appended DEF OutType
  <2>2. N = 64 * k
    BY <1>1 DEF OutStream
  <2>3. k \in Nat
    BY <2>1
  <2> HIDE DEF k, N
  <2>4. N % 64 = 0
    BY <2>2, <2>3
  <2> QED BY <2>4 DEF N
<1>3. /\ lease.at \in {"none", "millisecond", "held", "over"}
      /\ record.at \in {"none", "queued", "written", "skipped", "passed", "loaded"}
  <2>1. CASE lease = None /\ record = None
    BY <2>1 DEF None
  <2>2. CASE Held /\ RecordInv
    <3>1. lease.at \in {"millisecond", "held", "over"}
      BY <2>2 DEF Held
    <3>2. None.at = "none"
      BY DEF None
    <3>3. record.at = "none" \/ record.at = "queued" \/ record.at = "written" \/ record.at \in {"skipped", "passed", "loaded"}
      BY <2>2, <3>2, Zenon DEF RecordInv
    <3> QED BY <3>1, <3>3
  <2> QED BY <1>1, <2>1, <2>2 DEF LeaseInv
<1> QED BY <1>1, <1>2, <1>3 DEF TypeOK, InType, OutType

\* CodecInv holds in every state the session, the pool and the log reach.
THEOREM CodecInvariant == Spec => []CodecInv
<1>1. Init => CodecInv
  BY InvInit
<1>2. CodecInv /\ [Next]_vars => CodecInv'
  BY InvNext
<1> QED BY <1>1, <1>2, PTL DEF Spec

\* However the 64 bytes of a command are cut into reads, and whatever rbuf and the
\* pooled command held before, ProcessParse has the commands the client wrote, in
\* their order.
THEOREM CommandsAreDecoded == Spec => []CommandsDecoded
<1>1. CodecInv => CommandsDecoded
  <2> SUFFICES ASSUME CodecInv PROVE CommandsDecoded
    OBVIOUS
  <2>1. InParsed /\ IsSeq(parsed)
    BY DEF CodecInv, InInv, InType
  <2>2. DOMAIN parsed = 1..Len(parsed)
    BY <2>1, Appended
  <2> QED BY <2>1, <2>2, InvTypes, Zenon DEF CommandsDecoded, InParsed, ParsedAs
<1> QED BY <1>1, CodecInvariant, PTL

\* Whatever result wbuf held before, the client reads the results the server gave,
\* in their order and field by field, and closes only at one of a type it does not
\* know.
THEOREM ResultsAreDecoded == Spec => []ResultsDecoded
<1>1. CodecInv => ResultsDecoded
  <2> SUFFICES ASSUME CodecInv PROVE ResultsDecoded
    OBVIOUS
  <2>1. OutRead /\ OutClosed /\ IsSeq(got)
    BY DEF CodecInv, OutInv, OutType
  <2>2. DOMAIN got = 1..Len(got)
    BY <2>1, Appended
  <2> QED BY <2>1, <2>2, Zenon DEF ResultsDecoded, OutRead, OutClosed
<1> QED BY <1>1, CodecInvariant, PTL

\* A lease with a known end that Push recorded in a struct of the pool is read back
\* by LoadAofFile as the lock that was granted, with the seconds it has left, or is
\* left out if it is over.
THEOREM RecordsAreRestored == Spec => []RecordRestored
<1>1. CodecInv => RecordRestored
  <2> SUFFICES ASSUME CodecInv PROVE RecordRestored
    OBVIOUS
  <2>1. CASE record.at \notin {"skipped", "passed", "loaded"}
    BY <2>1, Zenon DEF RecordRestored
  <2>2. CASE record.at \in {"skipped", "passed", "loaded"}
    <3>1. record # None /\ record.at # "queued" /\ record.at # "written"
      BY <2>2 DEF None
    <3> QED BY <2>2, <3>1, Zenon DEF CodecInv, LeaseInv, RecordInv
  <2> QED BY <2>1, <2>2
<1> QED BY <1>1, CodecInvariant, PTL
=============================================================================
