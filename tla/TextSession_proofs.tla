-------------------------- MODULE TextSession_proofs --------------------------
(* Theorems about TextSession for every set of scripts, arguments of any     *)
(* length and chunks of any size: commands and replies come through the two  *)
(* parsers as they were built, and a session's results and lock are its own. *)
(* In order: numbers and the messages Build makes; the parser at a byte of   *)
(* such a message; a turn of its loop by stage; the stream of commands and   *)
(* replies; the handler and the result it waits for; the theorems.           *)
EXTENDS TextSession, FiniteSetTheorems, SequenceTheorems, WellFoundedInduction, TLAPS

-----------------------------------------------------------------------------
(* Loops: induction up to a number, and functions defined by recursion.      *)

\* A set that has 0 and, with a number below N, the next one, has all up to N.
LEMMA Upto ==
  ASSUME NEW N \in Nat, NEW P, 0 \in P, \A n \in 0..N : n \in P /\ n < N => n + 1 \in P
  PROVE  \A n \in 0..N : n \in P
<1>. DEFINE Bad == {n \in 0..N : n \notin P}
            Below == {0..n : n \in Bad}
            R == StrictSubsetOrdering(Nat)
<1>1. SUFFICES ASSUME Bad # {} PROVE FALSE
  OBVIOUS
<1>2. PICK T \in Below : \A U \in Below : <<U, T>> \notin R
  <2>1. IsWellFoundedOn(R, FiniteSubsetsOf(Nat))
    BY FS_StrictSubsetOrderingWellFounded
  <2>2. Below \subseteq FiniteSubsetsOf(Nat)
    <3>1. ASSUME NEW n \in 0..N PROVE 0..n \in SUBSET Nat /\ IsFiniteSet(0..n)
      BY FS_Interval
    <3>. QED
      BY <3>1 DEF FiniteSubsetsOf
  <2>3. Below # {}
    BY <1>1
  <2>. HIDE DEF R, Below
  <2>. QED
    BY <2>1, <2>2, <2>3, WFMin
<1>3. PICK m \in Bad : T = 0..m
  OBVIOUS
<1>4. \A k \in Bad : ~(k < m)
  <2>. SUFFICES ASSUME NEW k \in Bad, k < m PROVE FALSE
    OBVIOUS
  <2>1. k \in Nat /\ m \in Nat
    OBVIOUS
  <2>2. (0..k) \subseteq 0..m /\ m \in 0..m /\ m \notin 0..k /\ (0..m) \subseteq Nat
    BY <2>1
  <2>3. (0..k) \in SUBSET Nat /\ (0..m) \in SUBSET Nat /\ 0..k # 0..m
    BY <2>2
  <2>4. <<0..k, 0..m>> \in R
    BY <2>2, <2>3 DEF StrictSubsetOrdering
  <2>5. 0..k \in Below
    OBVIOUS
  <2>. QED
    BY <1>2, <1>3, <2>4, <2>5
<1>5. m # 0 /\ m - 1 \in 0..N /\ m - 1 < N
  OBVIOUS
<1>6. m - 1 \in P
  BY <1>4, <1>5
<1>. QED
  BY <1>5, <1>6

\* A loop of N turns on values of V, and the values it goes through.
Steps(N, V, a, step) == N \in Nat /\ a \in V /\ step \in [(1..N) \X V -> V]

Iterates(N, V, a, step, g) ==
  g \in [0..N -> V] /\ g[0] = a /\ \A k \in 1..N : g[k] = step[<<k, g[k - 1]>>]

\* A function whose value at n comes from the one at n - 1 exists.
LEMMA Recursion ==
  ASSUME NEW N, NEW V, NEW a, NEW step, Steps(N, V, a, step)
  PROVE  \E g : Iterates(N, V, a, step, g)
<1>0. N \in Nat /\ a \in V /\ step \in [(1..N) \X V -> V]
  BY DEF Steps
<1>. DEFINE Is(n, g) == g[0] = a /\ \A k \in 1..n : g[k] = step[<<k, g[k - 1]>>]
            P == {n \in 0..N : \E g \in [0..n -> V] : Is(n, g)}
<1>1. 0 \in P
  <2>1. PICK g : g = [k \in 0..0 |-> a]
    OBVIOUS
  <2>2. g \in [0..0 -> V] /\ Is(0, g)
    BY <1>0, <2>1
  <2>. HIDE DEF Is
  <2>. QED
    BY <1>0, <2>2
<1>2. ASSUME NEW n \in 0..N, n \in P, n < N PROVE n + 1 \in P
  <2>1. PICK g \in [0..n -> V] : Is(n, g)
    BY <1>2
  <2>2. PICK v : v = step[<<n + 1, g[n]>>]
    OBVIOUS
  <2>3. v \in V
    <3>1. g[n] \in V /\ n + 1 \in 1..N
      BY <1>0, <1>2
    <3>2. <<n + 1, g[n]>> \in (1..N) \X V
      BY <3>1
    <3>. QED
      BY <1>0, <2>2, <3>2
  <2>4. PICK h : h = [k \in 0..(n + 1) |-> IF k = n + 1 THEN v ELSE g[k]]
    OBVIOUS
  <2>5. h \in [0..(n + 1) -> V]
    BY <2>3, <2>4
  <2>6. h[n + 1] = v /\ \A k \in 0..n : h[k] = g[k]
    BY <2>4
  <2>7. Is(n + 1, h)
    <3>1. h[0] = a
      BY <2>1, <2>6
    <3>2. ASSUME NEW k \in 1..(n + 1) PROVE h[k] = step[<<k, h[k - 1]>>]
      <4>1. CASE k = n + 1
        BY <2>2, <2>6, <4>1
      <4>2. CASE k \in 1..n
        BY <2>1, <2>6, <4>2
      <4>. QED
        BY <4>1, <4>2
    <3>. QED
      BY <3>1, <3>2
  <2>8. n + 1 \in 0..N
    BY <1>0, <1>2
  <2>. HIDE DEF Is
  <2>. QED
    BY <2>5, <2>7, <2>8
<1>3. N \in P
  <2>. HIDE DEF P
  <2>1. \A n \in 0..N : n \in P
    BY <1>0, <1>1, <1>2, Upto
  <2>. QED
    BY <1>0, <2>1
<1>4. PICK g \in [0..N -> V] : Is(N, g)
  BY <1>3
<1>5. Iterates(N, V, a, step, g)
  BY <1>4 DEF Iterates
<1>. QED
  BY <1>5

-----------------------------------------------------------------------------
(* Numbers: what Build writes, Parse reads.                                  *)

\* Every byte of a message, and NONE.
Symbol ==
  Bytes \cup {CR, LF, NONE, "*", "$", "+", "-", "0", "1", "2", "3", "4", "5", "6", "7", "8", "9",
              "O", "K", "E", "R", "P", "L", "I", "D"}

\* The two bytes a line ends with.
LEMMA LineEnds == CR # LF /\ CR # NONE /\ LF # NONE /\ CR \in Symbol /\ LF \in Symbol /\ NONE \in Symbol
BY DEF CR, LF, NONE, Symbol

\* A digit is no line's end, and it is its value's digit.
LEMMA DigitOf ==
  ASSUME NEW n \in 0..9
  PROVE  /\ Digits[n + 1] \in Symbol /\ Digits[n + 1] \notin {CR, LF}
         /\ IsDigit(Digits[n + 1]) /\ DigitValue(Digits[n + 1]) = n
<1>1. DOMAIN Digits = 1..10
  BY DEF Digits
<1>2. \A i, j \in 1..10 : Digits[i] = Digits[j] => i = j
  BY DEF Digits
<1>3. \A i \in 1..10 : Digits[i] \in Symbol /\ Digits[i] \notin {CR, LF}
  BY DEF Digits, CR, LF, Symbol
<1>4. n + 1 \in 1..10
  OBVIOUS
<1> HIDE DEF Digits
<1>5. IsDigit(Digits[n + 1])
  BY <1>1, <1>4 DEF IsDigit
<1>6. PICK v : v = CHOOSE i \in 1..10 : Digits[i] = Digits[n + 1]
  OBVIOUS
<1>7. v = n + 1
  BY <1>2, <1>4, <1>6
<1>8. DigitValue(Digits[n + 1]) = v - 1
  BY <1>1, <1>6 DEF DigitValue
<1> QED BY <1>3, <1>4, <1>5, <1>7, <1>8

\* A digit's value is a number.
LEMMA DigitType ==
  ASSUME NEW b, IsDigit(b)
  PROVE  DigitValue(b) \in Nat
<1>1. \E i \in 1..10 : Digits[i] = b
  BY DEF IsDigit, Digits
<1>2. DOMAIN Digits = 1..10
  BY DEF Digits
<1> HIDE DEF Digits
<1>3. PICK v : v = CHOOSE i \in 1..10 : Digits[i] = b
  OBVIOUS
<1>4. v \in 1..10
  BY <1>1, <1>3
<1>5. DigitValue(b) = v - 1
  BY <1>2, <1>3 DEF DigitValue
<1> QED BY <1>4, <1>5

\* The loop that reads a number.
Valued(ds, f) ==
  /\ f[0] = 0 /\ \A k \in 0..Len(ds) : f[k] \in Nat
  /\ \A k \in 1..Len(ds) : f[k] = 10 * f[k - 1] + DigitValue(ds[k])

\* Number is what the loop ends with.
LEMMA NumberLoop ==
  ASSUME NEW ds, ds \in Seq(Symbol), \A i \in 1..Len(ds) : IsDigit(ds[i])
  PROVE  \E f : Valued(ds, f) /\ Number(ds) = f[Len(ds)]
<1> DEFINE Is(f) == f = [i \in 0..Len(ds) |-> IF i = 0 THEN 0 ELSE 10 * f[i - 1] + DigitValue(ds[i])]
<1>1. PICK N \in Nat : N = Len(ds)
  OBVIOUS
<1>2. PICK d \in [1..N -> Nat] : \A k \in 1..N : d[k] = DigitValue(ds[k])
  <2>1. \A k \in 1..N : DigitValue(ds[k]) \in Nat
    BY <1>1, DigitType
  <2>2. PICK d : d = [k \in 1..N |-> DigitValue(ds[k])]
    OBVIOUS
  <2>3. d \in [1..N -> Nat] /\ \A k \in 1..N : d[k] = DigitValue(ds[k])
    BY <2>1, <2>2
  <2> QED BY <2>3
<1>3. PICK step : step = [x \in (1..N) \X Nat |-> 10 * x[2] + d[x[1]]]
  OBVIOUS
<1>4. step \in [(1..N) \X Nat -> Nat]
  BY <1>3
<1>5. \A k \in 1..N, v \in Nat : step[<<k, v>>] = 10 * v + d[k]
  BY <1>3
<1>6. PICK g \in [0..N -> Nat] : g[0] = 0 /\ \A k \in 1..N : g[k] = step[<<k, g[k - 1]>>]
  <2>1. Steps(N, Nat, 0, step)
    BY <1>4 DEF Steps
  <2>2. PICK g : Iterates(N, Nat, 0, step, g)
    BY <2>1, Recursion
  <2> QED BY <2>2 DEF Iterates
<1>7. \A k \in 1..N : g[k] = 10 * g[k - 1] + DigitValue(ds[k])
  <2> SUFFICES ASSUME NEW k \in 1..N PROVE g[k] = 10 * g[k - 1] + DigitValue(ds[k])
    OBVIOUS
  <2>1. g[k - 1] \in Nat
    OBVIOUS
  <2> QED BY <1>2, <1>5, <1>6, <2>1
<1>8. Is(g)
  <2>1. g = [k \in 0..N |-> g[k]]
    OBVIOUS
  <2>2. \A k \in 0..N : k = 0 \/ k \in 1..N
    OBVIOUS
  <2>3. \A k \in 0..N : g[k] = IF k = 0 THEN 0 ELSE 10 * g[k - 1] + DigitValue(ds[k])
    BY <1>6, <1>7, <2>2
  <2>4. g = [k \in 0..N |-> IF k = 0 THEN 0 ELSE 10 * g[k - 1] + DigitValue(ds[k])]
    BY <2>1, <2>3
  <2> QED BY <1>1, <2>4
<1>9. PICK f : f = CHOOSE h : Is(h)
  OBVIOUS
<1>10. Is(f)
  <2> HIDE DEF Is
  <2> QED BY <1>8, <1>9
<1>11. Number(ds) = f[Len(ds)]
  BY <1>9 DEF Number
<1>12. f[0] = 0 /\ \A k \in 1..N : f[k] = 10 * f[k - 1] + d[k]
  <2>1. PICK r : r = [k \in 0..N |-> IF k = 0 THEN 0 ELSE 10 * f[k - 1] + DigitValue(ds[k])]
    OBVIOUS
  <2>2. f = r
    BY <1>1, <1>10, <2>1
  <2>3. r[0] = 0 /\ \A k \in 1..N : r[k] = 10 * f[k - 1] + DigitValue(ds[k])
    BY <2>1
  <2> QED BY <1>2, <2>2, <2>3
<1>13. \A k \in 0..N : f[k] \in Nat
  <2> DEFINE P == {k \in 0..N : f[k] \in Nat}
  <2>1. 0 \in P
    BY <1>12
  <2>2. ASSUME NEW k \in 0..N, k \in P, k < N PROVE k + 1 \in P
    <3>1. k + 1 \in 1..N /\ (k + 1) - 1 = k /\ k + 1 \in 0..N
      BY <2>2
    <3>2. f[k] \in Nat /\ d[k + 1] \in Nat
      BY <2>2, <3>1
    <3>3. f[k + 1] = 10 * f[k] + d[k + 1]
      BY <1>12, <3>1
    <3>4. \A x, y \in Nat : 10 * x + y \in Nat
      OBVIOUS
    <3>5. f[k + 1] \in Nat
      BY <3>2, <3>3, <3>4
    <3> QED BY <3>1, <3>5
  <2>3. \A k \in 0..N : k \in P
    <3> HIDE DEF P
    <3> QED BY <2>1, <2>2, Upto
  <2> QED BY <2>3
<1>14. Valued(ds, f)
  BY <1>1, <1>2, <1>12, <1>13 DEF Valued
<1> QED BY <1>11, <1>14

\* The loop up to a digit does not depend on the digits that follow.
LEMMA ValuedAlike ==
  ASSUME NEW s \in Seq(Symbol), NEW t \in Seq(Symbol), NEW f, NEW g, Valued(s, f), Valued(t, g),
         Len(s) <= Len(t), \A k \in 1..Len(s) : s[k] = t[k]
  PROVE  g[Len(s)] = f[Len(s)]
<1> DEFINE P == {k \in 0..Len(s) : g[k] = f[k]}
<1>1. 0 \in P
  BY DEF Valued
<1>2. ASSUME NEW k \in 0..Len(s), k \in P, k < Len(s) PROVE k + 1 \in P
  <2>1. k + 1 \in 1..Len(s) /\ k + 1 \in 1..Len(t) /\ (k + 1) - 1 = k /\ k + 1 \in 0..Len(s)
    BY <1>2
  <2>2. f[k] = g[k] /\ s[k + 1] = t[k + 1]
    BY <1>2, <2>1
  <2>3. f[k + 1] = 10 * f[k] + DigitValue(s[k + 1])
    BY <2>1 DEF Valued
  <2>4. g[k + 1] = 10 * g[k] + DigitValue(t[k + 1])
    BY <2>1 DEF Valued
  <2> QED BY <2>1, <2>2, <2>3, <2>4
<1>3. \A k \in 0..Len(s) : k \in P
  <2>1. Len(s) \in Nat
    OBVIOUS
  <2> HIDE DEF P
  <2> QED BY <1>1, <1>2, <2>1, Upto
<1> QED BY <1>3

\* A numeral for n.
Numeral(ds, n) ==
  /\ ds \in Seq(Symbol) /\ Len(ds) > 0 /\ Number(ds) = n
  /\ \A i \in 1..Len(ds) : IsDigit(ds[i]) /\ ds[i] \notin {CR, LF}

\* One digit is a numeral of its value ...
LEMMA NumeralOne ==
  ASSUME NEW n \in 0..9
  PROVE  Numeral(<<Digits[n + 1]>>, n)
<1>0. PICK b : b = Digits[n + 1]
  OBVIOUS
<1>1. b \in Symbol /\ b \notin {CR, LF} /\ IsDigit(b) /\ DigitValue(b) = n
  BY <1>0, DigitOf
<1> DEFINE ds == <<b>>
<1>2. ds \in Seq(Symbol) /\ Len(ds) = 1 /\ ds[1] = b /\ \A i \in 1..Len(ds) : ds[i] = b
  BY <1>1
<1> HIDE DEF ds
<1>3. \A i \in 1..Len(ds) : IsDigit(ds[i]) /\ ds[i] \notin {CR, LF}
  BY <1>1, <1>2
<1>4. PICK f : Valued(ds, f) /\ Number(ds) = f[Len(ds)]
  BY <1>2, <1>3, NumberLoop
<1>5. f[0] = 0 /\ f[1] = 10 * f[0] + DigitValue(ds[1])
  BY <1>2, <1>4 DEF Valued
<1>6. Number(ds) = n
  BY <1>1, <1>2, <1>4, <1>5
<1>7. Numeral(ds, n)
  BY <1>2, <1>3, <1>6 DEF Numeral
<1> QED BY <1>0, <1>7 DEF ds

\* ... and one digit more makes ten times the number.
LEMMA NumeralMore ==
  ASSUME NEW s, NEW m \in Nat, Numeral(s, m), NEW n \in 0..9
  PROVE  Numeral(Append(s, Digits[n + 1]), 10 * m + n)
<1>0. PICK b : b = Digits[n + 1]
  OBVIOUS
<1>1. b \in Symbol /\ b \notin {CR, LF} /\ IsDigit(b) /\ DigitValue(b) = n
  BY <1>0, DigitOf
<1>2. PICK t : t = Append(s, b)
  OBVIOUS
<1>3. /\ s \in Seq(Symbol) /\ Len(s) \in Nat /\ Len(s) > 0 /\ Number(s) = m
      /\ \A i \in 1..Len(s) : IsDigit(s[i]) /\ s[i] \notin {CR, LF}
  BY DEF Numeral
<1>4. /\ t \in Seq(Symbol) /\ Len(t) = Len(s) + 1 /\ t[Len(s) + 1] = b
      /\ \A i \in 1..Len(s) : t[i] = s[i]
  BY <1>1, <1>2, <1>3
<1>5. \A i \in 1..Len(t) : IsDigit(t[i]) /\ t[i] \notin {CR, LF}
  <2> SUFFICES ASSUME NEW i \in 1..Len(t) PROVE IsDigit(t[i]) /\ t[i] \notin {CR, LF}
    OBVIOUS
  <2>1. i \in 1..Len(s) \/ i = Len(s) + 1
    BY <1>3, <1>4
  <2> QED BY <1>1, <1>3, <1>4, <2>1
<1>6. PICK f : Valued(s, f) /\ Number(s) = f[Len(s)]
  BY <1>3, NumberLoop
<1>7. PICK g : Valued(t, g) /\ Number(t) = g[Len(t)]
  BY <1>4, <1>5, NumberLoop
<1>8. g[Len(s)] = f[Len(s)]
  BY <1>3, <1>4, <1>6, <1>7, ValuedAlike
<1>9. g[Len(s) + 1] = 10 * g[Len(s)] + DigitValue(t[Len(s) + 1])
  <2>1. Len(s) + 1 \in 1..Len(t) /\ (Len(s) + 1) - 1 = Len(s)
    BY <1>3, <1>4
  <2> QED BY <1>7, <2>1 DEF Valued
<1>10. Number(t) = 10 * m + n
  BY <1>1, <1>3, <1>4, <1>6, <1>7, <1>8, <1>9
<1>11. Len(t) > 0
  BY <1>3, <1>4
<1> QED BY <1>0, <1>2, <1>4, <1>5, <1>10, <1>11 DEF Numeral

\* A tenth.
LEMMA Tenth ==
  ASSUME NEW m \in Nat, ~(m < 10)
  PROVE  /\ m \div 10 \in Nat /\ m \div 10 < m /\ m % 10 \in 0..9
         /\ m = 10 * (m \div 10) + (m % 10)
OBVIOUS

\* The loop that writes a number.
Digitised(f, n) ==
  \A m \in 0..n : f[m] = IF m < 10 THEN <<Digits[m + 1]>> ELSE Append(f[m \div 10], Digits[(m % 10) + 1])

\* It ends for every number: a tenth is less.
LEMMA DecimalLoop ==
  ASSUME NEW n \in Nat
  PROVE  \E f : Digitised(f, n) /\ Decimal(n) = f[n]
<1> DEFINE Is(f) == f = [m \in 0..n |-> IF m < 10 THEN <<Digits[m + 1]>>
                                       ELSE Append(f[m \div 10], Digits[(m % 10) + 1])]
           P == {k \in 0..n : \E g : Digitised(g, k)}
<1> HIDE DEF Digits
<1>1. 0 \in P
  <2>1. PICK g : g = [m \in 0..0 |-> <<Digits[m + 1]>>]
    OBVIOUS
  <2>2. Digitised(g, 0)
    BY <2>1 DEF Digitised
  <2> QED BY <2>2
<1>2. ASSUME NEW k \in 0..n, k \in P, k < n PROVE k + 1 \in P
  <2>1. PICK g : Digitised(g, k)
    BY <1>2
  <2>2. PICK v : v = IF k + 1 < 10 THEN <<Digits[(k + 1) + 1]>>
                     ELSE Append(g[(k + 1) \div 10], Digits[((k + 1) % 10) + 1])
    OBVIOUS
  <2>3. PICK h : h = [m \in 0..(k + 1) |-> IF m = k + 1 THEN v ELSE g[m]]
    OBVIOUS
  <2>4. h[k + 1] = v /\ \A m \in 0..k : h[m] = g[m]
    BY <2>3
  <2>5. ASSUME NEW m \in 0..(k + 1)
        PROVE  h[m] = IF m < 10 THEN <<Digits[m + 1]>> ELSE Append(h[m \div 10], Digits[(m % 10) + 1])
    <3>1. ~(m < 10) => m \div 10 \in 0..k
      <4>1. ~(m < 10) => m \div 10 \in Nat /\ m \div 10 < m
        BY Tenth
      <4> QED BY <4>1
    <3>2. ~(m < 10) => h[m \div 10] = g[m \div 10]
      BY <2>4, <3>1
    <3>3. CASE m = k + 1
      BY <2>2, <2>4, <3>2, <3>3
    <3>4. CASE m # k + 1
      <4>1. m \in 0..k
        BY <3>4
      <4>2. g[m] = IF m < 10 THEN <<Digits[m + 1]>> ELSE Append(g[m \div 10], Digits[(m % 10) + 1])
        BY <2>1, <4>1 DEF Digitised
      <4> QED BY <2>4, <3>2, <4>1, <4>2
    <3> QED BY <3>3, <3>4
  <2>6. Digitised(h, k + 1)
    BY <2>5 DEF Digitised
  <2>7. k + 1 \in 0..n
    BY <1>2
  <2> QED BY <2>6, <2>7
<1>3. PICK g : Digitised(g, n)
  <2>1. \A k \in 0..n : k \in P
    <3> HIDE DEF P
    <3> QED BY <1>1, <1>2, Upto
  <2> QED BY <2>1
<1>4. PICK c : c = [m \in 0..n |-> g[m]]
  OBVIOUS
<1>5. Is(c)
  <2>1. ASSUME NEW m \in 0..n
        PROVE  g[m] = IF m < 10 THEN <<Digits[m + 1]>> ELSE Append(c[m \div 10], Digits[(m % 10) + 1])
    <3>1. ~(m < 10) => m \div 10 \in 0..n
      <4>1. ~(m < 10) => m \div 10 \in Nat /\ m \div 10 < m
        BY Tenth
      <4> QED BY <4>1
    <3>2. ~(m < 10) => c[m \div 10] = g[m \div 10]
      BY <1>4, <3>1
    <3> QED BY <1>3, <3>2 DEF Digitised
  <2> QED BY <1>4, <2>1
<1>6. PICK f : f = CHOOSE h : Is(h)
  OBVIOUS
<1>7. Is(f)
  <2> HIDE DEF Is
  <2> QED BY <1>5, <1>6
<1>8. Decimal(n) = f[n]
  BY <1>6 DEF Decimal
<1>9. Digitised(f, n)
  <2>1. PICK r : r = [m \in 0..n |-> IF m < 10 THEN <<Digits[m + 1]>>
                                    ELSE Append(f[m \div 10], Digits[(m % 10) + 1])]
    OBVIOUS
  <2>2. f = r
    BY <1>7, <2>1
  <2>3. \A m \in 0..n : r[m] = IF m < 10 THEN <<Digits[m + 1]>>
                               ELSE Append(f[m \div 10], Digits[(m % 10) + 1])
    BY <2>1
  <2> QED BY <2>2, <2>3 DEF Digitised
<1> QED BY <1>8, <1>9

\* Decimal and Number are inverse: what strconv writes it reads.
LEMMA DecimalNumeral ==
  ASSUME NEW n \in Nat
  PROVE  Numeral(Decimal(n), n)
<1>1. PICK f : Digitised(f, n) /\ Decimal(n) = f[n]
  BY DecimalLoop
<1> DEFINE P == {k \in 0..n : \A m \in 0..k : Numeral(f[m], m)}
<1> HIDE DEF Digits
<1>2. ASSUME NEW m \in 0..n, \A j \in 0..n : j < m => Numeral(f[j], j)
      PROVE  Numeral(f[m], m)
  <2>1. f[m] = IF m < 10 THEN <<Digits[m + 1]>> ELSE Append(f[m \div 10], Digits[(m % 10) + 1])
    BY <1>1 DEF Digitised
  <2>2. CASE m < 10
    <3>1. m \in 0..9
      BY <2>2
    <3> QED BY <2>1, <2>2, <3>1, NumeralOne
  <2>3. CASE ~(m < 10)
    <3>1. PICK t : t = m \div 10
      OBVIOUS
    <3>2. PICK e : e = m % 10
      OBVIOUS
    <3>3. t \in Nat /\ t < m /\ e \in 0..9 /\ m = 10 * t + e
      BY <2>3, <3>1, <3>2, Tenth
    <3>4. Numeral(f[t], t)
      BY <1>2, <3>3
    <3>5. Numeral(Append(f[t], Digits[e + 1]), 10 * t + e)
      BY <3>3, <3>4, NumeralMore
    <3>6. f[m] = Append(f[t], Digits[e + 1])
      BY <2>1, <2>3, <3>1, <3>2
    <3> QED BY <3>3, <3>5, <3>6
  <2> QED BY <2>2, <2>3
<1>3. 0 \in P
  <2>1. Numeral(f[0], 0)
    <3>1. 0 \in 0..n /\ \A j \in 0..n : ~(j < 0)
      OBVIOUS
    <3> QED BY <1>2, <3>1
  <2>2. \A m \in 0..0 : m = 0
    OBVIOUS
  <2> QED BY <2>1, <2>2
<1>4. ASSUME NEW k \in 0..n, k \in P, k < n PROVE k + 1 \in P
  <2>1. k + 1 \in 0..n /\ \A j \in 0..n : j < k + 1 => j \in 0..k
    BY <1>4
  <2>2. Numeral(f[k + 1], k + 1)
    BY <1>2, <1>4, <2>1
  <2>3. \A m \in 0..(k + 1) : m \in 0..k \/ m = k + 1
    BY <1>4
  <2> QED BY <1>4, <2>1, <2>2, <2>3
<1>5. n \in P
  <2> HIDE DEF P
  <2>1. \A k \in 0..n : k \in P
    BY <1>3, <1>4, Upto
  <2> QED BY <2>1
<1> QED BY <1>1, <1>5

-----------------------------------------------------------------------------
(* Messages: where the lines of what Build makes are.                        *)

\* Two sequences, one after the other.
LEMMA Joined ==
  ASSUME NEW a \in Seq(Symbol), NEW b \in Seq(Symbol)
  PROVE  /\ a \o b \in Seq(Symbol) /\ Len(a \o b) = Len(a) + Len(b)
         /\ Len(a) \in Nat /\ Len(b) \in Nat
         /\ \A i \in 1..Len(a) : (a \o b)[i] = a[i]
         /\ \A i \in 1..Len(b) : (a \o b)[Len(a) + i] = b[i]
BY ConcatProperties

\* M begins with s.
Begins(M, s) == Len(s) <= Len(M) /\ \A i \in 1..Len(s) : M[i] = s[i]

\* The bytes s and the end of their line, after the first o bytes of M.
LineAt(M, o, s) ==
  /\ o \in Nat /\ s \in Seq(Symbol) /\ o + Len(s) + 2 <= Len(M)
  /\ \A j \in 1..Len(s) : M[o + j] = s[j]
  /\ M[o + Len(s) + 1] = CR /\ M[o + Len(s) + 2] = LF

\* A line is where it was written, and what was before it stays.
LEMMA LineWritten ==
  ASSUME NEW a \in Seq(Symbol), NEW s \in Seq(Symbol)
  PROVE  /\ (a \o s) \o <<CR, LF>> \in Seq(Symbol)
         /\ Len((a \o s) \o <<CR, LF>>) = Len(a) + Len(s) + 2
         /\ Begins((a \o s) \o <<CR, LF>>, a) /\ LineAt((a \o s) \o <<CR, LF>>, Len(a), s)
<1> DEFINE e == <<CR, LF>>
           b == a \o s
           M == b \o e
<1>1. e \in Seq(Symbol) /\ Len(e) = 2 /\ e[1] = CR /\ e[2] = LF
  BY LineEnds
<1> HIDE DEF e
<1>2. /\ b \in Seq(Symbol) /\ Len(b) = Len(a) + Len(s) /\ Len(a) \in Nat /\ Len(s) \in Nat
      /\ \A i \in 1..Len(a) : b[i] = a[i]
      /\ \A i \in 1..Len(s) : b[Len(a) + i] = s[i]
  BY Joined
<1> HIDE DEF b
<1>3. /\ M \in Seq(Symbol) /\ Len(M) = Len(b) + Len(e)
      /\ \A i \in 1..Len(b) : M[i] = b[i]
      /\ \A i \in 1..Len(e) : M[Len(b) + i] = e[i]
  BY <1>1, <1>2, Joined
<1> HIDE DEF M
<1>4. Len(M) = Len(a) + Len(s) + 2
  BY <1>1, <1>2, <1>3
<1>5. Begins(M, a)
  BY <1>2, <1>3, <1>4 DEF Begins
<1>6. \A j \in 1..Len(s) : M[Len(a) + j] = s[j]
  BY <1>2, <1>3
<1>7. M[Len(a) + Len(s) + 1] = CR /\ M[Len(a) + Len(s) + 2] = LF
  <2>1. M[Len(b) + 1] = e[1] /\ M[Len(b) + 2] = e[2]
    BY <1>1, <1>3
  <2>2. Len(a) + Len(s) + 1 = Len(b) + 1 /\ Len(a) + Len(s) + 2 = Len(b) + 2
    BY <1>2
  <2> QED BY <1>1, <2>1, <2>2, Zenon
<1>8. LineAt(M, Len(a), s)
  BY <1>2, <1>4, <1>6, <1>7 DEF LineAt
<1> QED BY <1>3, <1>4, <1>5, <1>8 DEF M, b, e

\* A line stays where it is when bytes are added after it ...
LEMMA LineStays ==
  ASSUME NEW t \in Seq(Symbol), NEW M \in Seq(Symbol), Begins(M, t), NEW o, NEW s, LineAt(t, o, s)
  PROVE  LineAt(M, o, s)
<1>1. /\ o \in Nat /\ s \in Seq(Symbol) /\ Len(s) \in Nat /\ o + Len(s) + 2 <= Len(t)
      /\ Len(t) \in Nat /\ Len(M) \in Nat /\ Len(t) <= Len(M)
  BY DEF LineAt, Begins
<1>2. \A i \in 1..(o + Len(s) + 2) : M[i] = t[i]
  BY <1>1 DEF Begins
<1>3. /\ \A j \in 1..Len(s) : o + j \in 1..(o + Len(s) + 2)
      /\ o + Len(s) + 1 \in 1..(o + Len(s) + 2) /\ o + Len(s) + 2 \in 1..(o + Len(s) + 2)
      /\ o + Len(s) + 2 <= Len(M)
  BY <1>1
<1> QED BY <1>1, <1>2, <1>3 DEF LineAt

\* ... and moves with the bytes before it.
LEMMA LineMoves ==
  ASSUME NEW a \in Seq(Symbol), NEW t \in Seq(Symbol), NEW o, NEW s, LineAt(t, o, s)
  PROVE  LineAt(a \o t, Len(a) + o, s)
<1> DEFINE M == a \o t
<1>1. /\ o \in Nat /\ s \in Seq(Symbol) /\ Len(s) \in Nat /\ o + Len(s) + 2 <= Len(t)
      /\ Len(t) \in Nat
  BY DEF LineAt
<1>2. Len(M) = Len(a) + Len(t) /\ Len(a) \in Nat /\ \A i \in 1..Len(t) : M[Len(a) + i] = t[i]
  BY Joined
<1> HIDE DEF M
<1>3. ASSUME NEW i \in 1..(o + Len(s) + 2) PROVE M[Len(a) + i] = t[i]
  BY <1>1, <1>2
<1>4. ASSUME NEW j \in 1..Len(s) PROVE M[(Len(a) + o) + j] = s[j]
  <2>1. o + j \in 1..(o + Len(s) + 2) /\ (Len(a) + o) + j = Len(a) + (o + j)
    BY <1>1, <1>2
  <2>2. t[o + j] = s[j]
    BY DEF LineAt
  <2> QED BY <1>3, <2>1, <2>2
<1>5. M[(Len(a) + o) + Len(s) + 1] = CR /\ M[(Len(a) + o) + Len(s) + 2] = LF
  <2>1. /\ o + Len(s) + 1 \in 1..(o + Len(s) + 2) /\ o + Len(s) + 2 \in 1..(o + Len(s) + 2)
        /\ (Len(a) + o) + Len(s) + 1 = Len(a) + (o + Len(s) + 1)
        /\ (Len(a) + o) + Len(s) + 2 = Len(a) + (o + Len(s) + 2)
    BY <1>1, <1>2
  <2>2. t[o + Len(s) + 1] = CR /\ t[o + Len(s) + 2] = LF
    BY DEF LineAt
  <2>3. M[Len(a) + (o + Len(s) + 1)] = CR /\ M[Len(a) + (o + Len(s) + 2)] = LF
    BY <1>3, <2>1, <2>2
  <2> QED BY <2>1, <2>3
<1>6. Len(a) + o \in Nat /\ (Len(a) + o) + Len(s) + 2 <= Len(M)
  BY <1>1, <1>2
<1> QED BY <1>1, <1>4, <1>5, <1>6 DEF LineAt, M

\* An argument: "$", its length, its bytes.
LEMMA ArgWritten ==
  ASSUME NEW a \in Seq(Symbol)
  PROVE  /\ BuildArg(a) \in Seq(Symbol) /\ BuildArg(a)[1] = "$"
         /\ Numeral(Decimal(Len(a)), Len(a))
         /\ LineAt(BuildArg(a), 1, Decimal(Len(a)))
         /\ LineAt(BuildArg(a), Len(Decimal(Len(a))) + 3, a)
         /\ Len(BuildArg(a)) = Len(Decimal(Len(a))) + Len(a) + 5
<1> DEFINE d == Decimal(Len(a))
           h == <<"$">>
           t == (h \o d) \o <<CR, LF>>
           M == (t \o a) \o <<CR, LF>>
<1>1. Numeral(d, Len(a))
  BY DecimalNumeral
<1> HIDE DEF d
<1>2. d \in Seq(Symbol) /\ Len(d) \in Nat /\ Len(a) \in Nat
  BY <1>1 DEF Numeral
<1>3. h \in Seq(Symbol) /\ Len(h) = 1 /\ h[1] = "$"
  BY DEF Symbol
<1> HIDE DEF h
<1>4. t \in Seq(Symbol) /\ Len(t) = Len(h) + Len(d) + 2 /\ Begins(t, h) /\ LineAt(t, Len(h), d)
  BY <1>2, <1>3, LineWritten
<1> HIDE DEF t
<1>5. M \in Seq(Symbol) /\ Len(M) = Len(t) + Len(a) + 2 /\ Begins(M, t) /\ LineAt(M, Len(t), a)
  BY <1>4, LineWritten
<1>6. BuildArg(a) = M
  BY DEF BuildArg, M, t, h, d
<1> HIDE DEF M
<1>7. LineAt(M, 1, d)
  BY <1>3, <1>4, <1>5, LineStays
<1>8. t[1] = "$"
  BY <1>3, <1>4 DEF Begins
<1>9. M[1] = "$"
  <2>1. 1 \in 1..Len(t)
    BY <1>2, <1>3, <1>4
  <2> QED BY <1>5, <1>8, <2>1 DEF Begins
<1>10. Len(t) = Len(d) + 3 /\ Len(M) = Len(d) + Len(a) + 5
  BY <1>2, <1>3, <1>4, <1>5
<1> QED BY <1>1, <1>5, <1>6, <1>7, <1>9, <1>10 DEF d

-----------------------------------------------------------------------------
Args == Seq(Seq(Symbol) \ {<<>>}) \ {<<>>}

\* Arguments are sequences that are not empty.
LEMMA ArgsType ==
  ASSUME NEW args \in Args
  PROVE  /\ Len(args) \in Nat /\ Len(args) > 0
         /\ \A k \in 1..Len(args) : args[k] \in Seq(Symbol) /\ Len(args[k]) \in Nat /\ Len(args[k]) > 0
<1>1. args \in Seq(Seq(Symbol) \ {<<>>}) /\ args # <<>>
  BY DEF Args
<1>2. Len(args) \in Nat /\ Len(args) > 0 /\ \A k \in 1..Len(args) : args[k] \in Seq(Symbol) \ {<<>>}
  BY <1>1
<1>3. \A a \in Seq(Symbol) \ {<<>>} : a \in Seq(Symbol) /\ Len(a) \in Nat /\ Len(a) > 0
  OBVIOUS
<1> QED BY <1>2, <1>3

\* The loop of Build.
Building(args, f) ==
  /\ \A k \in 0..Len(args) : f[k] \in Seq(Symbol)
  /\ f[0] = (<<"*">> \o Decimal(Len(args))) \o <<CR, LF>>
  /\ \A k \in 1..Len(args) : f[k] = f[k - 1] \o BuildArg(args[k])

\* BuildArgs is what the loop ends with.
LEMMA BuildLoop ==
  ASSUME NEW args \in Args
  PROVE  \E f : Building(args, f) /\ BuildArgs(args) = f[Len(args)]
<1> DEFINE a == (<<"*">> \o Decimal(Len(args))) \o <<CR, LF>>
           Is(f) == f = [i \in 0..Len(args) |-> IF i = 0 THEN a ELSE f[i - 1] \o BuildArg(args[i])]
<1>1. PICK N \in Nat : N = Len(args)
  BY ArgsType
<1>2. PICK V : V = Seq(Symbol)
  OBVIOUS
<1>3. a \in V
  <2>1. <<"*">> \in Seq(Symbol)
    BY DEF Symbol
  <2>2. Decimal(Len(args)) \in Seq(Symbol)
    BY <1>1, DecimalNumeral DEF Numeral
  <2> QED BY <1>2, <2>1, <2>2, LineWritten
<1>4. PICK b \in [1..N -> V] : \A k \in 1..N : b[k] = BuildArg(args[k])
  <2>1. \A k \in 1..N : BuildArg(args[k]) \in V
    BY <1>1, <1>2, ArgsType, ArgWritten
  <2>2. PICK b : b = [k \in 1..N |-> BuildArg(args[k])]
    OBVIOUS
  <2>3. b \in [1..N -> V] /\ \A k \in 1..N : b[k] = BuildArg(args[k])
    BY <2>1, <2>2
  <2> QED BY <2>3
<1>5. \A k \in 1..N, v \in V : v \o b[k] \in V
  BY <1>2, Joined
<1>6. PICK step : step = [x \in (1..N) \X V |-> x[2] \o b[x[1]]]
  OBVIOUS
<1>7. step \in [(1..N) \X V -> V]
  BY <1>5, <1>6
<1>8. \A k \in 1..N, v \in V : step[<<k, v>>] = v \o b[k]
  BY <1>6
<1> HIDE DEF a
<1>9. PICK g \in [0..N -> V] : g[0] = a /\ \A k \in 1..N : g[k] = step[<<k, g[k - 1]>>]
  <2>1. Steps(N, V, a, step)
    BY <1>3, <1>7 DEF Steps
  <2>2. PICK g : Iterates(N, V, a, step, g)
    BY <2>1, Recursion
  <2> QED BY <2>2 DEF Iterates
<1>10. ASSUME NEW k \in 1..N PROVE g[k] = g[k - 1] \o BuildArg(args[k])
  <2>1. g[k - 1] \in V
    OBVIOUS
  <2> QED BY <1>4, <1>8, <1>9, <2>1
<1>11. Is(g)
  <2>1. g = [k \in 0..N |-> g[k]]
    OBVIOUS
  <2>2. \A k \in 0..N : k = 0 \/ k \in 1..N
    OBVIOUS
  <2>3. \A k \in 0..N : g[k] = IF k = 0 THEN a ELSE g[k - 1] \o BuildArg(args[k])
    BY <1>9, <1>10, <2>2
  <2>4. g = [k \in 0..N |-> IF k = 0 THEN a ELSE g[k - 1] \o BuildArg(args[k])]
    BY <2>1, <2>3
  <2> QED BY <1>1, <2>4
<1>12. PICK f : f = CHOOSE h : Is(h)
  OBVIOUS
<1>13. Is(f)
  <2> HIDE DEF Is
  <2> QED BY <1>11, <1>12
<1>14. BuildArgs(args) = f[Len(args)]
  BY <1>12 DEF BuildArgs, a
<1>15. f[0] = a /\ \A k \in 1..N : f[k] = f[k - 1] \o b[k]
  <2>1. PICK r : r = [k \in 0..N |-> IF k = 0 THEN a ELSE f[k - 1] \o BuildArg(args[k])]
    OBVIOUS
  <2>2. f = r
    BY <1>1, <1>13, <2>1
  <2>3. r[0] = a /\ \A k \in 1..N : r[k] = f[k - 1] \o BuildArg(args[k])
    BY <2>1
  <2> QED BY <1>4, <2>2, <2>3
<1>16. \A k \in 0..N : f[k] \in V
  <2> DEFINE P == {k \in 0..N : f[k] \in V}
  <2>1. 0 \in P
    BY <1>3, <1>15
  <2>2. ASSUME NEW k \in 0..N, k \in P, k < N PROVE k + 1 \in P
    <3>1. k + 1 \in 1..N /\ (k + 1) - 1 = k /\ k + 1 \in 0..N
      BY <2>2
    <3>2. f[k] \in V
      BY <2>2
    <3>3. f[k + 1] = f[k] \o b[k + 1]
      BY <1>15, <3>1
    <3>4. f[k + 1] \in V
      BY <1>5, <3>1, <3>2, <3>3
    <3> QED BY <3>1, <3>4
  <2>3. \A k \in 0..N : k \in P
    <3> HIDE DEF P
    <3> QED BY <2>1, <2>2, Upto
  <2> QED BY <2>3
<1>17. Building(args, f)
  BY <1>1, <1>2, <1>4, <1>15, <1>16 DEF Building, a
<1> QED BY <1>14, <1>17

-----------------------------------------------------------------------------
\* A message of arguments: argument k comes after the first m.at[k] bytes, its
\* own bytes after the first m.body[k], and m.num[k] says how many they are.
ArgAt(m, k) ==
  /\ m.at[k] \in Nat /\ m.at[k] < Len(m.bytes) /\ m.bytes[m.at[k] + 1] = "$"
  /\ Numeral(m.num[k], Len(m.args[k])) /\ LineAt(m.bytes, m.at[k] + 1, m.num[k])
  /\ m.body[k] = m.at[k] + Len(m.num[k]) + 3 /\ LineAt(m.bytes, m.body[k], m.args[k])
  /\ m.at[k + 1] = m.body[k] + Len(m.args[k]) + 2

Laid(m) ==
  /\ m.bytes \in Seq(Symbol) /\ m.args \in Args
  /\ \A k \in 1..Len(m.args) : ArgAt(m, k)
  /\ m.at[Len(m.args) + 1] = Len(m.bytes)

\* Most begin with the number of arguments ...
Counted(m) ==
  /\ Laid(m) /\ m.count = Len(m.args) /\ m.bytes[1] = "*" /\ Numeral(m.num[0], Len(m.args))
  /\ LineAt(m.bytes, 1, m.num[0]) /\ m.at[1] = Len(m.num[0]) + 3

\* ... a reply of one argument does not.
Single(m) == Laid(m) /\ m.count = 0 /\ Len(m.args) = 1 /\ m.at[1] = 0

\* What begins with t, which begins with s, begins with s.
LEMMA BeginsFurther ==
  ASSUME NEW a \in Seq(Symbol), NEW b \in Seq(Symbol), NEW c \in Seq(Symbol), Begins(b, a)
  PROVE  Begins(b \o c, a)
<1>1. Len(b \o c) = Len(b) + Len(c) /\ \A i \in 1..Len(b) : (b \o c)[i] = b[i]
  BY Joined
<1>2. Len(a) \in Nat /\ Len(b) \in Nat /\ Len(c) \in Nat /\ Len(a) <= Len(b)
  BY DEF Begins
<1>3. \A i \in 1..Len(a) : i \in 1..Len(b) /\ b[i] = a[i]
  BY <1>2 DEF Begins
<1> QED BY <1>1, <1>2, <1>3 DEF Begins

\* The message begins with what every turn of the loop has built.
LEMMA BuildingGrows ==
  ASSUME NEW args \in Args, NEW f, Building(args, f), NEW k \in 0..Len(args)
  PROVE  Begins(f[Len(args)], f[k])
<1>1. PICK N \in Nat : N = Len(args)
  BY ArgsType
<1>2. PICK V : V = Seq(Symbol)
  OBVIOUS
<1> DEFINE P == {j \in 0..N : k <= j => Begins(f[j], f[k])}
<1>3. \A j \in 0..N : f[j] \in V
  BY <1>1, <1>2 DEF Building
<1>4. Begins(f[k], f[k])
  <2>1. Len(f[k]) \in Nat
    BY <1>1, <1>2, <1>3
  <2> QED BY <2>1 DEF Begins
<1>5. 0 \in P
  <2>1. 0 \in 0..N /\ (k <= 0 => k = 0)
    BY <1>1
  <2> QED BY <1>4, <2>1
<1>6. ASSUME NEW j \in 0..N, j \in P, j < N PROVE j + 1 \in P
  <2>1. j + 1 \in 1..N /\ (j + 1) - 1 = j /\ j + 1 \in 0..N
    BY <1>6
  <2>2. f[j + 1] = f[j] \o BuildArg(args[j + 1])
    BY <1>1, <2>1 DEF Building
  <2>3. BuildArg(args[j + 1]) \in Seq(Symbol)
    BY <1>1, <2>1, ArgsType, ArgWritten
  <2>4. CASE k <= j
    <3>1. Begins(f[j], f[k])
      BY <1>6, <2>4
    <3>2. Begins(f[j + 1], f[k])
      BY <1>1, <1>2, <1>3, <2>2, <2>3, <3>1, BeginsFurther
    <3> QED BY <2>1, <3>2
  <2>5. CASE ~(k <= j)
    <3>1. k <= j + 1 => k = j + 1
      BY <1>1, <2>5
    <3> QED BY <1>4, <2>1, <3>1
  <2> QED BY <2>4, <2>5
<1>7. \A j \in 0..N : j \in P
  <2> HIDE DEF P
  <2> QED BY <1>5, <1>6, Upto
<1>8. N \in P /\ k <= N
  BY <1>1, <1>7
<1> QED BY <1>1, <1>8

\* BuildArgs makes such a message.
LEMMA CountedBuilt ==
  ASSUME NEW args \in Args
  PROVE  \E m : Counted(m) /\ m.args = args /\ m.bytes = BuildArgs(args)
<1>1. PICK f : Building(args, f) /\ BuildArgs(args) = f[Len(args)]
  BY BuildLoop
<1>2. PICK N \in Nat : N = Len(args) /\ N > 0
  BY ArgsType
<1>3. PICK M : M = f[N]
  OBVIOUS
<1>4. PICK num : num = [k \in 0..N |-> IF k = 0 THEN Decimal(N) ELSE Decimal(Len(args[k]))]
  OBVIOUS
<1>5. num[0] = Decimal(N) /\ \A k \in 1..N : num[k] = Decimal(Len(args[k]))
  BY <1>4
<1>6. PICK offs : offs = [k \in 1..(N + 1) |-> Len(f[k - 1])]
  OBVIOUS
<1>7. \A k \in 1..(N + 1) : offs[k] = Len(f[k - 1])
  BY <1>6
<1>8. PICK body : body = [k \in 1..N |-> offs[k] + Len(num[k]) + 3]
  OBVIOUS
<1>9. \A k \in 1..N : body[k] = offs[k] + Len(num[k]) + 3
  BY <1>8
<1>10. PICK m : m = [bytes |-> M, args |-> args, num |-> num, at |-> offs, body |-> body, count |-> N]
  OBVIOUS
<1>11. m.bytes = M /\ m.args = args /\ m.num = num /\ m.at = offs /\ m.body = body /\ m.count = N
  BY <1>10
<1>12. M \in Seq(Symbol) /\ Len(M) \in Nat
  <2>1. M \in Seq(Symbol)
    BY <1>1, <1>2, <1>3 DEF Building
  <2> QED BY <2>1
<1>13. ASSUME NEW k \in 0..N PROVE f[k] \in Seq(Symbol) /\ Len(f[k]) \in Nat /\ Begins(M, f[k])
  <2>1. f[k] \in Seq(Symbol)
    BY <1>1, <1>2 DEF Building
  <2>2. Begins(M, f[k])
    BY <1>1, <1>2, <1>3, BuildingGrows
  <2> QED BY <2>1, <2>2
<1>14. ASSUME NEW k \in 1..N PROVE ArgAt(m, k)
  <2> DEFINE a == args[k]
             d == num[k]
             b == f[k - 1]
             t == BuildArg(a)
  <2>1. a \in Seq(Symbol) /\ Len(a) \in Nat
    BY <1>2, ArgsType
  <2>2. d = Decimal(Len(a))
    BY <1>5
  <2> HIDE DEF a, d
  <2>3. /\ t \in Seq(Symbol) /\ t[1] = "$" /\ Numeral(d, Len(a)) /\ LineAt(t, 1, d)
        /\ LineAt(t, Len(d) + 3, a) /\ Len(t) = Len(d) + Len(a) + 5
    BY <2>1, <2>2, ArgWritten
  <2>4. Len(d) \in Nat
    BY <2>3 DEF Numeral
  <2>5. f[k] = b \o t
    BY <1>1, <1>2 DEF Building, a
  <2> HIDE DEF t
  <2>6. b \in Seq(Symbol) /\ Len(b) \in Nat /\ offs[k] = Len(b)
    <3>1. k - 1 \in 0..N /\ k \in 1..(N + 1)
      OBVIOUS
    <3> QED BY <1>7, <1>13, <3>1
  <2> HIDE DEF b
  <2>7. f[k] \in Seq(Symbol) /\ Begins(M, f[k])
    BY <1>13
  <2>8. Len(f[k]) = Len(b) + Len(t) /\ f[k][Len(b) + 1] = t[1]
    <3>1. 1 \in 1..Len(t)
      BY <2>1, <2>3, <2>4
    <3>2. Len(b \o t) = Len(b) + Len(t) /\ (b \o t)[Len(b) + 1] = t[1]
      BY <2>3, <2>6, <3>1, Joined
    <3> QED BY <2>5, <3>2, Zenon
  <2>9. LineAt(f[k], Len(b) + 1, d) /\ LineAt(f[k], Len(b) + (Len(d) + 3), a)
    BY <2>3, <2>5, <2>6, LineMoves
  <2>10. LineAt(M, Len(b) + 1, d) /\ LineAt(M, Len(b) + (Len(d) + 3), a)
    BY <1>12, <2>7, <2>9, LineStays
  <2>11. M[Len(b) + 1] = "$" /\ Len(b) < Len(M)
    <3>1. Len(b) + 1 \in 1..Len(f[k]) /\ Len(f[k]) \in Nat
      BY <2>1, <2>3, <2>4, <2>6, <2>8
    <3>2. M[Len(b) + 1] = f[k][Len(b) + 1] /\ Len(f[k]) <= Len(M)
      BY <2>7, <3>1 DEF Begins
    <3> QED BY <1>12, <2>3, <2>6, <2>8, <3>1, <3>2
  <2>12. body[k] = Len(b) + Len(d) + 3 /\ body[k] = Len(b) + (Len(d) + 3)
    BY <1>9, <2>4, <2>6 DEF d
  <2>13. offs[k + 1] = body[k] + Len(a) + 2
    <3>1. k + 1 \in 1..(N + 1) /\ (k + 1) - 1 = k
      OBVIOUS
    <3>2. offs[k + 1] = Len(f[k])
      BY <1>7, <3>1
    <3> QED BY <2>1, <2>3, <2>4, <2>6, <2>8, <2>12, <3>2
  <2>14. LineAt(M, body[k], a)
    BY <2>10, <2>12, Zenon
  <2> QED BY <1>11, <2>3, <2>6, <2>10, <2>11, <2>12, <2>13, <2>14 DEF ArgAt, a, d
<1>15. Laid(m)
  <2>1. offs[N + 1] = Len(M)
    <3>1. N + 1 \in 1..(N + 1) /\ (N + 1) - 1 = N
      OBVIOUS
    <3> QED BY <1>3, <1>7, <3>1
  <2> QED BY <1>2, <1>11, <1>12, <1>14, <2>1 DEF Laid
<1>16. /\ Numeral(num[0], N) /\ Begins(M, f[0]) /\ f[0][1] = "*"
       /\ LineAt(f[0], 1, num[0]) /\ Len(f[0]) = Len(num[0]) + 3
  <2> DEFINE h == <<"*">>
             d == num[0]
             t == (h \o d) \o <<CR, LF>>
  <2>1. h \in Seq(Symbol) /\ Len(h) = 1 /\ h[1] = "*"
    BY DEF Symbol
  <2>2. Numeral(d, N) /\ d \in Seq(Symbol) /\ Len(d) \in Nat
    <3>1. Numeral(d, N)
      BY <1>5, DecimalNumeral
    <3> QED BY <3>1 DEF Numeral
  <2>3. f[0] = t
    BY <1>1, <1>2, <1>5 DEF Building
  <2> HIDE DEF h, d
  <2>4. Len(t) = Len(h) + Len(d) + 2 /\ Begins(t, h) /\ LineAt(t, Len(h), d)
    BY <2>1, <2>2, LineWritten
  <2> HIDE DEF t
  <2>5. t[1] = "*"
    BY <2>1, <2>4 DEF Begins
  <2>6. Len(t) = Len(d) + 3
    BY <2>1, <2>2, <2>4
  <2>7. Begins(M, f[0])
    BY <1>13
  <2> QED BY <2>1, <2>2, <2>3, <2>4, <2>5, <2>6, <2>7 DEF d
<1>17. LineAt(M, 1, num[0]) /\ M[1] = "*" /\ offs[1] = Len(num[0]) + 3
  <2>1. 0 \in 0..N /\ 1 \in 1..(N + 1) /\ 1 - 1 = 0
    OBVIOUS
  <2>2. f[0] \in Seq(Symbol)
    BY <1>13, <2>1
  <2>3. LineAt(M, 1, num[0])
    BY <1>12, <1>16, <2>2, LineStays
  <2>4. 1 \in 1..Len(f[0])
    <3>1. Len(num[0]) \in Nat
      BY <1>16 DEF Numeral
    <3> QED BY <1>16, <3>1
  <2>5. M[1] = "*"
    BY <1>16, <2>4 DEF Begins
  <2> QED BY <1>7, <1>16, <2>1, <2>3, <2>5
<1>18. Counted(m)
  BY <1>2, <1>11, <1>15, <1>16, <1>17 DEF Counted
<1> QED BY <1>1, <1>2, <1>3, <1>11, <1>18

\* BuildArg makes one without a count.
LEMMA SingleBuilt ==
  ASSUME NEW a \in Seq(Symbol), a # <<>>
  PROVE  \E m : Single(m) /\ m.args = <<a>> /\ m.bytes = BuildArg(a)
<1> DEFINE d == Decimal(Len(a))
           M == BuildArg(a)
           args == <<a>>
           num == <<d>>
           offs == <<0, Len(M)>>
           body == <<Len(d) + 3>>
           m == [bytes |-> M, args |-> args, num |-> num, at |-> offs, body |-> body, count |-> 0]
<1>1. /\ M \in Seq(Symbol) /\ M[1] = "$" /\ Numeral(d, Len(a)) /\ LineAt(M, 1, d)
      /\ LineAt(M, Len(d) + 3, a) /\ Len(M) = Len(d) + Len(a) + 5
  BY ArgWritten
<1> HIDE DEF d, M
<1>2. Len(d) \in Nat /\ Len(a) \in Nat
  BY <1>1 DEF Numeral
<1>3. args \in Args /\ Len(args) = 1 /\ args[1] = a
  BY DEF Args
<1>4. num[1] = d /\ offs[1] = 0 /\ offs[2] = Len(M) /\ body[1] = Len(d) + 3
  OBVIOUS
<1>5. m.bytes = M /\ m.args = args /\ m.num = num /\ m.at = offs /\ m.body = body /\ m.count = 0
  OBVIOUS
<1> HIDE DEF m, args, num, offs, body
<1>6. ArgAt(m, 1)
  <2>1. 0 < Len(M) /\ 1 + 1 = 2 /\ 0 + 1 = 1 /\ Len(d) + 3 = 0 + Len(d) + 3 /\ Len(M) = (Len(d) + 3) + Len(a) + 2
    BY <1>1, <1>2
  <2> QED BY <1>1, <1>3, <1>4, <1>5, <2>1 DEF ArgAt
<1>7. Laid(m)
  <2>1. \A k \in 1..Len(args) : k = 1
    BY <1>3
  <2>2. Len(args) + 1 = 2
    BY <1>3
  <2>3. offs[Len(args) + 1] = Len(M)
    BY <1>4, <2>2, Zenon
  <2>4. \A k \in 1..Len(m.args) : ArgAt(m, k)
    BY <1>5, <1>6, <2>1, Zenon
  <2> QED BY <1>1, <1>3, <1>5, <2>3, <2>4, Zenon DEF Laid
<1>8. Single(m)
  BY <1>3, <1>4, <1>5, <1>7 DEF Single
<1> QED BY <1>5, <1>8 DEF M, args

-----------------------------------------------------------------------------
(* The parser, at a byte of a message.                                       *)

Parser ==
  [stage : 0..5, args_count : Nat, args : Seq(Seq(Symbol)), carg : Seq(Symbol), carg_index : Nat,
   carg_len : Nat, arg_type : 0..4, buf : Seq(Symbol), last : Symbol, error : BOOLEAN]

\* Values its fields are set to.
LEMMA FieldValues ==
  /\ 0 \in 0..5 /\ 1 \in 0..5 /\ 2 \in 0..5 /\ 3 \in 0..5 /\ 4 \in 0..5 /\ 5 \in 0..5
  /\ 1 \in 0..4 /\ 2 \in 0..4 /\ 3 \in 0..4 /\ 4 \in 0..4
  /\ 0 \in Nat /\ <<>> \in Seq(Symbol) /\ <<>> \in Seq(Seq(Symbol))
OBVIOUS

\* What is read and what is on its way are the bytes of M from the q-th on.
Ahead(buf, w, M, q) ==
  /\ q \in Nat /\ w \in Seq(Symbol) /\ M \in Seq(Symbol) /\ Len(M) = q + Len(buf) + Len(w)
  /\ \A i \in 1..Len(buf) : buf[i] = M[q + i]
  /\ \A i \in 1..Len(w) : w[i] = M[q + Len(buf) + i]

\* q bytes of M are behind p, and if it knows the last one it is M's.
Onward(p, w, M, q) ==
  /\ p \in Parser /\ p.error = FALSE /\ Ahead(p.buf, w, M, q)
  /\ (p.buf # <<>> /\ q > 0) => p.last \in {NONE, M[q]}

\* The fields that only the end of a line changes.
Alike(p, r) ==
  /\ p.stage = r.stage /\ p.args_count = r.args_count /\ p.args = r.args
  /\ p.carg_index = r.carg_index /\ p.carg_len = r.carg_len /\ p.arg_type = r.arg_type

\* What is left when n bytes are taken.
LEMMA Rested ==
  ASSUME NEW s \in Seq(Symbol), NEW n \in 0..Len(s)
  PROVE  /\ SubSeq(s, n + 1, Len(s)) \in Seq(Symbol) /\ Len(SubSeq(s, n + 1, Len(s))) = Len(s) - n
         /\ \A i \in 1..(Len(s) - n) : SubSeq(s, n + 1, Len(s))[i] = s[n + i]
<1>1. Len(s) \in Nat /\ n + 1 \in 1..(Len(s) + 1)
  OBVIOUS
<1>2. \A i \in (n + 1)..Len(s) : s[i] \in Symbol
  OBVIOUS
<1>3. SubSeq(s, n + 1, Len(s)) \in Seq(Symbol)
  BY <1>1, <1>2, SubSeqProperties
<1>4. Len(SubSeq(s, n + 1, Len(s))) = Len(s) - n
  BY <1>1, <1>2, SubSeqProperties
<1>5. \A i \in 1..(Len(s) - n) : SubSeq(s, n + 1, Len(s))[i] = s[n + i]
  BY <1>1, <1>2, SubSeqProperties
<1> QED BY <1>3, <1>4, <1>5

\* What was taken.
LEMMA Taken ==
  ASSUME NEW s \in Seq(Symbol), NEW n \in 0..Len(s)
  PROVE  /\ SubSeq(s, 1, n) \in Seq(Symbol) /\ Len(SubSeq(s, 1, n)) = n
         /\ \A i \in 1..n : SubSeq(s, 1, n)[i] = s[i]
<1>1. Len(s) \in Nat
  OBVIOUS
<1>2. \A i \in 1..n : s[i] \in Symbol
  OBVIOUS
<1>3. SubSeq(s, 1, n) \in Seq(Symbol)
  BY <1>1, <1>2, SubSeqProperties
<1>4. Len(SubSeq(s, 1, n)) = n
  BY <1>1, <1>2, SubSeqProperties
<1>5. \A i \in 1..n : SubSeq(s, 1, n)[i] = s[i]
  BY <1>1, <1>2, SubSeqProperties
<1> QED BY <1>3, <1>4, <1>5

\* Taking n bytes is n bytes on.
LEMMA AheadMoves ==
  ASSUME NEW s \in Seq(Symbol), NEW w, NEW M, NEW q, Ahead(s, w, M, q), NEW n \in 0..Len(s),
         NEW t \in Seq(Symbol), Len(t) = Len(s) - n, \A i \in 1..(Len(s) - n) : t[i] = s[n + i]
  PROVE  Ahead(t, w, M, q + n)
<1>1. /\ q \in Nat /\ w \in Seq(Symbol) /\ M \in Seq(Symbol) /\ Len(M) = q + Len(s) + Len(w)
      /\ Len(s) \in Nat /\ Len(w) \in Nat
  BY DEF Ahead
<1>2. q + n \in Nat /\ Len(M) = (q + n) + Len(t) + Len(w)
  BY <1>1
<1>3. ASSUME NEW i \in 1..Len(t) PROVE t[i] = M[(q + n) + i]
  <2>1. n + i \in 1..Len(s) /\ (q + n) + i = q + (n + i)
    BY <1>1
  <2>2. t[i] = s[n + i]
    BY <1>1
  <2>3. s[n + i] = M[q + (n + i)]
    BY <2>1 DEF Ahead
  <2> QED BY <2>1, <2>2, <2>3
<1>4. ASSUME NEW i \in 1..Len(w) PROVE w[i] = M[(q + n) + Len(t) + i]
  <2>1. (q + n) + Len(t) + i = q + Len(s) + i
    BY <1>1
  <2>2. w[i] = M[q + Len(s) + i]
    BY DEF Ahead
  <2> QED BY <2>1, <2>2
<1> QED BY <1>1, <1>2, <1>3, <1>4 DEF Ahead

\* One byte is taken.
LEMMA TookFields ==
  ASSUME NEW p \in Parser, p.buf # <<>>
  PROVE  /\ Took(p) \in Parser /\ Took(p).buf = Tail(p.buf) /\ Took(p).last = Head(p.buf)
         /\ Took(p).error = p.error /\ Took(p).carg = p.carg /\ Alike(Took(p), p)
<1>1. p.buf \in Seq(Symbol)
  BY DEF Parser
<1>2. Tail(p.buf) \in Seq(Symbol) /\ Head(p.buf) \in Symbol
  BY <1>1
<1>3. Took(p) = [p EXCEPT !.buf = Tail(p.buf), !.last = Head(p.buf)]
  BY DEF Took, Parser
<1> QED BY <1>2, <1>3 DEF Parser, Alike

\* That is one byte on.
LEMMA TookOn ==
  ASSUME NEW p, NEW w, NEW M, NEW q, Onward(p, w, M, q), p.buf # <<>>
  PROVE  /\ Head(p.buf) = M[q + 1] /\ q < Len(M) /\ Onward(Took(p), w, M, q + 1)
         /\ Took(p).carg = p.carg /\ Alike(Took(p), p)
<1>1. p \in Parser /\ p.error = FALSE /\ Ahead(p.buf, w, M, q)
  BY DEF Onward
<1> DEFINE s == p.buf
           t == Took(p)
<1>2. s \in Seq(Symbol)
  BY <1>1 DEF Parser
<1>3. /\ t \in Parser /\ t.buf = Tail(s) /\ t.last = Head(s)
      /\ t.error = p.error /\ t.carg = p.carg /\ Alike(t, p)
  BY <1>1, TookFields
<1> HIDE DEF s, t
<1>4. /\ Tail(s) \in Seq(Symbol) /\ Len(Tail(s)) = Len(s) - 1 /\ Head(s) = s[1] /\ 1 \in 1..Len(s)
      /\ \A i \in 1..(Len(s) - 1) : Tail(s)[i] = s[1 + i]
  <2>1. s # <<>>
    BY DEF s
  <2> QED BY <1>2, <2>1
<1>5. Ahead(s, w, M, q)
  BY <1>1 DEF s
<1>6. Ahead(Tail(s), w, M, q + 1)
  <2>1. PICK r \in Seq(Symbol) : r = Tail(s)
    BY <1>4
  <2>2. Len(r) = Len(s) - 1 /\ \A i \in 1..(Len(s) - 1) : r[i] = s[1 + i]
    BY <1>4, <2>1
  <2>3. 1 \in 0..Len(s)
    BY <1>4
  <2>4. Ahead(r, w, M, q + 1)
    BY <1>2, <1>5, <2>2, <2>3, AheadMoves
  <2> QED BY <2>1, <2>4
<1>7. Head(s) = M[q + 1] /\ q < Len(M) /\ q \in Nat
  <2>1. Len(s) \in Nat /\ Len(w) \in Nat
    BY <1>2, <1>5 DEF Ahead
  <2> QED BY <1>4, <1>5, <2>1 DEF Ahead
<1>8. Onward(t, w, M, q + 1)
  BY <1>1, <1>3, <1>6, <1>7 DEF Onward
<1> QED BY <1>3, <1>7, <1>8 DEF s, t

\* Other fields do not matter for that.
LEMMA OnwardKept ==
  ASSUME NEW p, NEW w, NEW M, NEW q, Onward(p, w, M, q),
         NEW r \in Parser, r.buf = p.buf, r.last = p.last, r.error = p.error
  PROVE  Onward(r, w, M, q)
BY DEF Onward

\* The bytes c of the line s after the first o are read, and perhaps its CR.
InLine(c, s, o, q) ==
  \/ q = o + Len(c) /\ Len(c) <= Len(s) /\ \A j \in 1..Len(c) : c[j] = s[j]
  \/ q = o + Len(s) + 1 /\ c = s

\* Where the parser is in a line, the next byte is.
LEMMA LineNext ==
  ASSUME NEW c \in Seq(Symbol), NEW s \in Seq(Symbol), NEW o \in Nat, NEW q \in Nat, NEW M,
         InLine(c, s, o, q), LineAt(M, o, s)
  PROVE  \/ /\ Len(c) < Len(s) /\ M[q + 1] = s[Len(c) + 1] /\ M[q + 1] \in Symbol
            /\ InLine(Append(c, M[q + 1]), s, o, q + 1)
         \/ c = s /\ M[q + 1] = CR /\ InLine(c, s, o, q + 1)
         \/ c = s /\ q > 0 /\ M[q] = CR /\ M[q + 1] = LF /\ q + 1 = o + Len(s) + 2
<1>0. /\ Len(c) \in Nat /\ Len(s) \in Nat /\ \A j \in 1..Len(s) : M[o + j] = s[j]
      /\ M[o + Len(s) + 1] = CR /\ M[o + Len(s) + 2] = LF
  BY DEF LineAt
<1>1. CASE q = o + Len(s) + 1 /\ c = s
  <2>1. q > 0 /\ q + 1 = o + Len(s) + 2
    BY <1>0, <1>1
  <2> QED BY <1>0, <1>1, <2>1
<1>2. CASE q = o + Len(c) /\ Len(c) < Len(s) /\ \A j \in 1..Len(c) : c[j] = s[j]
  <2>1. Len(c) + 1 \in 1..Len(s) /\ q + 1 = o + (Len(c) + 1)
    BY <1>0, <1>2
  <2>2. PICK b : b = s[Len(c) + 1]
    OBVIOUS
  <2>3. M[q + 1] = b /\ b \in Symbol
    BY <1>0, <2>1, <2>2
  <2>4. PICK d : d = Append(c, b)
    OBVIOUS
  <2>5. Len(d) = Len(c) + 1 /\ d[Len(c) + 1] = b /\ \A j \in 1..Len(c) : d[j] = c[j]
    BY <2>3, <2>4
  <2>6. \A j \in 1..Len(d) : d[j] = s[j]
    <3>1. \A j \in 1..Len(d) : j \in 1..Len(c) \/ j = Len(c) + 1
      BY <1>0, <2>5
    <3> QED BY <1>2, <2>2, <2>5, <3>1
  <2>7. q + 1 = o + Len(d) /\ Len(d) <= Len(s)
    BY <1>0, <1>2, <2>5
  <2>8. InLine(d, s, o, q + 1)
    BY <2>6, <2>7 DEF InLine
  <2> QED BY <1>2, <2>2, <2>3, <2>4, <2>8
<1>3. CASE q = o + Len(c) /\ Len(c) = Len(s) /\ \A j \in 1..Len(c) : c[j] = s[j]
  <2>1. c = s
    BY <1>3, SeqEqual
  <2>2. q + 1 = o + Len(s) + 1
    BY <1>0, <1>3
  <2>3. InLine(c, s, o, q + 1)
    BY <2>1, <2>2 DEF InLine
  <2> QED BY <1>0, <2>1, <2>2, <2>3
<1> QED BY <1>0, <1>1, <1>2, <1>3 DEF InLine

\* A turn of the loop in a line with a number: the line is over, or it goes on.
LEMMA NumberLineStep ==
  ASSUME NEW p, NEW w, NEW M, NEW q, Onward(p, w, M, q), p.buf # <<>>,
         NEW s, NEW n \in Nat, Numeral(s, n), NEW o, LineAt(M, o, s), InLine(p.carg, s, o, q), NEW finished
  PROVE  \/ NumberLine(p, finished) = finished /\ p.carg = s /\ q + 1 = o + Len(s) + 2
         \/ /\ Onward(NumberLine(p, finished), w, M, q + 1) /\ Alike(NumberLine(p, finished), p)
            /\ InLine(NumberLine(p, finished).carg, s, o, q + 1)
<1>1. p \in Parser /\ p.carg \in Seq(Symbol) /\ q \in Nat /\ (q > 0 => p.last \in {NONE, M[q]})
  BY DEF Onward, Parser, Ahead
<1>2. /\ s \in Seq(Symbol) /\ Len(s) > 0 /\ Number(s) = n
      /\ \A i \in 1..Len(s) : IsDigit(s[i]) /\ s[i] \notin {CR, LF}
  BY DEF Numeral
<1>3. o \in Nat
  BY DEF LineAt
<1>4. /\ Head(p.buf) = M[q + 1] /\ Onward(Took(p), w, M, q + 1)
      /\ Took(p).carg = p.carg /\ Alike(Took(p), p)
  BY TookOn
<1>5. CASE /\ Len(p.carg) < Len(s) /\ M[q + 1] = s[Len(p.carg) + 1] /\ M[q + 1] \in Symbol
           /\ InLine(Append(p.carg, M[q + 1]), s, o, q + 1)
  <2>1. M[q + 1] \notin {CR, LF}
    <3>1. Len(p.carg) + 1 \in 1..Len(s)
      BY <1>1, <1>2, <1>5
    <3> QED BY <1>2, <1>5, <3>1
  <2>2. PICK r : r = [Took(p) EXCEPT !.carg = Append(p.carg, M[q + 1])]
    OBVIOUS
  <2>3. NumberLine(p, finished) = r
    <3>1. NumberLine(p, finished) = [Took(p) EXCEPT !.carg = Append(Took(p).carg, Head(p.buf))]
      BY <1>4, <2>1 DEF NumberLine
    <3> QED BY <1>4, <2>2, <3>1
  <2>4. Took(p) \in Parser /\ Append(p.carg, M[q + 1]) \in Seq(Symbol)
    BY <1>1, <1>4, <1>5 DEF Onward
  <2>5. /\ r \in Parser /\ r.carg = Append(p.carg, M[q + 1]) /\ r.buf = Took(p).buf
        /\ r.last = Took(p).last /\ r.error = Took(p).error /\ Alike(r, Took(p))
    BY <2>2, <2>4 DEF Parser, Alike
  <2>6. Onward(r, w, M, q + 1)
    BY <1>4, <2>5, OnwardKept
  <2>7. Alike(r, p)
    BY <1>4, <2>5 DEF Alike
  <2> QED BY <1>5, <2>3, <2>5, <2>6, <2>7
<1>6. CASE p.carg = s /\ M[q + 1] = CR /\ InLine(p.carg, s, o, q + 1)
  <2>1. NumberLine(p, finished) = Took(p)
    BY <1>4, <1>6, LineEnds DEF NumberLine
  <2> QED BY <1>4, <1>6, <2>1
<1>7. CASE p.carg = s /\ q > 0 /\ M[q] = CR /\ M[q + 1] = LF /\ q + 1 = o + Len(s) + 2
  <2>1. ~EndsWrong(p)
    BY <1>1, <1>7 DEF EndsWrong
  <2>2. IsNumber(p.carg)
    <3>1. s # <<>> /\ \A i \in DOMAIN s : i \in 1..Len(s)
      BY <1>2
    <3> QED BY <1>2, <1>7, <3>1 DEF IsNumber
  <2>3. NumberLine(p, finished) = finished
    BY <1>4, <1>7, <2>1, <2>2, LineEnds DEF NumberLine
  <2> QED BY <1>7, <2>3
<1> QED BY <1>1, <1>2, <1>3, <1>5, <1>6, <1>7, LineNext

-----------------------------------------------------------------------------
(* How far the parser is in a message of arguments.                          *)

\* The first k arguments are read.
Got(p, m, k) == Len(p.args) = k /\ \A i \in 1..k : p.args[i] = m.args[i]

\* Nothing is.
Fresh(p) ==
  /\ p.stage = 0 /\ p.args = <<>> /\ p.args_count = 0 /\ p.carg = <<>>
  /\ p.carg_index = 0 /\ p.carg_len = 0

InCount(p, m, q) ==
  /\ p.stage = 1 /\ m.count > 0 /\ p.args = <<>> /\ p.carg_index = 0 /\ p.carg_len = 0
  /\ InLine(p.carg, m.num[0], 1, q)

AtArg(p, m, k, q) ==
  /\ p.stage = 2 /\ p.args_count = m.count /\ p.carg = <<>> /\ p.carg_index = 0 /\ p.carg_len = 0
  /\ Got(p, m, k - 1) /\ q = m.at[k]

InLength(p, m, k, q) ==
  /\ p.stage = 3 /\ p.args_count = m.count /\ p.carg_index = 0 /\ p.carg_len = 0
  /\ Got(p, m, k - 1) /\ InLine(p.carg, m.num[k], m.at[k] + 1, q)

\* The first k - 1 arguments are read, and c bytes of argument k.
Begun(args, m, k, c) ==
  /\ Len(args) = k /\ \A i \in 1..(k - 1) : args[i] = m.args[i]
  /\ Len(args[k]) = c /\ \A j \in 1..c : args[k][j] = m.args[k][j]

\* Some of the argument is there, and carg_index says how much ...
\* ... or all of it, and the end of its line is not.
InArg(p, m, k, q) ==
  /\ p.stage = 4 /\ p.args_count = m.count /\ p.carg = <<>> /\ p.carg_len = Len(m.args[k])
  /\ \/ p.carg_index = 0 /\ Got(p, m, k - 1) /\ q = m.body[k]
     \/ /\ 0 < p.carg_index /\ p.carg_index < p.carg_len /\ Begun(p.args, m, k, p.carg_index)
        /\ q = m.body[k] + p.carg_index
     \/ /\ p.carg_index = p.carg_len /\ Got(p, m, k)
        /\ q \in {m.body[k] + p.carg_len, m.body[k] + p.carg_len + 1}

Stages(p, m, q) ==
  \/ InCount(p, m, q)
  \/ \E k \in 1..Len(m.args) : AtArg(p, m, k, q) \/ InLength(p, m, k, q) \/ InArg(p, m, k, q)

\* The message is read, and nothing is left.
Complete(p, args) ==
  /\ p \in Parser /\ p.stage = 0 /\ p.args = args /\ p.carg = <<>> /\ p.carg_index = 0
  /\ p.carg_len = 0 /\ p.buf = <<>> /\ p.error = FALSE

OfArgs(m) == Counted(m) \/ Single(m)

\* The layout of an argument of a message.
LEMMA ArgLaid ==
  ASSUME NEW m, Laid(m), NEW k \in 1..Len(m.args)
  PROVE  /\ m.bytes \in Seq(Symbol) /\ Len(m.bytes) \in Nat /\ Len(m.args) \in Nat
         /\ m.at[k] \in Nat /\ m.bytes[m.at[k] + 1] = "$"
         /\ Numeral(m.num[k], Len(m.args[k])) /\ LineAt(m.bytes, m.at[k] + 1, m.num[k])
         /\ Len(m.num[k]) \in Nat
         /\ m.body[k] = m.at[k] + Len(m.num[k]) + 3 /\ LineAt(m.bytes, m.body[k], m.args[k])
         /\ m.at[k + 1] = m.body[k] + Len(m.args[k]) + 2 /\ m.body[k] \in Nat
         /\ m.args[k] \in Seq(Symbol) /\ Len(m.args[k]) \in Nat /\ Len(m.args[k]) > 0
<1>1. ArgAt(m, k) /\ m.bytes \in Seq(Symbol) /\ m.args \in Args
  BY DEF Laid
<1>2. /\ Len(m.args) \in Nat /\ m.args[k] \in Seq(Symbol) /\ Len(m.args[k]) \in Nat /\ Len(m.args[k]) > 0
  BY <1>1, ArgsType
<1>3. Len(m.num[k]) \in Nat
  BY <1>1 DEF ArgAt, Numeral
<1>4. m.body[k] \in Nat
  BY <1>1, <1>3 DEF ArgAt
<1>5. Len(m.bytes) \in Nat
  BY <1>1
<1> QED BY <1>1, <1>2, <1>3, <1>4, <1>5 DEF ArgAt

\* In the count of arguments.
LEMMA CountStep ==
  ASSUME NEW m, OfArgs(m), NEW p, NEW w, NEW q, Onward(p, w, m.bytes, q), p.buf # <<>>, InCount(p, m, q)
  PROVE  /\ Onward(ArgsCount(p), w, m.bytes, q + 1) /\ ArgsCount(p).arg_type = p.arg_type
         /\ InCount(ArgsCount(p), m, q + 1) \/ AtArg(ArgsCount(p), m, 1, q + 1)
<1> DEFINE M == m.bytes
           s == m.num[0]
           n == Len(m.args)
           f == [Took(p) EXCEPT !.args_count = Number(p.carg), !.carg = <<>>, !.stage = 2]
           r == NumberLine(p, f)
<1>1. Counted(m)
  BY DEF OfArgs, Single, InCount
<1>2. Numeral(s, n) /\ LineAt(M, 1, s) /\ m.at[1] = Len(s) + 3 /\ m.count = n
  BY <1>1 DEF Counted
<1>3. n \in Nat /\ n > 0
  BY <1>1, ArgsType DEF Counted, Laid
<1>4. Number(s) = n /\ Len(s) \in Nat
  BY <1>2 DEF Numeral
<1>5. InLine(p.carg, s, 1, q) /\ p.stage = 1 /\ p.args = <<>> /\ p.carg_index = 0 /\ p.carg_len = 0
  BY DEF InCount
<1>6. ArgsCount(p) = r
  BY DEF ArgsCount
<1>7. Onward(Took(p), w, M, q + 1) /\ Alike(Took(p), p)
  BY TookOn
<1> HIDE DEF f, M, s, n
<1>8. \/ r = f /\ p.carg = s /\ q + 1 = 1 + Len(s) + 2
      \/ Onward(r, w, M, q + 1) /\ Alike(r, p) /\ InLine(r.carg, s, 1, q + 1)
  BY <1>2, <1>3, <1>5, NumberLineStep DEF M
<1> HIDE DEF r
<1>9. CASE r = f /\ p.carg = s /\ q + 1 = 1 + Len(s) + 2
  <2>1. Took(p) \in Parser
    BY <1>7 DEF Onward
  <2>2. f = [Took(p) EXCEPT !.args_count = n, !.carg = <<>>, !.stage = 2]
    BY <1>4, <1>9 DEF f
  <2>3. /\ f \in Parser /\ f.buf = Took(p).buf /\ f.last = Took(p).last /\ f.error = Took(p).error
        /\ f.args_count = n /\ f.carg = <<>> /\ f.stage = 2 /\ f.args = Took(p).args
        /\ f.carg_index = Took(p).carg_index /\ f.carg_len = Took(p).carg_len /\ f.arg_type = Took(p).arg_type
    BY <1>3, <2>1, <2>2, FieldValues DEF Parser
  <2>4. Onward(f, w, M, q + 1)
    BY <1>7, <2>3, OnwardKept
  <2>5. f.args = <<>> /\ f.carg_index = 0 /\ f.carg_len = 0 /\ f.arg_type = p.arg_type
    BY <1>5, <1>7, <2>3 DEF Alike
  <2>6. Got(f, m, 1 - 1)
    BY <2>5 DEF Got
  <2>7. q + 1 = m.at[1]
    BY <1>2, <1>4, <1>9
  <2>8. AtArg(f, m, 1, q + 1)
    BY <1>2, <2>3, <2>5, <2>6, <2>7 DEF AtArg
  <2> QED BY <1>6, <1>9, <2>4, <2>5, <2>8 DEF M
<1>10. CASE Onward(r, w, M, q + 1) /\ Alike(r, p) /\ InLine(r.carg, s, 1, q + 1)
  <2>1. InCount(r, m, q + 1)
    BY <1>2, <1>3, <1>5, <1>10 DEF InCount, Alike, s
  <2>2. r.arg_type = p.arg_type
    BY <1>10 DEF Alike
  <2> QED BY <1>6, <1>10, <2>1, <2>2 DEF M
<1> QED BY <1>8, <1>9, <1>10

\* At the first byte of an argument.
LEMMA ArgStartStep ==
  ASSUME NEW m, OfArgs(m), NEW k \in 1..Len(m.args), NEW p, NEW w, NEW q, Onward(p, w, m.bytes, q),
         p.buf # <<>>, AtArg(p, m, k, q)
  PROVE  /\ Onward(ArgStart(p), w, m.bytes, q + 1) /\ ArgStart(p).arg_type = p.arg_type
         /\ InLength(ArgStart(p), m, k, q + 1)
<1> DEFINE f == [Took(p) EXCEPT !.stage = 3]
<1>1. Laid(m)
  BY DEF OfArgs, Counted, Single
<1>2. m.bytes[m.at[k] + 1] = "$" /\ m.at[k] \in Nat /\ Len(m.num[k]) \in Nat
  BY <1>1, ArgLaid
<1>3. /\ Head(p.buf) = m.bytes[q + 1] /\ Onward(Took(p), w, m.bytes, q + 1)
      /\ Took(p).carg = p.carg /\ Alike(Took(p), p)
  BY TookOn
<1>4. /\ p.args_count = m.count /\ p.carg = <<>> /\ p.carg_index = 0 /\ p.carg_len = 0
      /\ Got(p, m, k - 1) /\ q = m.at[k]
  BY DEF AtArg
<1>5. ArgStart(p) = f
  BY <1>2, <1>3, <1>4 DEF ArgStart
<1>6. Took(p) \in Parser
  BY <1>3 DEF Onward
<1>7. /\ f \in Parser /\ f.buf = Took(p).buf /\ f.last = Took(p).last /\ f.error = Took(p).error
      /\ f.stage = 3 /\ f.args = Took(p).args /\ f.args_count = Took(p).args_count /\ f.carg = Took(p).carg
      /\ f.carg_index = Took(p).carg_index /\ f.carg_len = Took(p).carg_len /\ f.arg_type = Took(p).arg_type
  BY <1>6, FieldValues DEF Parser
<1> HIDE DEF f
<1>8. Onward(f, w, m.bytes, q + 1)
  BY <1>3, <1>7, OnwardKept
<1>9. /\ f.args = p.args /\ f.args_count = m.count /\ f.carg = <<>> /\ f.carg_index = 0 /\ f.carg_len = 0
      /\ f.arg_type = p.arg_type
  BY <1>3, <1>4, <1>7 DEF Alike
<1>10. Got(f, m, k - 1)
  BY <1>4, <1>9 DEF Got
<1>11. InLine(f.carg, m.num[k], m.at[k] + 1, q + 1)
  <2>1. Len(<<>>) = 0 /\ q + 1 = (m.at[k] + 1) + 0 /\ 0 <= Len(m.num[k]) /\ 1..0 = {}
    BY <1>2, <1>4
  <2> QED BY <1>9, <2>1 DEF InLine
<1>12. InLength(f, m, k, q + 1)
  BY <1>7, <1>9, <1>10, <1>11 DEF InLength
<1> QED BY <1>5, <1>8, <1>9, <1>12

\* In the length of an argument.
LEMMA ArgLenStep ==
  ASSUME NEW m, OfArgs(m), NEW k \in 1..Len(m.args), NEW p, NEW w, NEW q, Onward(p, w, m.bytes, q),
         p.buf # <<>>, InLength(p, m, k, q)
  PROVE  /\ Onward(ArgLen(p), w, m.bytes, q + 1) /\ ArgLen(p).arg_type = p.arg_type
         /\ InLength(ArgLen(p), m, k, q + 1) \/ InArg(ArgLen(p), m, k, q + 1)
<1> DEFINE M == m.bytes
           s == m.num[k]
           n == Len(m.args[k])
           o == m.at[k] + 1
           f == [Took(p) EXCEPT !.carg_len = Number(p.carg), !.carg = <<>>, !.stage = 4]
           r == NumberLine(p, f)
<1>1. Laid(m)
  BY DEF OfArgs, Counted, Single
<1>2. /\ Numeral(s, n) /\ LineAt(M, o, s) /\ m.at[k] \in Nat /\ m.body[k] = m.at[k] + Len(s) + 3
      /\ Len(s) \in Nat /\ n \in Nat
  BY <1>1, ArgLaid
<1>4. Number(s) = n
  BY <1>2 DEF Numeral
<1>5. /\ InLine(p.carg, s, o, q) /\ p.stage = 3 /\ p.args_count = m.count /\ p.carg_index = 0 /\ p.carg_len = 0
      /\ Got(p, m, k - 1)
  BY DEF InLength
<1>6. ArgLen(p) = r
  BY DEF ArgLen
<1>7. Onward(Took(p), w, M, q + 1) /\ Alike(Took(p), p)
  BY TookOn
<1> HIDE DEF f, M, s, n, o
<1>8. \/ r = f /\ p.carg = s /\ q + 1 = o + Len(s) + 2
      \/ Onward(r, w, M, q + 1) /\ Alike(r, p) /\ InLine(r.carg, s, o, q + 1)
  BY <1>2, <1>5, NumberLineStep DEF M
<1> HIDE DEF r
<1>9. CASE r = f /\ p.carg = s /\ q + 1 = o + Len(s) + 2
  <2>1. Took(p) \in Parser
    BY <1>7 DEF Onward
  <2>2. f = [Took(p) EXCEPT !.carg_len = n, !.carg = <<>>, !.stage = 4]
    BY <1>4, <1>9 DEF f
  <2>3. /\ f \in Parser /\ f.buf = Took(p).buf /\ f.last = Took(p).last /\ f.error = Took(p).error
        /\ f.args_count = Took(p).args_count /\ f.carg = <<>> /\ f.stage = 4 /\ f.args = Took(p).args
        /\ f.carg_index = Took(p).carg_index /\ f.carg_len = n /\ f.arg_type = Took(p).arg_type
    BY <1>2, <2>1, <2>2, FieldValues DEF Parser
  <2>4. Onward(f, w, M, q + 1)
    BY <1>7, <2>3, OnwardKept
  <2>5. f.args = p.args /\ f.args_count = m.count /\ f.carg_index = 0 /\ f.arg_type = p.arg_type
    BY <1>5, <1>7, <2>3 DEF Alike
  <2>6. Got(f, m, k - 1)
    BY <1>5, <2>5 DEF Got
  <2>7. q + 1 = m.body[k]
    BY <1>2, <1>9 DEF o
  <2>8. InArg(f, m, k, q + 1)
    BY <2>3, <2>5, <2>6, <2>7 DEF InArg, n
  <2> QED BY <1>6, <1>9, <2>4, <2>5, <2>8 DEF M
<1>10. CASE Onward(r, w, M, q + 1) /\ Alike(r, p) /\ InLine(r.carg, s, o, q + 1)
  <2>1. Got(r, m, k - 1)
    BY <1>5, <1>10 DEF Got, Alike
  <2>2. InLength(r, m, k, q + 1)
    BY <1>5, <1>10, <2>1 DEF InLength, Alike, s, o
  <2>3. r.arg_type = p.arg_type
    BY <1>10 DEF Alike
  <2> QED BY <1>6, <1>10, <2>2, <2>3 DEF M
<1> QED BY <1>8, <1>9, <1>10

-----------------------------------------------------------------------------
(* The bytes of an argument and the end of its line.                         *)

\* n bytes of the buffer go to the argument.
BytesGone(p, n, x) == [WithBytes(p, n) EXCEPT !.carg_index = x]

\* What that makes of the parser.
GoneTo(p, n, x, r) ==
  /\ r \in Parser /\ r.buf = SubSeq(p.buf, n + 1, Len(p.buf)) /\ r.last = p.buf[n] /\ r.carg_index = x
  /\ p.carg_index = 0 => r.args = Append(p.args, SubSeq(p.buf, 1, n))
  /\ p.carg_index # 0 =>
       r.args = [p.args EXCEPT ![Len(p.args)] = p.args[Len(p.args)] \o SubSeq(p.buf, 1, n)]
  /\ r.stage = p.stage /\ r.args_count = p.args_count /\ r.carg = p.carg /\ r.carg_len = p.carg_len
  /\ r.arg_type = p.arg_type /\ r.error = p.error

\* It does.
LEMMA WithBytesFields ==
  ASSUME NEW p \in Parser, NEW n \in 1..Len(p.buf), p.carg_index # 0 => Len(p.args) > 0, NEW x \in Nat, NEW r,
         r = BytesGone(p, n, x)
  PROVE  GoneTo(p, n, x, r)
<1> DEFINE b == SubSeq(p.buf, 1, n)
           t == SubSeq(p.buf, n + 1, Len(p.buf))
           A == IF p.carg_index = 0 THEN Append(p.args, b)
                ELSE [p.args EXCEPT ![Len(p.args)] = p.args[Len(p.args)] \o b]
<1>1. p.buf \in Seq(Symbol) /\ p.args \in Seq(Seq(Symbol)) /\ p.carg_index \in Nat
  BY DEF Parser
<1>2. n \in 0..Len(p.buf) /\ p.buf[n] \in Symbol
  BY <1>1
<1>3. b \in Seq(Symbol)
  BY <1>1, <1>2, Taken
<1>4. t \in Seq(Symbol)
  BY <1>1, <1>2, Rested
<1>5. WithBytes(p, n) = [p EXCEPT !.args = A, !.buf = t, !.last = p.buf[n]]
  BY DEF WithBytes
<1> HIDE DEF b, t
<1>6. A \in Seq(Seq(Symbol))
  <2>1. CASE p.carg_index = 0
    BY <1>1, <1>3, <2>1
  <2>2. CASE p.carg_index # 0
    <3>1. Len(p.args) \in 1..Len(p.args)
      BY <1>1, <2>2
    <3>2. p.args[Len(p.args)] \in Seq(Symbol)
      BY <1>1, <3>1
    <3>3. PICK y \in Seq(Symbol) : y = p.args[Len(p.args)] \o b
      <4>1. p.args[Len(p.args)] \o b \in Seq(Symbol)
        BY <1>3, <3>2, Joined
      <4> QED BY <4>1
    <3>4. [p.args EXCEPT ![Len(p.args)] = y] \in Seq(Seq(Symbol))
      BY <1>1, <3>1
    <3> QED BY <2>2, <3>3, <3>4
  <2> QED BY <2>1, <2>2
<1>7. (p.carg_index = 0 => A = Append(p.args, b))
      /\ (p.carg_index # 0 => A = [p.args EXCEPT ![Len(p.args)] = p.args[Len(p.args)] \o b])
  OBVIOUS
<1> HIDE DEF A
<1>8. PICK u : u = [p EXCEPT !.args = A, !.buf = t, !.last = p.buf[n]]
  OBVIOUS
<1>9. /\ u \in Parser /\ u.args = A /\ u.buf = t /\ u.last = p.buf[n] /\ u.stage = p.stage
      /\ u.args_count = p.args_count /\ u.carg = p.carg /\ u.carg_len = p.carg_len
      /\ u.arg_type = p.arg_type /\ u.error = p.error
  BY <1>2, <1>4, <1>6, <1>8 DEF Parser
<1>10. r = [u EXCEPT !.carg_index = x]
  BY <1>5, <1>8 DEF BytesGone
<1>11. /\ r \in Parser /\ r.args = u.args /\ r.buf = u.buf /\ r.last = u.last /\ r.stage = u.stage
       /\ r.args_count = u.args_count /\ r.carg = u.carg /\ r.carg_len = u.carg_len
       /\ r.arg_type = u.arg_type /\ r.error = u.error /\ r.carg_index = x
  BY <1>9, <1>10 DEF Parser
<1> QED BY <1>7, <1>9, <1>11, Zenon DEF b, t, GoneTo

\* They are the next bytes of the argument.
Grown(p, w, m, k, q, n, x, r) ==
  /\ Onward(r, w, m.bytes, q + n) /\ Begun(r.args, m, k, p.carg_index + n) /\ r.carg_index = x
  /\ r.stage = 4 /\ r.args_count = m.count /\ r.carg = <<>> /\ r.carg_len = p.carg_len
  /\ r.arg_type = p.arg_type /\ Len(r.buf) = Len(p.buf) - n

\* It is so.
LEMMA BytesTaken ==
  ASSUME NEW m, OfArgs(m), NEW k \in 1..Len(m.args), NEW p, NEW w, NEW q, Onward(p, w, m.bytes, q),
         InArg(p, m, k, q), p.carg_index < p.carg_len,
         NEW n \in 1..Len(p.buf), p.carg_index + n <= p.carg_len, NEW x \in Nat, NEW r,
         r = BytesGone(p, n, x)
  PROVE  Grown(p, w, m, k, q, n, x, r)
<1> DEFINE s == p.buf
           c == p.carg_index
           a == m.args[k]
           b == SubSeq(s, 1, n)
<1>1. Laid(m)
  BY DEF OfArgs, Counted, Single
<1>2. /\ m.body[k] \in Nat /\ a \in Seq(Symbol) /\ Len(a) \in Nat /\ LineAt(m.bytes, m.body[k], a)
      /\ Len(m.args) \in Nat /\ m.bytes \in Seq(Symbol)
  BY <1>1, ArgLaid
<1>3. /\ p \in Parser /\ s \in Seq(Symbol) /\ p.error = FALSE /\ Ahead(s, w, m.bytes, q) /\ c \in Nat
      /\ p.args \in Seq(Seq(Symbol)) /\ p.carg_len = Len(a)
  BY DEF Onward, Parser, InArg
<1>4. /\ q = m.body[k] + c
      /\ \/ c = 0 /\ Got(p, m, k - 1)
         \/ 0 < c /\ Begun(p.args, m, k, c)
  BY <1>2, <1>3 DEF InArg
<1>5. c # 0 => Len(p.args) > 0
  BY <1>4 DEF Begun
<1>6. /\ r \in Parser /\ r.buf = SubSeq(s, n + 1, Len(s)) /\ r.last = s[n] /\ r.carg_index = x
      /\ c = 0 => r.args = Append(p.args, b)
      /\ c # 0 => r.args = [p.args EXCEPT ![Len(p.args)] = p.args[Len(p.args)] \o b]
      /\ r.stage = p.stage /\ r.args_count = p.args_count /\ r.carg = p.carg /\ r.carg_len = p.carg_len
      /\ r.arg_type = p.arg_type /\ r.error = p.error
  <2>1. p \in Parser /\ n \in 1..Len(p.buf) /\ (p.carg_index # 0 => Len(p.args) > 0)
    BY <1>3, <1>5
  <2>2. GoneTo(p, n, x, r)
    BY <2>1, WithBytesFields
  <2> QED BY <2>2, Zenon DEF GoneTo
<1>7. p.stage = 4 /\ p.args_count = m.count /\ p.carg = <<>>
  BY DEF InArg
<1>8. n \in 0..Len(s) /\ Len(s) \in Nat
  BY <1>3
<1>9. b \in Seq(Symbol) /\ Len(b) = n /\ \A i \in 1..n : b[i] = s[i]
  BY <1>3, <1>8, Taken
<1> HIDE DEF s, c, a, b
<1>10. \A i \in 1..n : b[i] = a[c + i]
  <2> SUFFICES ASSUME NEW i \in 1..n PROVE b[i] = a[c + i]
    OBVIOUS
  <2>1. i \in 1..Len(s) /\ c + i \in 1..Len(a)
    <3>1. c + n <= Len(a)
      BY <1>3 DEF c
    <3> QED BY <1>2, <1>3, <1>8, <3>1
  <2>2. s[i] = m.bytes[q + i]
    BY <1>3, <2>1 DEF Ahead
  <2>3. m.bytes[m.body[k] + (c + i)] = a[c + i]
    BY <1>2, <2>1 DEF LineAt
  <2>4. q + i = m.body[k] + (c + i)
    <3>1. q = m.body[k] + c
      BY <1>4
    <3>2. m.body[k] \in Nat /\ c \in Nat
      BY <1>2, <1>3
    <3> QED BY <3>1, <3>2
  <2> QED BY <1>9, <2>2, <2>3, <2>4
<1>11. Onward(r, w, m.bytes, q + n)
  <2>1. PICK t \in Seq(Symbol) : /\ t = SubSeq(s, n + 1, Len(s)) /\ Len(t) = Len(s) - n
                                 /\ \A i \in 1..(Len(s) - n) : t[i] = s[n + i]
    <3>1. SubSeq(s, n + 1, Len(s)) \in Seq(Symbol)
      BY <1>3, <1>8, Rested
    <3>2. /\ Len(SubSeq(s, n + 1, Len(s))) = Len(s) - n
          /\ \A i \in 1..(Len(s) - n) : SubSeq(s, n + 1, Len(s))[i] = s[n + i]
      BY <1>3, <1>8, Rested
    <3> QED BY <3>1, <3>2
  <2>2. Ahead(t, w, m.bytes, q + n)
    BY <1>3, <1>8, <2>1, AheadMoves
  <2>3. s[n] = m.bytes[q + n]
    <3>1. n \in 1..Len(s)
      BY DEF s
    <3> QED BY <1>3, <3>1 DEF Ahead
  <2> QED BY <1>3, <1>6, <2>1, <2>2, <2>3 DEF Onward
<1>12. Begun(r.args, m, k, c + n)
  <2>1. CASE c = 0
    <3>1. r.args = Append(p.args, b) /\ Got(p, m, k - 1)
      BY <1>4, <1>6, <2>1
    <3>2. Len(p.args) = k - 1 /\ \A i \in 1..(k - 1) : p.args[i] = m.args[i]
      BY <3>1 DEF Got
    <3>3. /\ Len(r.args) = Len(p.args) + 1 /\ r.args[Len(p.args) + 1] = b
          /\ \A i \in 1..Len(p.args) : r.args[i] = p.args[i]
      BY <1>3, <1>9, <3>1
    <3>4. Len(r.args) = k /\ r.args[k] = b /\ \A i \in 1..(k - 1) : r.args[i] = m.args[i]
      BY <1>2, <3>2, <3>3
    <3>5. c + n = n /\ \A i \in 1..n : b[i] = a[i]
      BY <1>8, <1>10, <2>1
    <3> QED BY <1>9, <3>4, <3>5 DEF Begun, a
  <2>2. CASE c # 0
    <3>1. Begun(p.args, m, k, c)
      BY <1>4, <2>2
    <3>2. /\ Len(p.args) = k /\ \A i \in 1..(k - 1) : p.args[i] = m.args[i]
          /\ Len(p.args[k]) = c /\ \A j \in 1..c : p.args[k][j] = a[j]
      BY <3>1 DEF Begun, a
    <3>3. p.args[k] \in Seq(Symbol) /\ k \in 1..Len(p.args)
      BY <1>2, <1>3, <3>2
    <3>4. PICK y : y = p.args[k] \o b
      OBVIOUS
    <3>5. /\ y \in Seq(Symbol) /\ Len(y) = c + n
          /\ \A i \in 1..c : y[i] = p.args[k][i]
          /\ \A i \in 1..n : y[c + i] = b[i]
      <4>1. /\ y \in Seq(Symbol) /\ Len(y) = Len(p.args[k]) + Len(b)
            /\ \A i \in 1..Len(p.args[k]) : y[i] = p.args[k][i]
            /\ \A i \in 1..Len(b) : y[Len(p.args[k]) + i] = b[i]
        BY <1>9, <3>3, <3>4, Joined
      <4> QED BY <1>9, <3>2, <4>1
    <3>6. r.args = [p.args EXCEPT ![k] = y]
      <4>1. r.args = [p.args EXCEPT ![Len(p.args)] = p.args[Len(p.args)] \o b]
        BY <1>6, <2>2
      <4>2. PICK l : l = Len(p.args)
        OBVIOUS
      <4>3. r.args = [p.args EXCEPT ![l] = p.args[l] \o b]
        BY <4>1, <4>2, Zenon
      <4>4. l = k
        BY <3>2, <4>2, Zenon
      <4> QED BY <3>4, <4>3, <4>4, Zenon
    <3>7. Len(r.args) = k /\ r.args[k] = y /\ \A i \in 1..(k - 1) : r.args[i] = m.args[i]
      BY <1>2, <1>3, <3>2, <3>3, <3>5, <3>6
    <3>8. ASSUME NEW j \in 1..(c + n) PROVE y[j] = a[j]
      <4>1. CASE j \in 1..c
        BY <3>2, <3>5, <4>1
      <4>2. CASE j \notin 1..c
        <5>1. j - c \in 1..n /\ c + (j - c) = j
          BY <1>3, <1>8, <4>2
        <5> QED BY <1>10, <3>5, <5>1
      <4> QED BY <4>1, <4>2
    <3> QED BY <3>5, <3>7, <3>8 DEF Begun, a
  <2> QED BY <2>1, <2>2
<1>13. Len(r.buf) = Len(s) - n
  BY <1>3, <1>6, <1>8, Rested
<1> QED BY <1>6, <1>7, <1>11, <1>12, <1>13 DEF s, c, Grown

\* The end of the line, after e + 2 bytes, is not there, or it is read.
LineEnded(p, q, e, r) ==
  \/ r = [p EXCEPT !.buf = <<>>] /\ q + Len(p.buf) \in {e, e + 1}
  \/ /\ r = [p EXCEPT !.buf = SubSeq(p.buf, (e + 2 - q) + 1, Len(p.buf)), !.last = LF, !.carg_index = 0,
                      !.carg_len = 0, !.stage = IF MoreArgs(p) THEN 2 ELSE 0]
     /\ e + 2 - q \in 1..Len(p.buf)

\* The end of the line is looked for.
LEMMA LineEndFound ==
  ASSUME NEW p, NEW w, NEW M, NEW q, Onward(p, w, M, q), NEW e \in Nat, q \in {e, e + 1},
         M[e + 1] = CR, M[e + 2] = LF
  PROVE  LineEnded(p, q, e, ArgEnd(p))
<1> DEFINE s == p.buf
           j == e + 2 - q
           ends == {i \in DOMAIN s : s[i] = LF}
           f == CHOOSE i \in ends : \A h \in ends : i <= h
           before == IF f = 1 THEN p.last ELSE s[f - 1]
<1>1. /\ p \in Parser /\ s \in Seq(Symbol) /\ Ahead(s, w, M, q) /\ q \in Nat
      /\ (s # <<>> /\ q > 0) => p.last \in {NONE, M[q]}
  BY DEF Onward, Parser, Ahead
<1>2. /\ Len(s) \in Nat /\ DOMAIN s = 1..Len(s) /\ \A i \in 1..Len(s) : s[i] = M[q + i]
  BY <1>1 DEF Ahead
<1>3. j \in {1, 2} /\ q + j = e + 2 /\ (j = 2 => q + 1 = e + 1) /\ (j = 1 => q = e + 1)
  BY <1>1
<1>4. ArgEnd(p) = IF ends = {} THEN [p EXCEPT !.buf = <<>>]
                  ELSE IF EndsWrong([p EXCEPT !.last = before]) THEN Failed(p)
                  ELSE [p EXCEPT !.buf = SubSeq(s, f + 1, Len(s)), !.last = LF, !.carg_index = 0,
                                 !.carg_len = 0, !.stage = IF MoreArgs(p) THEN 2 ELSE 0]
  BY <1>1 DEF ArgEnd, Parser
<1> HIDE DEF s, j
<1>5. \A i \in 1..Len(s) : i < j => s[i] # LF
  <2> SUFFICES ASSUME NEW i \in 1..Len(s), i < j PROVE s[i] # LF
    OBVIOUS
  <2>1. q + i = e + 1
    BY <1>1, <1>3
  <2> QED BY <1>2, <2>1, LineEnds
<1>6. CASE Len(s) < j
  <2>1. ends = {}
    BY <1>2, <1>3, <1>5, <1>6
  <2>2. q + Len(s) \in {e, e + 1}
    BY <1>1, <1>2, <1>3, <1>6
  <2> QED BY <1>4, <2>1, <2>2 DEF s, LineEnded
<1>7. CASE ~(Len(s) < j)
  <2>1. j \in 1..Len(s)
    BY <1>2, <1>3, <1>7
  <2>2. j \in ends
    BY <1>2, <1>3, <2>1
  <2>3. \A h \in ends : h \in Nat /\ j \in Nat /\ j <= h
    BY <1>2, <1>3, <1>5
  <2>4. f = j
    <3> HIDE DEF ends
    <3>1. f \in ends /\ \A h \in ends : f <= h
      BY <2>2, <2>3
    <3>2. f <= j /\ j <= f /\ f \in Nat /\ j \in Nat
      BY <2>2, <2>3, <3>1
    <3> QED BY <3>2
  <2>5. before \in {CR, NONE}
    <3>1. CASE j = 1
      <4>1. before = p.last
        BY <2>4, <3>1
      <4>2. s # <<>> /\ q > 0 /\ M[q] = CR
        BY <1>1, <1>2, <1>3, <2>1, <3>1
      <4> QED BY <1>1, <4>1, <4>2
    <3>2. CASE j = 2
      <4>1. before = s[1] /\ 1 \in 1..Len(s) /\ s[1] = M[q + 1]
        <5>0. f = 2
          BY <2>4, <3>2
        <5>1. before = s[f - 1] /\ f - 1 = 1
          <6> HIDE DEF f
          <6> QED BY <5>0
        <5>2. before = s[1]
          BY <5>1, Zenon
        <5>3. 1 \in 1..Len(s)
          BY <1>2, <2>1, <3>2
        <5> QED BY <1>2, <5>2, <5>3, Zenon
      <4> QED BY <1>3, <3>2, <4>1
    <3> QED BY <1>3, <3>1, <3>2
  <2> HIDE DEF before, f, ends
  <2>6. [p EXCEPT !.last = before].last = before
    BY <1>1 DEF Parser
  <2>7. ~EndsWrong([p EXCEPT !.last = before])
    BY <2>5, <2>6, Zenon DEF EndsWrong
  <2>8. ends # {}
    BY <2>2
  <2>9. ArgEnd(p) = [p EXCEPT !.buf = SubSeq(s, j + 1, Len(s)), !.last = LF, !.carg_index = 0,
                              !.carg_len = 0, !.stage = IF MoreArgs(p) THEN 2 ELSE 0]
    BY <1>4, <2>4, <2>7, <2>8, Zenon
  <2> QED BY <2>1, <2>9 DEF s, j, LineEnded
<1> QED BY <1>6, <1>7

\* What is left of the buffer is skipped.
LEMMA Skipped ==
  ASSUME NEW p, NEW w, NEW M, NEW q, Onward(p, w, M, q), NEW r, r = [p EXCEPT !.buf = <<>>]
  PROVE  /\ Onward(r, w, M, q + Len(p.buf)) /\ r.buf = <<>> /\ r.carg = p.carg /\ Alike(r, p)
<1>1. p \in Parser /\ p.error = FALSE /\ Ahead(p.buf, w, M, q) /\ p.buf \in Seq(Symbol)
  BY DEF Onward, Parser
<1>2. r \in Parser /\ r.buf = <<>> /\ r.error = p.error /\ r.carg = p.carg /\ Alike(r, p)
  BY <1>1, FieldValues DEF Parser, Alike
<1>3. Ahead(<<>>, w, M, q + Len(p.buf))
  <2>1. PICK s \in Seq(Symbol) : s = p.buf
    BY <1>1
  <2>2. PICK t \in Seq(Symbol) : t = <<>>
    BY FieldValues
  <2>3. Ahead(s, w, M, q)
    BY <1>1, <2>1
  <2>4. /\ Len(s) \in 0..Len(s) /\ Len(t) = Len(s) - Len(s)
        /\ \A i \in 1..(Len(s) - Len(s)) : t[i] = s[Len(s) + i]
    BY <2>2
  <2>5. Ahead(t, w, M, q + Len(s))
    BY <2>3, <2>4, AheadMoves
  <2> QED BY <2>1, <2>2, <2>5
<1> QED BY <1>1, <1>2, <1>3 DEF Onward

\* The argument is there, and the end of its line is not.
ArgRead(p, m, k) ==
  /\ p.stage = 4 /\ p.args_count = m.count /\ p.carg = <<>> /\ p.carg_len = Len(m.args[k]) /\ Got(p, m, k)

AfterArg(m, k) == {m.body[k] + Len(m.args[k]), m.body[k] + Len(m.args[k]) + 1}

\* The end of its line is read too.
ArgOver(r, m, k) ==
  /\ r.args_count = m.count /\ r.carg = <<>> /\ r.carg_index = 0 /\ r.carg_len = 0 /\ Got(r, m, k)
  /\ r.stage = IF Len(r.args) < r.args_count THEN 2 ELSE 0

\* Once the argument is there the rest of its line is skipped.
LEMMA ArgEndStep ==
  ASSUME NEW m, OfArgs(m), NEW k \in 1..Len(m.args), NEW p, NEW w, NEW q, Onward(p, w, m.bytes, q),
         ArgRead(p, m, k), q \in AfterArg(m, k)
  PROVE  /\ ArgEnd(p).arg_type = p.arg_type
         /\ \/ \E z \in AfterArg(m, k) :
                 /\ Onward(ArgEnd(p), w, m.bytes, z)
                 /\ ArgRead(ArgEnd(p), m, k) /\ ArgEnd(p).carg_index = p.carg_index
            \/ Onward(ArgEnd(p), w, m.bytes, m.at[k + 1]) /\ ArgOver(ArgEnd(p), m, k)
<1>1. Laid(m)
  BY DEF OfArgs, Counted, Single
<1>2. /\ m.body[k] \in Nat /\ m.args[k] \in Seq(Symbol) /\ Len(m.args[k]) \in Nat
      /\ LineAt(m.bytes, m.body[k], m.args[k]) /\ m.at[k + 1] = m.body[k] + Len(m.args[k]) + 2
  BY <1>1, ArgLaid
<1>3. PICK e \in Nat : e = m.body[k] + Len(m.args[k])
  BY <1>2
<1>4. m.bytes[e + 1] = CR /\ m.bytes[e + 2] = LF /\ m.at[k + 1] = e + 2
  BY <1>2, <1>3 DEF LineAt
<1>5. q \in {e, e + 1} /\ AfterArg(m, k) = {e, e + 1}
  BY <1>3 DEF AfterArg
<1>6. /\ p \in Parser /\ p.error = FALSE /\ p.buf \in Seq(Symbol) /\ Ahead(p.buf, w, m.bytes, q) /\ q \in Nat
      /\ Len(p.buf) \in Nat
  BY DEF Onward, Parser, Ahead
<1>7. /\ p.stage = 4 /\ p.args_count = m.count /\ p.carg = <<>> /\ p.carg_len = Len(m.args[k]) /\ Got(p, m, k)
  BY DEF ArgRead
<1>8. PICK r : r = ArgEnd(p)
  OBVIOUS
<1>9. \/ r = [p EXCEPT !.buf = <<>>] /\ q + Len(p.buf) \in {e, e + 1}
      \/ /\ r = [p EXCEPT !.buf = SubSeq(p.buf, (e + 2 - q) + 1, Len(p.buf)), !.last = LF,
                          !.carg_index = 0, !.carg_len = 0, !.stage = IF MoreArgs(p) THEN 2 ELSE 0]
         /\ e + 2 - q \in 1..Len(p.buf)
  <2>1. LineEnded(p, q, e, ArgEnd(p))
    BY <1>4, <1>5, LineEndFound
  <2> QED BY <1>8, <2>1, Zenon DEF LineEnded
<1>10. CASE r = [p EXCEPT !.buf = <<>>] /\ q + Len(p.buf) \in {e, e + 1}
  <2>1. Onward(r, w, m.bytes, q + Len(p.buf)) /\ r.carg = p.carg /\ Alike(r, p)
    BY <1>10, Skipped
  <2>2. Got(r, m, k)
    BY <1>7, <2>1 DEF Got, Alike
  <2>3. ArgRead(r, m, k) /\ r.carg_index = p.carg_index /\ r.arg_type = p.arg_type
    BY <1>7, <2>1, <2>2 DEF ArgRead, Alike
  <2> QED BY <1>5, <1>8, <1>10, <2>1, <2>3
<1>11. CASE /\ r = [p EXCEPT !.buf = SubSeq(p.buf, (e + 2 - q) + 1, Len(p.buf)), !.last = LF,
                             !.carg_index = 0, !.carg_len = 0, !.stage = IF MoreArgs(p) THEN 2 ELSE 0]
            /\ e + 2 - q \in 1..Len(p.buf)
  <2>1. PICK j \in 1..Len(p.buf) : j = e + 2 - q
    BY <1>11
  <2>2. j \in 0..Len(p.buf) /\ q + j = e + 2
    BY <1>6, <2>1
  <2>3. PICK t \in Seq(Symbol) : /\ t = SubSeq(p.buf, j + 1, Len(p.buf)) /\ Len(t) = Len(p.buf) - j
                                 /\ \A i \in 1..(Len(p.buf) - j) : t[i] = p.buf[j + i]
    <3>1. SubSeq(p.buf, j + 1, Len(p.buf)) \in Seq(Symbol)
      BY <1>6, <2>2, Rested
    <3>2. /\ Len(SubSeq(p.buf, j + 1, Len(p.buf))) = Len(p.buf) - j
          /\ \A i \in 1..(Len(p.buf) - j) : SubSeq(p.buf, j + 1, Len(p.buf))[i] = p.buf[j + i]
      BY <1>6, <2>2, Rested
    <3> QED BY <3>1, <3>2
  <2>4. Ahead(t, w, m.bytes, q + j)
    <3>1. PICK s \in Seq(Symbol) : s = p.buf
      BY <1>6
    <3>2. Ahead(s, w, m.bytes, q) /\ j \in 0..Len(s)
      BY <1>6, <2>2, <3>1
    <3>3. Len(t) = Len(s) - j /\ \A i \in 1..(Len(s) - j) : t[i] = s[j + i]
      BY <2>3, <3>1
    <3> QED BY <3>2, <3>3, AheadMoves
  <2>5. PICK g \in 0..5 : g = IF MoreArgs(p) THEN 2 ELSE 0
    BY FieldValues
  <2>6. r = [p EXCEPT !.buf = t, !.last = LF, !.carg_index = 0, !.carg_len = 0, !.stage = g]
    BY <1>11, <2>1, <2>3, <2>5, Zenon
  <2>7. /\ r \in Parser /\ r.buf = t /\ r.last = LF /\ r.carg_index = 0 /\ r.carg_len = 0 /\ r.stage = g
        /\ r.args = p.args /\ r.args_count = p.args_count /\ r.carg = p.carg /\ r.arg_type = p.arg_type
        /\ r.error = p.error
    BY <1>6, <2>6, FieldValues, LineEnds DEF Parser
  <2>8. Onward(r, w, m.bytes, m.at[k + 1])
    <3>1. m.bytes[q + j] = LF /\ m.at[k + 1] = q + j
      BY <1>4, <2>2
    <3> QED BY <1>6, <2>4, <2>7, <3>1 DEF Onward
  <2>9. Got(r, m, k)
    BY <1>7, <2>7 DEF Got
  <2>10. ArgOver(r, m, k)
    BY <1>7, <2>5, <2>7, <2>9 DEF ArgOver, MoreArgs
  <2> QED BY <1>8, <2>7, <2>8, <2>10
<1> QED BY <1>9, <1>10, <1>11

\* All bytes of an argument are the argument.
LEMMA BegunAll ==
  ASSUME NEW m, Laid(m), NEW k \in 1..Len(m.args), NEW p \in Parser, Begun(p.args, m, k, Len(m.args[k]))
  PROVE  Got(p, m, k)
<1>1. m.args[k] \in Seq(Symbol) /\ Len(m.args) \in Nat
  BY ArgLaid
<1>2. /\ Len(p.args) = k /\ \A i \in 1..(k - 1) : p.args[i] = m.args[i]
      /\ Len(p.args[k]) = Len(m.args[k]) /\ \A j \in 1..Len(m.args[k]) : p.args[k][j] = m.args[k][j]
  BY DEF Begun
<1>3. p.args \in Seq(Seq(Symbol))
  BY DEF Parser
<1>4. p.args[k] \in Seq(Symbol)
  BY <1>2, <1>3
<1>5. p.args[k] = m.args[k]
  <2>1. PICK a \in Seq(Symbol) : a = p.args[k]
    BY <1>4
  <2>2. PICK b \in Seq(Symbol) : b = m.args[k]
    BY <1>1
  <2>3. Len(a) = Len(b) /\ \A j \in 1..Len(a) : a[j] = b[j]
    BY <1>2, <2>1, <2>2
  <2>4. a = b
    BY <2>3, SeqEqual
  <2> QED BY <2>1, <2>2, <2>4
<1>6. \A i \in 1..k : i \in 1..(k - 1) \/ i = k
  BY <1>1
<1> QED BY <1>2, <1>5, <1>6 DEF Got

\* The next argument, or the end of the message.
LEMMA ArgOverStep ==
  ASSUME NEW m, OfArgs(m), NEW k \in 1..Len(m.args), NEW r, NEW w, Onward(r, w, m.bytes, m.at[k + 1]),
         ArgOver(r, m, k)
  PROVE  \/ k + 1 \in 1..Len(m.args) /\ AtArg(r, m, k + 1, m.at[k + 1])
         \/ Complete(r, m.args) /\ w = <<>>
<1>1. Laid(m) /\ (m.count = Len(m.args) \/ (m.count = 0 /\ Len(m.args) = 1))
  BY DEF OfArgs, Counted, Single
<1>2. m.args \in Args /\ Len(m.args) \in Nat /\ m.bytes \in Seq(Symbol) /\ Len(m.bytes) \in Nat
  BY <1>1, ArgLaid DEF Laid
<1>3. /\ r.args_count = m.count /\ r.carg = <<>> /\ r.carg_index = 0 /\ r.carg_len = 0 /\ Got(r, m, k)
      /\ r.stage = IF Len(r.args) < r.args_count THEN 2 ELSE 0
  BY DEF ArgOver
<1>4. Len(r.args) = k /\ \A i \in 1..k : r.args[i] = m.args[i]
  BY <1>3 DEF Got
<1>5. CASE k < m.count
  <2>1. k + 1 \in 1..Len(m.args) /\ (k + 1) - 1 = k
    BY <1>1, <1>2, <1>5
  <2>2. r.stage = 2
    BY <1>3, <1>4, <1>5
  <2>3. Got(r, m, (k + 1) - 1)
    BY <1>3, <2>1
  <2> QED BY <1>3, <2>1, <2>2, <2>3 DEF AtArg
<1>6. CASE ~(k < m.count)
  <2>1. k = Len(m.args)
    <3>1. PICK l \in Nat : l = Len(m.args)
      BY <1>2
    <3>2. k \in 1..l /\ (m.count = l \/ (m.count = 0 /\ l = 1))
      BY <1>1, <3>1
    <3>3. k = l
      BY <1>6, <3>2
    <3> QED BY <3>1, <3>3
  <2>2. r.stage = 0
    BY <1>3, <1>4, <1>6
  <2>3. r \in Parser /\ r.error = FALSE /\ Ahead(r.buf, w, m.bytes, m.at[k + 1])
    BY DEF Onward
  <2>4. m.at[k + 1] = Len(m.bytes)
    BY <1>1, <2>1 DEF Laid
  <2>5. r.buf \in Seq(Symbol) /\ w \in Seq(Symbol) /\ Len(m.bytes) = Len(m.bytes) + Len(r.buf) + Len(w)
    BY <2>3, <2>4 DEF Ahead, Parser
  <2>6. Len(r.buf) = 0 /\ Len(w) = 0
    <3>1. PICK b \in Nat : b = Len(r.buf)
      BY <2>5
    <3>2. PICK v \in Nat : v = Len(w)
      BY <2>5
    <3>3. PICK l \in Nat : l = Len(m.bytes)
      BY <1>2
    <3>4. l = l + b + v
      BY <2>5, <3>1, <3>2, <3>3
    <3>5. b = 0 /\ v = 0
      BY <3>4
    <3> QED BY <3>1, <3>2, <3>5
  <2>7. r.buf = <<>> /\ w = <<>>
    BY <2>5, <2>6
  <2>8. r.args = m.args
    <3>1. r.args \in Seq(Seq(Symbol)) /\ m.args \in Seq(Seq(Symbol))
      BY <1>2, <2>3 DEF Parser, Args
    <3>2. Len(r.args) = Len(m.args) /\ \A i \in 1..Len(r.args) : r.args[i] = m.args[i]
      BY <1>4, <2>1
    <3> QED BY <3>1, <3>2, SeqEqual
  <2> QED BY <1>3, <2>2, <2>3, <2>7, <2>8 DEF Complete
<1> QED BY <1>5, <1>6
\* A turn of the loop leads on in the message, ends it, or miscounts.
Advanced(r, w, m) ==
  \/ \E z : Onward(r, w, m.bytes, z) /\ Stages(r, m, z)
  \/ Complete(r, m.args) /\ w = <<>>
  \/ MisCounted(r) /\ r \in Parser /\ r.error = FALSE

\* With the end of its line an argument is behind.
LEMMA OverAdvances ==
  ASSUME NEW m, OfArgs(m), NEW k \in 1..Len(m.args), NEW r, NEW w, Onward(r, w, m.bytes, m.at[k + 1]),
         ArgOver(r, m, k)
  PROVE  Advanced(r, w, m)
<1>1. CASE k + 1 \in 1..Len(m.args) /\ AtArg(r, m, k + 1, m.at[k + 1])
  <2>1. Stages(r, m, m.at[k + 1])
    BY <1>1 DEF Stages
  <2> QED BY <2>1 DEF Advanced
<1>2. CASE Complete(r, m.args) /\ w = <<>>
  BY <1>2 DEF Advanced
<1>3. \/ k + 1 \in 1..Len(m.args) /\ AtArg(r, m, k + 1, m.at[k + 1])
      \/ Complete(r, m.args) /\ w = <<>>
  BY ArgOverStep
<1> QED BY <1>1, <1>2, <1>3

\* All of the argument is in the buffer that is read: if the first part came before
\* and the end of the line is still to come, the argument is miscounted.
LEMMA ArgAllStep ==
  ASSUME NEW m, OfArgs(m), NEW k \in 1..Len(m.args), NEW p, NEW w, NEW q, Onward(p, w, m.bytes, q),
         ArgRead(p, m, k), q \in AfterArg(m, k), p.carg_index \in 1..p.carg_len
  PROVE  ArgEnd(p).arg_type = p.arg_type /\ Advanced(ArgEnd(p), w, m)
<1>1. PICK r : r = ArgEnd(p)
  OBVIOUS
<1>2. /\ r.arg_type = p.arg_type
      /\ \/ \E z \in AfterArg(m, k) :
              Onward(r, w, m.bytes, z) /\ ArgRead(r, m, k) /\ r.carg_index = p.carg_index
         \/ Onward(r, w, m.bytes, m.at[k + 1]) /\ ArgOver(r, m, k)
  BY <1>1, ArgEndStep
<1>3. CASE Onward(r, w, m.bytes, m.at[k + 1]) /\ ArgOver(r, m, k)
  BY <1>1, <1>2, <1>3, OverAdvances
<1>4. ASSUME NEW z \in AfterArg(m, k), Onward(r, w, m.bytes, z), ArgRead(r, m, k), r.carg_index = p.carg_index
      PROVE  Advanced(r, w, m)
  <2>1. /\ r.stage = 4 /\ r.args_count = m.count /\ r.carg = <<>> /\ r.carg_len = Len(m.args[k]) /\ Got(r, m, k)
    BY <1>4 DEF ArgRead
  <2>2. p.carg_len = Len(m.args[k])
    BY DEF ArgRead
  <2>3. Laid(m)
    BY DEF OfArgs, Counted, Single
  <2>4. Len(m.args[k]) \in Nat /\ Len(m.args) \in Nat
    BY <2>3, ArgLaid
  <2>5. CASE r.carg_index = r.carg_len
    <3>1. z \in {m.body[k] + r.carg_len, m.body[k] + r.carg_len + 1}
      BY <1>4, <2>1 DEF AfterArg
    <3>2. InArg(r, m, k, z)
      BY <2>1, <2>5, <3>1 DEF InArg
    <3>3. Stages(r, m, z)
      BY <3>2 DEF Stages
    <3> QED BY <1>4, <3>3 DEF Advanced
  <2>6. CASE r.carg_index # r.carg_len
    <3>1. r \in Parser /\ r.error = FALSE
      BY <1>4 DEF Onward
    <3>2. r.args \in Seq(Seq(Symbol)) /\ Len(r.args) = k /\ r.args[k] = m.args[k]
      <4>1. r.args \in Seq(Seq(Symbol)) /\ k \in 1..k
        BY <2>4, <3>1 DEF Parser
      <4> QED BY <2>1, <4>1 DEF Got
    <3>3. r.args # <<>> /\ Last(r.args) = m.args[k]
      BY <2>4, <3>2 DEF Last
    <3>4. r.carg_index > 0 /\ r.carg_len - r.carg_index > 0
      <4>1. r.carg_index \in 1..r.carg_len /\ r.carg_len \in Nat
        BY <1>4, <2>1, <2>2, <2>4
      <4> QED BY <2>6, <4>1
    <3>5. MisCounted(r)
      BY <2>1, <3>3, <3>4 DEF MisCounted, Missing
    <3> QED BY <3>1, <3>5 DEF Advanced
  <2> QED BY <2>5, <2>6
<1> QED BY <1>1, <1>2, <1>3, <1>4

\* An empty buffer has no line's end.
LEMMA EmptyEnd ==
  ASSUME NEW p \in Parser, p.buf = <<>>
  PROVE  ArgEnd(p) = p
<1>1. {i \in DOMAIN p.buf : p.buf[i] = LF} = {}
  OBVIOUS
<1>2. ArgEnd(p) = [p EXCEPT !.buf = <<>>]
  BY <1>1, Zenon DEF ArgEnd
<1>3. [p EXCEPT !.buf = <<>>] = p
  BY DEF Parser
<1> QED BY <1>2, <1>3

\* What ArgBytes does: nothing, or it takes what is there or what is missing.
LEMMA ArgBytesCases ==
  ASSUME NEW p \in Parser
  PROVE  /\ ~(p.carg_index < p.carg_len) => ArgBytes(p) = p
         /\ (p.carg_index < p.carg_len /\ Len(p.buf) < p.carg_len - p.carg_index) =>
              ArgBytes(p) = BytesGone(p, Len(p.buf), p.carg_index + Len(p.buf))
         /\ (p.carg_index < p.carg_len /\ ~(Len(p.buf) < p.carg_len - p.carg_index)) =>
              ArgBytes(p) = BytesGone(p, p.carg_len - p.carg_index, p.carg_len - p.carg_index)
<1>1. p.carg_index \in Nat /\ p.carg_len \in Nat
  BY DEF Parser
<1>2. Missing(p) <= 0 <=> ~(p.carg_index < p.carg_len)
  BY <1>1 DEF Missing
<1>3. WithBytes(p, Len(p.buf)).carg_index = p.carg_index
  BY DEF WithBytes, Parser
<1>4. Missing(p) = p.carg_len - p.carg_index
  BY DEF Missing
<1>5. ~(p.carg_index < p.carg_len) => ArgBytes(p) = p
  BY <1>2, Zenon DEF ArgBytes
<1>6. [WithBytes(p, Len(p.buf)) EXCEPT !.carg_index = @ + Len(p.buf)]
        = BytesGone(p, Len(p.buf), p.carg_index + Len(p.buf))
  <2>1. PICK u : u = WithBytes(p, Len(p.buf))
    OBVIOUS
  <2>2. [u EXCEPT !.carg_index = @ + Len(p.buf)] = [u EXCEPT !.carg_index = u.carg_index + Len(p.buf)]
    OBVIOUS
  <2>3. u.carg_index = p.carg_index
    BY <1>3, <2>1
  <2> QED BY <2>1, <2>2, <2>3 DEF BytesGone
<1>7. (p.carg_index < p.carg_len /\ Len(p.buf) < p.carg_len - p.carg_index) =>
         ArgBytes(p) = BytesGone(p, Len(p.buf), p.carg_index + Len(p.buf))
  BY <1>2, <1>4, <1>6, Zenon DEF ArgBytes
<1>8. (p.carg_index < p.carg_len /\ ~(Len(p.buf) < p.carg_len - p.carg_index)) =>
         ArgBytes(p) = BytesGone(p, p.carg_len - p.carg_index, p.carg_len - p.carg_index)
  BY <1>2, <1>4, Zenon DEF ArgBytes, BytesGone
<1> QED BY <1>5, <1>7, <1>8

\* In the bytes of an argument or at the end of their line.
LEMMA ArgStep ==
  ASSUME NEW m, OfArgs(m), NEW k \in 1..Len(m.args), NEW p, NEW w, NEW q, Onward(p, w, m.bytes, q),
         p.buf # <<>>, InArg(p, m, k, q)
  PROVE  Arg(p).arg_type = p.arg_type /\ Advanced(Arg(p), w, m)
<1>1. Laid(m)
  BY DEF OfArgs, Counted, Single
<1>2. m.body[k] \in Nat /\ Len(m.args[k]) \in Nat /\ Len(m.args[k]) > 0 /\ Len(m.args) \in Nat
  BY <1>1, ArgLaid
<1>3. p \in Parser /\ p.carg_index \in Nat /\ p.carg_len \in Nat /\ p.buf \in Seq(Symbol) /\ q \in Nat
  BY DEF Onward, Parser, Ahead
<1>4. /\ p.stage = 4 /\ p.args_count = m.count /\ p.carg = <<>> /\ p.carg_len = Len(m.args[k])
  BY DEF InArg
<1>5. Len(p.buf) \in Nat /\ Len(p.buf) > 0
  BY <1>3
<1>6. Arg(p) = ArgEnd(ArgBytes(p))
  BY DEF Arg
<1>7. CASE ~(p.carg_index < p.carg_len)
  <2>1. ArgBytes(p) = p
    BY <1>3, <1>7, ArgBytesCases
  <2>2. /\ p.carg_index = p.carg_len /\ Got(p, m, k)
        /\ q \in {m.body[k] + p.carg_len, m.body[k] + p.carg_len + 1}
    BY <1>2, <1>3, <1>4, <1>7 DEF InArg
  <2>3. q \in AfterArg(m, k)
    BY <1>4, <2>2 DEF AfterArg
  <2>4. ArgRead(p, m, k)
    BY <1>4, <2>2 DEF ArgRead
  <2>5. p.carg_index \in 1..p.carg_len
    BY <1>2, <1>4, <2>2
  <2> QED BY <1>6, <2>1, <2>3, <2>4, <2>5, ArgAllStep
<1>8. CASE p.carg_index < p.carg_len /\ Len(p.buf) < p.carg_len - p.carg_index
  <2> DEFINE n == Len(p.buf)
             x == p.carg_index + n
  <2>1. PICK r : r = BytesGone(p, n, x)
    OBVIOUS
  <2>2. n \in 1..Len(p.buf) /\ p.carg_index + n <= p.carg_len /\ x \in Nat
    BY <1>3, <1>5, <1>8
  <2>3. ArgBytes(p) = r
    BY <1>3, <1>8, <2>1, ArgBytesCases
  <2> HIDE DEF n, x
  <2>4. /\ Onward(r, w, m.bytes, q + n) /\ Begun(r.args, m, k, p.carg_index + n) /\ r.carg_index = x
        /\ r.stage = 4 /\ r.args_count = m.count /\ r.carg = <<>> /\ r.carg_len = p.carg_len
        /\ r.arg_type = p.arg_type /\ Len(r.buf) = Len(p.buf) - n
    <3>1. Grown(p, w, m, k, q, n, x, r)
      BY <1>8, <2>1, <2>2, BytesTaken
    <3> QED BY <3>1, Zenon DEF Grown
  <2>5. r \in Parser /\ r.buf \in Seq(Symbol)
    BY <2>4 DEF Onward, Parser
  <2>6. r.buf = <<>>
    <3>1. Len(r.buf) = 0
      BY <1>5, <2>4 DEF n
    <3> QED BY <2>5, <3>1
  <2>7. ArgEnd(r) = r
    BY <2>5, <2>6, EmptyEnd
  <2>8. 0 < x /\ x < p.carg_len /\ x = p.carg_index + n
    BY <1>3, <1>5, <1>8 DEF n, x
  <2>9. q = m.body[k] + p.carg_index
    BY <1>2, <1>3, <1>8 DEF InArg
  <2>10. q + n = m.body[k] + x
    BY <1>2, <1>3, <1>5, <2>8, <2>9 DEF n
  <2>11. Begun(r.args, m, k, r.carg_index)
    BY <2>4, <2>8
  <2>12. InArg(r, m, k, q + n)
    BY <1>4, <2>4, <2>8, <2>10, <2>11 DEF InArg
  <2>13. Stages(r, m, q + n)
    BY <2>12 DEF Stages
  <2> QED BY <1>6, <2>3, <2>4, <2>7, <2>13 DEF Advanced
<1>9. CASE p.carg_index < p.carg_len /\ ~(Len(p.buf) < p.carg_len - p.carg_index)
  <2> DEFINE n == p.carg_len - p.carg_index
  <2>1. PICK r : r = BytesGone(p, n, n)
    OBVIOUS
  <2>2. n \in 1..Len(p.buf) /\ p.carg_index + n <= p.carg_len /\ n \in Nat /\ p.carg_index + n = p.carg_len
    BY <1>3, <1>5, <1>9
  <2>3. ArgBytes(p) = r
    BY <1>3, <1>9, <2>1, ArgBytesCases
  <2>3a. n \in 1..p.carg_len
    BY <1>3, <1>9
  <2> HIDE DEF n
  <2>4. /\ Onward(r, w, m.bytes, q + n) /\ Begun(r.args, m, k, p.carg_index + n) /\ r.carg_index = n
        /\ r.stage = 4 /\ r.args_count = m.count /\ r.carg = <<>> /\ r.carg_len = p.carg_len
        /\ r.arg_type = p.arg_type /\ Len(r.buf) = Len(p.buf) - n
    <3>1. Grown(p, w, m, k, q, n, n, r)
      BY <1>9, <2>1, <2>2, BytesTaken
    <3> QED BY <3>1, Zenon DEF Grown
  <2>5. Got(r, m, k)
    <3>1. r \in Parser
      BY <2>4 DEF Onward
    <3>2. Begun(r.args, m, k, Len(m.args[k]))
      BY <1>4, <2>2, <2>4
    <3> QED BY <1>1, <3>1, <3>2, BegunAll
  <2>6. ArgRead(r, m, k)
    BY <1>4, <2>4, <2>5 DEF ArgRead
  <2>7. q = m.body[k] + p.carg_index
    BY <1>2, <1>3, <1>9 DEF InArg
  <2>8. q + n \in AfterArg(m, k)
    <3>1. q + n = m.body[k] + Len(m.args[k])
      BY <1>2, <1>3, <1>4, <2>2, <2>7
    <3> QED BY <3>1 DEF AfterArg
  <2>9. r.carg_index \in 1..r.carg_len
    BY <2>3a, <2>4
  <2>10. ArgEnd(r).arg_type = r.arg_type /\ Advanced(ArgEnd(r), w, m)
    BY <2>4, <2>6, <2>8, <2>9, ArgAllStep
  <2> QED BY <1>6, <2>3, <2>4, <2>10
<1> QED BY <1>7, <1>8, <1>9

\* Wherever the parser is in a message, a turn of its loop leads on.
LEMMA StagesStep ==
  ASSUME NEW m, OfArgs(m), NEW p, NEW w, NEW q, Onward(p, w, m.bytes, q), p.buf # <<>>, Stages(p, m, q),
         NEW start
  PROVE  Parsed(p, start).arg_type = p.arg_type /\ Advanced(Parsed(p, start), w, m)
<1>1. CASE InCount(p, m, q)
  <2>1. Parsed(p, start) = ArgsCount(p)
    BY <1>1 DEF Parsed, InCount
  <2>2. /\ Onward(ArgsCount(p), w, m.bytes, q + 1) /\ ArgsCount(p).arg_type = p.arg_type
        /\ InCount(ArgsCount(p), m, q + 1) \/ AtArg(ArgsCount(p), m, 1, q + 1)
    BY <1>1, CountStep
  <2>3. 1 \in 1..Len(m.args)
    <3>1. m.args \in Args
      BY DEF OfArgs, Counted, Single, Laid
    <3> QED BY <3>1, ArgsType
  <2>4. Stages(ArgsCount(p), m, q + 1)
    BY <2>2, <2>3 DEF Stages
  <2> QED BY <2>1, <2>2, <2>4 DEF Advanced
<1>2. ASSUME NEW k \in 1..Len(m.args), AtArg(p, m, k, q)
      PROVE  Parsed(p, start).arg_type = p.arg_type /\ Advanced(Parsed(p, start), w, m)
  <2>1. Parsed(p, start) = ArgStart(p)
    BY <1>2 DEF Parsed, AtArg
  <2>2. /\ Onward(ArgStart(p), w, m.bytes, q + 1) /\ ArgStart(p).arg_type = p.arg_type
        /\ InLength(ArgStart(p), m, k, q + 1)
    BY <1>2, ArgStartStep
  <2>3. Stages(ArgStart(p), m, q + 1)
    BY <2>2 DEF Stages
  <2> QED BY <2>1, <2>2, <2>3 DEF Advanced
<1>3. ASSUME NEW k \in 1..Len(m.args), InLength(p, m, k, q)
      PROVE  Parsed(p, start).arg_type = p.arg_type /\ Advanced(Parsed(p, start), w, m)
  <2>1. Parsed(p, start) = ArgLen(p)
    BY <1>3 DEF Parsed, InLength
  <2>2. /\ Onward(ArgLen(p), w, m.bytes, q + 1) /\ ArgLen(p).arg_type = p.arg_type
        /\ InLength(ArgLen(p), m, k, q + 1) \/ InArg(ArgLen(p), m, k, q + 1)
    BY <1>3, ArgLenStep
  <2>3. Stages(ArgLen(p), m, q + 1)
    BY <2>2 DEF Stages
  <2> QED BY <2>1, <2>2, <2>3 DEF Advanced
<1>4. ASSUME NEW k \in 1..Len(m.args), InArg(p, m, k, q)
      PROVE  Parsed(p, start).arg_type = p.arg_type /\ Advanced(Parsed(p, start), w, m)
  <2>1. Parsed(p, start) = Arg(p)
    BY <1>4 DEF Parsed, InArg
  <2> QED BY <1>4, <2>1, ArgStep
<1> QED BY <1>1, <1>2, <1>3, <1>4 DEF Stages
-----------------------------------------------------------------------------
(* The start of a message, and a message of one line.                        *)

\* The first byte is taken; it says what follows.
StartOf(p, g, t) == [Took(p) EXCEPT !.stage = g, !.arg_type = t]

Started(p, w, M, g, t, r) ==
  /\ Head(p.buf) = M[1] /\ Onward(r, w, M, 1) /\ r.stage = g /\ r.arg_type = t
  /\ r.args = <<>> /\ r.args_count = 0 /\ r.carg = <<>> /\ r.carg_index = 0 /\ r.carg_len = 0

\* The other fields are as they are between messages.
LEMMA FreshTook ==
  ASSUME NEW p, NEW w, NEW M, Onward(p, w, M, 0), p.buf # <<>>, Fresh(p), NEW g \in 1..5, NEW t \in 0..4,
         NEW r, r = StartOf(p, g, t)
  PROVE  Started(p, w, M, g, t, r)
<1>1. /\ Head(p.buf) = M[1] /\ Onward(Took(p), w, M, 1)
      /\ Took(p).carg = p.carg /\ Alike(Took(p), p)
  <2>1. /\ Head(p.buf) = M[0 + 1] /\ Onward(Took(p), w, M, 0 + 1)
        /\ Took(p).carg = p.carg /\ Alike(Took(p), p)
    BY TookOn
  <2>2. 0 + 1 = 1
    OBVIOUS
  <2> QED BY <2>1, <2>2
<1>2. Took(p) \in Parser /\ g \in 0..5
  BY <1>1 DEF Onward
<1>3. /\ r \in Parser /\ r.buf = Took(p).buf /\ r.last = Took(p).last /\ r.error = Took(p).error
      /\ r.stage = g /\ r.arg_type = t /\ r.args = Took(p).args /\ r.args_count = Took(p).args_count
      /\ r.carg = Took(p).carg /\ r.carg_index = Took(p).carg_index /\ r.carg_len = Took(p).carg_len
  BY <1>2 DEF Parser, StartOf
<1>4. Onward(r, w, M, 1)
  BY <1>1, <1>3, OnwardKept
<1> QED BY <1>1, <1>3, <1>4 DEF Alike, Fresh, Started

\* A line of nothing is begun.
LEMMA LineBegun ==
  ASSUME NEW s \in Seq(Symbol), NEW o \in Nat
  PROVE  InLine(<<>>, s, o, o)
BY DEF InLine

\* The count is begun.
LEMMA CountBegun ==
  ASSUME NEW m, Counted(m), NEW p, NEW w, Onward(p, w, m.bytes, 0), p.buf # <<>>, Fresh(p), NEW t \in 0..4,
         NEW r, r = StartOf(p, 1, t)
  PROVE  Head(p.buf) = "*" /\ r.arg_type = t /\ Advanced(r, w, m)
<1>1. 1 \in 1..5
  OBVIOUS
<1>2. /\ Head(p.buf) = m.bytes[1] /\ Onward(r, w, m.bytes, 1) /\ r.stage = 1 /\ r.arg_type = t
      /\ r.args = <<>> /\ r.args_count = 0 /\ r.carg = <<>> /\ r.carg_index = 0 /\ r.carg_len = 0
  <2>1. Started(p, w, m.bytes, 1, t, r)
    BY <1>1, FreshTook
  <2> QED BY <2>1 DEF Started
<1>3. m.bytes[1] = "*" /\ m.num[0] \in Seq(Symbol) /\ m.count > 0
  BY ArgsType DEF Counted, Laid, Numeral
<1>4. InLine(<<>>, m.num[0], 1, 1)
  BY <1>3, LineBegun
<1>5. InCount(r, m, 1)
  BY <1>2, <1>3, <1>4 DEF InCount
<1>6. Stages(r, m, 1)
  BY <1>5 DEF Stages
<1> QED BY <1>2, <1>3, <1>6 DEF Advanced

\* The server's parser at the start of a command.
LEMMA ServerStarts ==
  ASSUME NEW m, Counted(m), NEW p, NEW w, Onward(p, w, m.bytes, 0), p.buf # <<>>, Fresh(p)
  PROVE  Advanced(Parsed(p, ServerStart(p)), w, m)
<1>1. PICK t \in 0..4 : t = p.arg_type
  BY DEF Onward, Parser
<1>2. PICK r : r = StartOf(p, 1, t)
  OBVIOUS
<1>3. Head(p.buf) = "*" /\ Advanced(r, w, m)
  BY <1>2, CountBegun
<1>4. p \in Parser
  BY DEF Onward
<1>5. Took(p) \in Parser /\ Took(p).arg_type = t
  BY <1>1, <1>4, TookFields DEF Alike
<1>6. [Took(p) EXCEPT !.stage = 1] = r
  BY <1>2, <1>5 DEF Parser, StartOf
<1>7. Parsed(p, ServerStart(p)) = r
  BY <1>3, <1>6 DEF Parsed, ServerStart, Fresh
<1> QED BY <1>3, <1>7

\* The client's parser at the start of a reply of arguments.
LEMMA ClientStarts ==
  ASSUME NEW m, OfArgs(m), NEW p, NEW w, Onward(p, w, m.bytes, 0), p.buf # <<>>, Fresh(p)
  PROVE  /\ Advanced(Parsed(p, ClientStart(p)), w, m)
         /\ Parsed(p, ClientStart(p)).arg_type = IF m.count > 0 THEN 4 ELSE 3
<1>1. Parsed(p, ClientStart(p)) = ClientStart(p)
  BY DEF Parsed, Fresh
<1>2. CASE Counted(m)
  <2>1. PICK r : r = StartOf(p, 1, 4)
    OBVIOUS
  <2>2. 4 \in 0..4
    OBVIOUS
  <2>3. Head(p.buf) = "*" /\ r.arg_type = 4 /\ Advanced(r, w, m)
    BY <1>2, <2>1, <2>2, CountBegun
  <2>4. ClientStart(p) = r
    BY <2>1, <2>3 DEF ClientStart, StartOf
  <2>5. m.count > 0
    BY <1>2, ArgsType DEF Counted, Laid
  <2> QED BY <1>1, <2>3, <2>4, <2>5
<1>3. CASE Single(m)
  <2>1. PICK r : r = StartOf(p, 3, 3)
    OBVIOUS
  <2>2. 3 \in 0..4 /\ 3 \in 1..5
    OBVIOUS
  <2>3. /\ Head(p.buf) = m.bytes[1] /\ Onward(r, w, m.bytes, 1) /\ r.stage = 3 /\ r.arg_type = 3
        /\ r.args = <<>> /\ r.args_count = 0 /\ r.carg = <<>> /\ r.carg_index = 0 /\ r.carg_len = 0
    <3>1. Started(p, w, m.bytes, 3, 3, r)
      BY <2>1, <2>2, FreshTook
    <3> QED BY <3>1 DEF Started
  <2>4. Laid(m) /\ m.count = 0 /\ Len(m.args) = 1 /\ m.at[1] = 0 /\ 1 \in 1..Len(m.args)
    BY <1>3 DEF Single
  <2>5. m.bytes[1] = "$" /\ Numeral(m.num[1], Len(m.args[1]))
    <3>1. m.bytes[m.at[1] + 1] = "$" /\ Numeral(m.num[1], Len(m.args[1]))
      BY <2>4, ArgLaid
    <3>2. m.at[1] + 1 = 1
      BY <2>4
    <3> QED BY <3>1, <3>2
  <2>6. InLine(<<>>, m.num[1], 1, 1)
    <3>1. m.num[1] \in Seq(Symbol)
      BY <2>5 DEF Numeral
    <3> QED BY <3>1, LineBegun
  <2>7. Got(r, m, 1 - 1)
    BY <2>3 DEF Got
  <2>8. InLine(r.carg, m.num[1], m.at[1] + 1, 1)
    BY <2>3, <2>4, <2>6
  <2>9. InLength(r, m, 1, 1)
    BY <2>3, <2>4, <2>7, <2>8 DEF InLength
  <2>10. Stages(r, m, 1)
    BY <2>4, <2>9 DEF Stages
  <2>11. ClientStart(p) = r
    BY <2>1, <2>3, <2>5 DEF ClientStart, StartOf
  <2>12. Advanced(r, w, m)
    BY <2>3, <2>10 DEF Advanced
  <2> QED BY <1>1, <2>3, <2>4, <2>11, <2>12
<1> QED BY <1>2, <1>3 DEF OfArgs

\* A message of one line: a sign for its type, and a text.
Sign(t) == IF t = 1 THEN "+" ELSE "-"

TextAt(M, t, text) ==
  /\ t \in {1, 2} /\ M \in Seq(Symbol) /\ M[1] = Sign(t) /\ LineAt(M, 1, text)
  /\ Len(M) = Len(text) + 3 /\ \A i \in 1..Len(text) : text[i] \notin {CR, LF}

InText(p, text, q) ==
  /\ p.stage = 5 /\ p.args_count = 0 /\ p.carg = <<>> /\ p.carg_index = 0 /\ p.carg_len = 0
  /\ Len(p.args) = 1 /\ InLine(p.args[1], text, 1, q)

\* A turn of the loop leads on in the text, or ends it.
Told(r, w, M, text) ==
  \/ \E z : Onward(r, w, M, z) /\ InText(r, text, z)
  \/ Complete(r, <<text>>) /\ w = <<>>

\* The client's parser at the start of such a message.
LEMMA TextStarts ==
  ASSUME NEW M, NEW t, NEW text, TextAt(M, t, text), NEW p, NEW w, Onward(p, w, M, 0), p.buf # <<>>, Fresh(p)
  PROVE  Told(Parsed(p, ClientStart(p)), w, M, text) /\ Parsed(p, ClientStart(p)).arg_type = t
<1>1. Parsed(p, ClientStart(p)) = ClientStart(p)
  BY DEF Parsed, Fresh
<1>2. t \in {1, 2} /\ M[1] = Sign(t) /\ text \in Seq(Symbol)
  BY DEF TextAt, LineAt
<1>3. PICK u : u = StartOf(p, 5, t)
  OBVIOUS
<1>4. /\ Head(p.buf) = M[1] /\ Onward(u, w, M, 1) /\ u.stage = 5 /\ u.arg_type = t
      /\ u.args = <<>> /\ u.args_count = 0 /\ u.carg = <<>> /\ u.carg_index = 0 /\ u.carg_len = 0
  <2>1. 5 \in 1..5 /\ t \in 0..4
    BY <1>2
  <2>2. Started(p, w, M, 5, t, u)
    BY <1>3, <2>1, FreshTook
  <2> QED BY <2>2 DEF Started
<1>5. p \in Parser
  BY DEF Onward
<1>6. Took(p) \in Parser /\ Took(p).args = <<>>
  BY <1>5, TookFields DEF Alike, Fresh
<1>7. PICK r : r = [Took(p) EXCEPT !.stage = 5, !.arg_type = t, !.args_count = 0, !.args = <<<<>>>>]
  OBVIOUS
<1>8. ClientStart(p) = r
  <2>1. Append(Took(p).args, <<>>) = <<<<>>>>
    BY <1>6
  <2>2. CASE t = 1
    <3>1. Head(p.buf) = "+"
      BY <1>2, <1>4, <2>2 DEF Sign
    <3>2. ClientStart(p) = [Took(p) EXCEPT !.stage = 5, !.arg_type = 1, !.args_count = 0,
                                           !.args = Append(Took(p).args, <<>>)]
      BY <1>6, <3>1 DEF ClientStart, Parser
    <3> QED BY <1>7, <2>1, <2>2, <3>2
  <2>3. CASE t = 2
    <3>1. Head(p.buf) = "-"
      BY <1>2, <1>4, <2>3 DEF Sign
    <3>2. ClientStart(p) = [Took(p) EXCEPT !.stage = 5, !.arg_type = 2, !.args_count = 0,
                                           !.args = Append(Took(p).args, <<>>)]
      BY <1>6, <3>1 DEF ClientStart, Parser
    <3> QED BY <1>7, <2>1, <2>3, <3>2
  <2> QED BY <1>2, <2>2, <2>3
<1>9. /\ r \in Parser /\ r.buf = u.buf /\ r.last = u.last /\ r.error = u.error
      /\ r.stage = 5 /\ r.arg_type = t /\ r.args = <<<<>>>> /\ r.args_count = 0
      /\ r.carg = u.carg /\ r.carg_index = u.carg_index /\ r.carg_len = u.carg_len
  <2>1. <<<<>>>> \in Seq(Seq(Symbol)) /\ 5 \in 0..5 /\ t \in 0..4
    BY <1>2
  <2> QED BY <1>3, <1>6, <1>7, <2>1 DEF Parser, StartOf
<1>10. Onward(r, w, M, 1)
  BY <1>4, <1>9, OnwardKept
<1>11. InLine(<<>>, text, 1, 1)
  BY <1>2, LineBegun
<1>12. InText(r, text, 1)
  <2>1. Len(r.args) = 1 /\ r.args[1] = <<>>
    BY <1>9
  <2> QED BY <1>4, <1>9, <1>11, <2>1 DEF InText
<1> QED BY <1>1, <1>8, <1>9, <1>10, <1>12 DEF Told

\* ... and in its text.
LEMMA TextStep ==
  ASSUME NEW M, NEW t, NEW text, TextAt(M, t, text), NEW p, NEW w, NEW q, Onward(p, w, M, q), p.buf # <<>>,
         InText(p, text, q), NEW start
  PROVE  Told(Parsed(p, start), w, M, text) /\ Parsed(p, start).arg_type = p.arg_type
<1>1. Parsed(p, start) = Message(p)
  BY DEF Parsed, InText
<1>2. /\ p.stage = 5 /\ p.args_count = 0 /\ p.carg = <<>> /\ p.carg_index = 0 /\ p.carg_len = 0
      /\ Len(p.args) = 1 /\ InLine(p.args[1], text, 1, q)
  BY DEF InText
<1>3. /\ p \in Parser /\ q \in Nat /\ p.args \in Seq(Seq(Symbol)) /\ (q > 0 => p.last \in {NONE, M[q]})
      /\ p.error = FALSE
  BY DEF Onward, Parser, Ahead
<1>4. PICK c \in Seq(Symbol) : c = p.args[1]
  BY <1>2, <1>3
<1>5. /\ Head(p.buf) = M[q + 1] /\ Onward(Took(p), w, M, q + 1)
      /\ Took(p).carg = p.carg /\ Alike(Took(p), p)
  BY TookOn
<1>6. text \in Seq(Symbol) /\ LineAt(M, 1, text) /\ \A i \in 1..Len(text) : text[i] \notin {CR, LF}
  BY DEF TextAt, LineAt
<1>7. InLine(c, text, 1, q)
  BY <1>2, <1>4
<1>8. Took(p) \in Parser
  BY <1>5 DEF Onward
<1>9. CASE /\ Len(c) < Len(text) /\ M[q + 1] = text[Len(c) + 1] /\ M[q + 1] \in Symbol
           /\ InLine(Append(c, M[q + 1]), text, 1, q + 1)
  <2>1. M[q + 1] \notin {CR, LF}
    <3>1. Len(c) + 1 \in 1..Len(text)
      BY <1>6, <1>9
    <3> QED BY <1>6, <1>9, <3>1
  <2>2. PICK d \in Seq(Symbol) : d = Append(c, M[q + 1])
    <3>1. PICK b \in Symbol : b = M[q + 1]
      BY <1>9
    <3>2. Append(c, b) \in Seq(Symbol)
      OBVIOUS
    <3> QED BY <3>1, <3>2
  <2>3. PICK A \in Seq(Seq(Symbol)) : A = [p.args EXCEPT ![1] = d]
    <3>1. [p.args EXCEPT ![1] = d] \in Seq(Seq(Symbol))
      <4>1. PICK s \in Seq(Seq(Symbol)) : s = p.args
        BY <1>3
      <4>2. Len(s) = 1
        BY <1>2, <4>1
      <4>3. 1 \in 1..Len(s)
        BY <4>2
      <4>4. [s EXCEPT ![1] = d] \in Seq(Seq(Symbol))
        BY <4>3, ExceptSeq
      <4> QED BY <4>1, <4>4
    <3> QED BY <3>1
  <2>4. PICK r : r = [Took(p) EXCEPT !.args = A]
    OBVIOUS
  <2>5. Message(p) = r
    <3>1. Message(p) = [Took(p) EXCEPT !.args = [p.args EXCEPT ![1] = Append(@, Head(p.buf))]]
      BY <1>5, <2>1 DEF Message
    <3>2. [p.args EXCEPT ![1] = Append(@, Head(p.buf))] = A
      BY <1>4, <1>5, <2>2, <2>3, Zenon
    <3> QED BY <2>4, <3>1, <3>2
  <2>6. /\ r \in Parser /\ r.args = A /\ r.buf = Took(p).buf /\ r.last = Took(p).last /\ r.error = Took(p).error
        /\ r.stage = Took(p).stage /\ r.args_count = Took(p).args_count /\ r.carg = Took(p).carg
        /\ r.carg_index = Took(p).carg_index /\ r.carg_len = Took(p).carg_len /\ r.arg_type = Took(p).arg_type
    BY <1>8, <2>4 DEF Parser
  <2>7. Onward(r, w, M, q + 1)
    BY <1>5, <2>6, OnwardKept
  <2>8. Len(A) = 1 /\ A[1] = d
    BY <1>2, <1>3, <2>3
  <2>9. InText(r, text, q + 1) /\ r.arg_type = p.arg_type
    BY <1>2, <1>5, <1>9, <2>2, <2>6, <2>8 DEF InText, Alike
  <2> QED BY <1>1, <2>5, <2>7, <2>9 DEF Told
<1>10. CASE c = text /\ M[q + 1] = CR /\ InLine(c, text, 1, q + 1)
  <2>1. Message(p) = Took(p)
    BY <1>5, <1>10, LineEnds DEF Message
  <2>2. InText(Took(p), text, q + 1) /\ Took(p).arg_type = p.arg_type
    BY <1>2, <1>4, <1>5, <1>10 DEF InText, Alike
  <2> QED BY <1>1, <1>5, <2>1, <2>2 DEF Told
<1>11. CASE c = text /\ q > 0 /\ M[q] = CR /\ M[q + 1] = LF /\ q + 1 = 1 + Len(text) + 2
  <2>1. ~EndsWrong(p)
    BY <1>3, <1>11 DEF EndsWrong
  <2>2. PICK r : r = [Took(p) EXCEPT !.stage = 0]
    OBVIOUS
  <2>3. Message(p) = r
    BY <1>5, <1>11, <2>1, <2>2, LineEnds DEF Message
  <2>4. /\ r \in Parser /\ r.buf = Took(p).buf /\ r.error = Took(p).error /\ r.stage = 0
        /\ r.args = Took(p).args /\ r.carg = Took(p).carg
        /\ r.carg_index = Took(p).carg_index /\ r.carg_len = Took(p).carg_len /\ r.arg_type = Took(p).arg_type
    BY <1>8, <2>2, FieldValues DEF Parser
  <2>5. Took(p).buf = <<>> /\ w = <<>>
    <3>1. PICK s : s = Took(p).buf
      OBVIOUS
    <3>2. s \in Seq(Symbol) /\ w \in Seq(Symbol) /\ Len(M) = (q + 1) + Len(s) + Len(w)
      BY <1>5, <1>8, <3>1 DEF Onward, Ahead, Parser
    <3>3. PICK a \in Nat : a = Len(s)
      BY <3>2
    <3>4. PICK b \in Nat : b = Len(w)
      BY <3>2
    <3>5. PICK l \in Nat : l = Len(text)
      BY <1>6
    <3>6. l + 3 = (q + 1) + a + b /\ q + 1 = 1 + l + 2
      BY <1>11, <3>2, <3>3, <3>4, <3>5 DEF TextAt
    <3>7. a = 0 /\ b = 0
      BY <1>3, <3>6
    <3>8. s = <<>> /\ w = <<>>
      <4>1. Len(s) = 0 /\ Len(w) = 0
        BY <3>3, <3>4, <3>7
      <4>2. s \in Seq(Symbol) /\ w \in Seq(Symbol)
        BY <3>2
      <4> QED BY <4>1, <4>2, EmptySeq
    <3> QED BY <3>1, <3>8
  <2>6. r.args = <<text>>
    <3>1. r.args = p.args
      BY <1>5, <2>4 DEF Alike
    <3>2. p.args = <<p.args[1]>>
      BY <1>2, <1>3
    <3> QED BY <1>4, <1>11, <3>1, <3>2
  <2>7. Complete(r, <<text>>) /\ r.arg_type = p.arg_type
    <3>1. r.carg = <<>> /\ r.carg_index = 0 /\ r.carg_len = 0 /\ r.error = FALSE /\ r.arg_type = p.arg_type
      BY <1>2, <1>5, <2>4 DEF Alike, Onward
    <3> QED BY <2>4, <2>5, <2>6, <3>1 DEF Complete
  <2> QED BY <1>1, <2>3, <2>5, <2>7 DEF Told
<1>12. 1 \in Nat
  OBVIOUS
<1> QED BY <1>3, <1>6, <1>7, <1>9, <1>10, <1>11, <1>12, LineNext
-----------------------------------------------------------------------------
(* Commands and replies on their way.                                        *)

\* What a reply means to the client that has parsed it.
Meant(M, t, args) ==
  \/ t = 1 /\ Head(M) = "+"
  \/ t = 2 /\ M = BuildReply(FALSE, args[1], <<>>)
  \/ t = 3 /\ Head(M) = "$"
  \/ t = 4 /\ M = BuildArgs(args) /\ ~ResultError(args)

ArgsReply(M, m) ==
  OfArgs(m) /\ m.bytes = M /\ Meant(M, IF m.count > 0 THEN 4 ELSE 3, m.args)

TextReply(M, t, text) == TextAt(M, t, text) /\ Meant(M, t, <<text>>)

\* A reply the client can parse.
Proper(M) == (\E m : ArgsReply(M, m)) \/ (\E t, text : TextReply(M, t, text))

\* A client's parser on its way through the reply M, w of which has not come.
Hearing(p, w, M) ==
  \/ Proper(M) /\ Onward(p, w, M, 0) /\ Fresh(p)
  \/ \E m, q : /\ ArgsReply(M, m) /\ Onward(p, w, M, q) /\ Stages(p, m, q)
               /\ p.arg_type = IF m.count > 0 THEN 4 ELSE 3
  \/ \E t, text, q : TextReply(M, t, text) /\ Onward(p, w, M, q) /\ InText(p, text, q) /\ p.arg_type = t

\* The server's, through a command.
Obeying(p, w, args) ==
  \E m, q : /\ Counted(m) /\ m.args = args /\ Onward(p, w, m.bytes, q)
            /\ (Fresh(p) /\ q = 0) \/ Stages(p, m, q)

Wrong(r) == r.stage # 0 /\ MisCounted(r) /\ r \in Parser /\ r.error = FALSE

\* In a message the stage is not 0.
LEMMA StagesInside ==
  ASSUME NEW p, NEW m, NEW q, Stages(p, m, q)
  PROVE  p.stage # 0
BY DEF Stages, InCount, AtArg, InLength, InArg

\* A turn of the server's loop.
LEMMA ObeyStep ==
  ASSUME NEW p, NEW w, NEW args, Obeying(p, w, args), p.buf # <<>>, NEW r, r = Parsed(p, ServerStart(p))
  PROVE  \/ r.stage # 0 /\ Obeying(r, w, args)
         \/ Complete(r, args) /\ w = <<>>
         \/ Wrong(r)
<1>1. PICK m, q : /\ Counted(m) /\ m.args = args /\ Onward(p, w, m.bytes, q)
                  /\ (Fresh(p) /\ q = 0) \/ Stages(p, m, q)
  BY DEF Obeying
<1>2. Advanced(r, w, m)
  <2>1. CASE Fresh(p) /\ q = 0
    BY <1>1, <2>1, ServerStarts
  <2>2. CASE Stages(p, m, q)
    <3>1. OfArgs(m)
      BY <1>1 DEF OfArgs
    <3> QED BY <1>1, <2>2, <3>1, StagesStep
  <2> QED BY <1>1, <2>1, <2>2
<1>3. CASE \E z : Onward(r, w, m.bytes, z) /\ Stages(r, m, z)
  <2>1. PICK z : Onward(r, w, m.bytes, z) /\ Stages(r, m, z)
    BY <1>3
  <2>2. r.stage # 0
    BY <2>1, StagesInside
  <2>3. Obeying(r, w, args)
    BY <1>1, <2>1 DEF Obeying
  <2> QED BY <2>2, <2>3
<1>4. CASE Complete(r, m.args) /\ w = <<>>
  BY <1>1, <1>4
<1>5. CASE MisCounted(r) /\ r \in Parser /\ r.error = FALSE
  BY <1>5 DEF Wrong, MisCounted
<1> QED BY <1>2, <1>3, <1>4, <1>5 DEF Advanced

\* The reply is parsed.
Heard(r, M) == Complete(r, r.args) /\ r.args # <<>> /\ Meant(M, r.arg_type, r.args)

\* In a message of arguments ...
LEMMA HearArgs ==
  ASSUME NEW r, NEW w, NEW M, NEW m, ArgsReply(M, m), Advanced(r, w, m),
         r.arg_type = IF m.count > 0 THEN 4 ELSE 3
  PROVE  \/ r.stage # 0 /\ Hearing(r, w, M)
         \/ Heard(r, M) /\ w = <<>>
         \/ Wrong(r)
<1>1. m.bytes = M /\ Meant(M, r.arg_type, m.args)
  BY DEF ArgsReply
<1>2. CASE \E z : Onward(r, w, m.bytes, z) /\ Stages(r, m, z)
  <2>1. PICK z : Onward(r, w, m.bytes, z) /\ Stages(r, m, z)
    BY <1>2
  <2>2. r.stage # 0
    BY <2>1, StagesInside
  <2>3. Hearing(r, w, M)
    BY <1>1, <2>1 DEF Hearing
  <2> QED BY <2>2, <2>3
<1>3. CASE Complete(r, m.args) /\ w = <<>>
  <2>1. r.args = m.args
    BY <1>3 DEF Complete
  <2>2. m.args # <<>>
    <3>1. m.args \in Args
      BY DEF ArgsReply, OfArgs, Counted, Single, Laid
    <3> QED BY <3>1 DEF Args
  <2> QED BY <1>1, <1>3, <2>1, <2>2 DEF Heard
<1>4. CASE MisCounted(r) /\ r \in Parser /\ r.error = FALSE
  BY <1>4 DEF Wrong, MisCounted
<1> QED BY <1>2, <1>3, <1>4 DEF Advanced

\* ... and of a text.
LEMMA HearText ==
  ASSUME NEW r, NEW w, NEW M, NEW t, NEW text, TextReply(M, t, text), Told(r, w, M, text), r.arg_type = t
  PROVE  \/ r.stage # 0 /\ Hearing(r, w, M)
         \/ Heard(r, M) /\ w = <<>>
<1>1. CASE \E z : Onward(r, w, M, z) /\ InText(r, text, z)
  <2>1. PICK z : Onward(r, w, M, z) /\ InText(r, text, z)
    BY <1>1
  <2>2. r.stage # 0
    BY <2>1 DEF InText
  <2>3. Hearing(r, w, M)
    BY <2>1 DEF Hearing
  <2> QED BY <2>2, <2>3
<1>2. CASE Complete(r, <<text>>) /\ w = <<>>
  <2>1. r.args = <<text>> /\ <<text>> # <<>>
    BY <1>2 DEF Complete
  <2> QED BY <1>2, <2>1 DEF Heard, TextReply
<1> QED BY <1>1, <1>2 DEF Told

\* A turn of the client's loop.
LEMMA HearStep ==
  ASSUME NEW p, NEW w, NEW M, Hearing(p, w, M), p.buf # <<>>, NEW r, r = Parsed(p, ClientStart(p))
  PROVE  \/ r.stage # 0 /\ Hearing(r, w, M)
         \/ Heard(r, M) /\ w = <<>>
         \/ Wrong(r)
<1>1. ASSUME NEW m, ArgsReply(M, m), Onward(p, w, M, 0), Fresh(p)
      PROVE  Advanced(r, w, m) /\ r.arg_type = IF m.count > 0 THEN 4 ELSE 3
  <2>1. OfArgs(m) /\ Onward(p, w, m.bytes, 0)
    BY <1>1 DEF ArgsReply
  <2> QED BY <1>1, <2>1, ClientStarts
<1>2. ASSUME NEW t, NEW text, TextReply(M, t, text), Onward(p, w, M, 0), Fresh(p)
      PROVE  Told(r, w, M, text) /\ r.arg_type = t
  <2>1. TextAt(M, t, text)
    BY <1>2 DEF TextReply
  <2> QED BY <1>2, <2>1, TextStarts
<1>3. ASSUME NEW m, NEW q, ArgsReply(M, m), Onward(p, w, M, q), Stages(p, m, q)
      PROVE  Advanced(r, w, m) /\ r.arg_type = p.arg_type
  <2>1. OfArgs(m) /\ Onward(p, w, m.bytes, q)
    BY <1>3 DEF ArgsReply
  <2> QED BY <1>3, <2>1, StagesStep
<1>4. ASSUME NEW t, NEW text, NEW q, TextReply(M, t, text), Onward(p, w, M, q), InText(p, text, q)
      PROVE  Told(r, w, M, text) /\ r.arg_type = p.arg_type
  <2>1. TextAt(M, t, text)
    BY <1>4 DEF TextReply
  <2> QED BY <1>4, <2>1, TextStep
<1>5. CASE Proper(M) /\ Onward(p, w, M, 0) /\ Fresh(p)
  <2>1. CASE \E m : ArgsReply(M, m)
    <3>1. PICK m : ArgsReply(M, m)
      BY <2>1
    <3> QED BY <1>1, <1>5, <3>1, HearArgs
  <2>2. CASE \E t, text : TextReply(M, t, text)
    <3>1. PICK t, text : TextReply(M, t, text)
      BY <2>2
    <3> QED BY <1>2, <1>5, <3>1, HearText
  <2> QED BY <1>5, <2>1, <2>2 DEF Proper
<1>6. CASE \E m, q : /\ ArgsReply(M, m) /\ Onward(p, w, M, q) /\ Stages(p, m, q)
                     /\ p.arg_type = IF m.count > 0 THEN 4 ELSE 3
  <2>1. PICK m, q : /\ ArgsReply(M, m) /\ Onward(p, w, M, q) /\ Stages(p, m, q)
                    /\ p.arg_type = IF m.count > 0 THEN 4 ELSE 3
    BY <1>6
  <2>2. Advanced(r, w, m) /\ r.arg_type = IF m.count > 0 THEN 4 ELSE 3
    BY <1>3, <2>1
  <2> QED BY <2>1, <2>2, HearArgs
<1>7. CASE \E t, text, q :
             TextReply(M, t, text) /\ Onward(p, w, M, q) /\ InText(p, text, q) /\ p.arg_type = t
  <2>1. PICK t, text, q :
          TextReply(M, t, text) /\ Onward(p, w, M, q) /\ InText(p, text, q) /\ p.arg_type = t
    BY <1>7
  <2>2. Told(r, w, M, text) /\ r.arg_type = t
    BY <1>4, <2>1
  <2> QED BY <2>1, <2>2, HearText
<1> QED BY <1>5, <1>6, <1>7 DEF Hearing

\* Reading a chunk moves bytes from the way to the buffer.
LEMMA FedOn ==
  ASSUME NEW p, NEW w, NEW M, NEW q, Onward(p, w, M, q), p.buf = <<>>, NEW n \in 1..Len(w),
         NEW r, r = Fed(p, SubSeq(w, 1, n))
  PROVE  /\ Onward(r, SubSeq(w, n + 1, Len(w)), M, q) /\ r.buf # <<>> /\ r.carg = p.carg /\ Alike(r, p)
<1>1. /\ p \in Parser /\ p.error = FALSE /\ q \in Nat /\ w \in Seq(Symbol) /\ M \in Seq(Symbol)
      /\ Len(M) = q + Len(w) /\ \A i \in 1..Len(w) : w[i] = M[q + i]
  <2>1. Len(<<>>) = 0
    OBVIOUS
  <2>2. p \in Parser /\ p.error = FALSE /\ Ahead(<<>>, w, M, q)
    BY DEF Onward
  <2>3. /\ q \in Nat /\ w \in Seq(Symbol) /\ M \in Seq(Symbol) /\ Len(M) = q + 0 + Len(w)
        /\ \A i \in 1..Len(w) : w[i] = M[q + 0 + i]
    BY <2>1, <2>2 DEF Ahead
  <2>4. q + 0 = q /\ \A i \in 1..Len(w) : q + 0 + i = q + i
    BY <2>3
  <2> QED BY <2>2, <2>3, <2>4
<1>2. Len(w) \in Nat /\ n \in 0..Len(w)
  BY <1>1
<1>3. PICK b \in Seq(Symbol) : b = SubSeq(w, 1, n) /\ Len(b) = n /\ \A i \in 1..n : b[i] = w[i]
  <2>1. SubSeq(w, 1, n) \in Seq(Symbol)
    BY <1>1, <1>2, Taken
  <2>2. Len(SubSeq(w, 1, n)) = n /\ \A i \in 1..n : SubSeq(w, 1, n)[i] = w[i]
    BY <1>1, <1>2, Taken
  <2> QED BY <2>1, <2>2
<1>4. PICK v \in Seq(Symbol) : /\ v = SubSeq(w, n + 1, Len(w)) /\ Len(v) = Len(w) - n
                               /\ \A i \in 1..(Len(w) - n) : v[i] = w[n + i]
  <2>1. SubSeq(w, n + 1, Len(w)) \in Seq(Symbol)
    BY <1>1, <1>2, Rested
  <2>2. /\ Len(SubSeq(w, n + 1, Len(w))) = Len(w) - n
        /\ \A i \in 1..(Len(w) - n) : SubSeq(w, n + 1, Len(w))[i] = w[n + i]
    BY <1>1, <1>2, Rested
  <2> QED BY <2>1, <2>2
<1>5. /\ r \in Parser /\ r.buf = b /\ r.last = NONE /\ r.error = p.error /\ r.carg = p.carg /\ Alike(r, p)
  BY <1>1, <1>3, LineEnds DEF Fed, Parser, Alike
<1>6. Ahead(b, v, M, q)
  <2>1. Len(M) = q + Len(b) + Len(v)
    BY <1>1, <1>2, <1>3, <1>4
  <2>2. \A i \in 1..Len(b) : b[i] = M[q + i]
    BY <1>1, <1>2, <1>3
  <2>3. ASSUME NEW i \in 1..Len(v) PROVE v[i] = M[q + Len(b) + i]
    <3>1. n + i \in 1..Len(w) /\ q + (n + i) = q + Len(b) + i
      BY <1>1, <1>2, <1>3, <1>4
    <3>2. v[i] = w[n + i]
      BY <1>4
    <3>3. w[n + i] = M[q + (n + i)]
      BY <1>1, <3>1
    <3> QED BY <3>1, <3>2, <3>3
  <2> QED BY <1>1, <2>1, <2>2, <2>3 DEF Ahead
<1>7. Onward(r, v, M, q)
  BY <1>1, <1>5, <1>6 DEF Onward
<1>8. r.buf # <<>>
  <2>1. Len(b) > 0
    BY <1>3
  <2>2. b # <<>>
    BY <2>1
  <2> QED BY <1>5, <2>2
<1> QED BY <1>4, <1>5, <1>7, <1>8

\* Where the parser is does not change by it.
LEMMA StagesKept ==
  ASSUME NEW p, NEW r, Alike(r, p), r.carg = p.carg, NEW m, NEW q
  PROVE  /\ Stages(p, m, q) => Stages(r, m, q)
         /\ Fresh(p) => Fresh(r)
         /\ \A text : InText(p, text, q) => InText(r, text, q)
<1>1. Stages(p, m, q) => Stages(r, m, q)
  BY DEF Stages, InCount, AtArg, InLength, InArg, Got, Alike
<1>2. Fresh(p) => Fresh(r)
  BY DEF Fresh, Alike
<1>3. \A text : InText(p, text, q) => InText(r, text, q)
  BY DEF InText, Alike
<1> QED BY <1>1, <1>2, <1>3

\* Reading a chunk of a command ...
LEMMA ObeyFed ==
  ASSUME NEW p, NEW w, NEW args, Obeying(p, w, args), p.buf = <<>>, NEW n \in 1..Len(w),
         NEW r, r = Fed(p, SubSeq(w, 1, n))
  PROVE  Obeying(r, SubSeq(w, n + 1, Len(w)), args) /\ r.buf # <<>>
<1>1. PICK m, q : /\ Counted(m) /\ m.args = args /\ Onward(p, w, m.bytes, q)
                  /\ (Fresh(p) /\ q = 0) \/ Stages(p, m, q)
  BY DEF Obeying
<1>2. PICK v : v = SubSeq(w, n + 1, Len(w))
  OBVIOUS
<1>3. /\ Onward(r, v, m.bytes, q) /\ r.buf # <<>> /\ r.carg = p.carg /\ Alike(r, p)
  BY <1>1, <1>2, FedOn
<1>4. (Fresh(r) /\ q = 0) \/ Stages(r, m, q)
  BY <1>1, <1>3, StagesKept
<1>5. Obeying(r, v, args)
  BY <1>1, <1>3, <1>4 DEF Obeying
<1> QED BY <1>2, <1>3, <1>5

\* ... and of a reply.
LEMMA HearFed ==
  ASSUME NEW p, NEW w, NEW M, Hearing(p, w, M), p.buf = <<>>, NEW n \in 1..Len(w),
         NEW r, r = Fed(p, SubSeq(w, 1, n))
  PROVE  Hearing(r, SubSeq(w, n + 1, Len(w)), M) /\ r.buf # <<>>
<1>1. PICK v : v = SubSeq(w, n + 1, Len(w))
  OBVIOUS
<1>2. ASSUME NEW q, Onward(p, w, M, q)
      PROVE  /\ Onward(r, v, M, q) /\ r.buf # <<>> /\ r.arg_type = p.arg_type
             /\ (Fresh(p) => Fresh(r)) /\ \A m : Stages(p, m, q) => Stages(r, m, q)
             /\ \A text : InText(p, text, q) => InText(r, text, q)
  <2>1. /\ Onward(r, v, M, q) /\ r.buf # <<>> /\ r.carg = p.carg /\ Alike(r, p)
    BY <1>1, <1>2, FedOn
  <2>2. (Fresh(p) => Fresh(r)) /\ \A text : InText(p, text, q) => InText(r, text, q)
    BY <2>1, StagesKept
  <2>3. \A m : Stages(p, m, q) => Stages(r, m, q)
    BY <2>1, StagesKept
  <2> QED BY <2>1, <2>2, <2>3 DEF Alike
<1>3. CASE Proper(M) /\ Onward(p, w, M, 0) /\ Fresh(p)
  BY <1>1, <1>2, <1>3 DEF Hearing
<1>4. CASE \E m, q : /\ ArgsReply(M, m) /\ Onward(p, w, M, q) /\ Stages(p, m, q)
                     /\ p.arg_type = IF m.count > 0 THEN 4 ELSE 3
  <2>1. PICK m, q : /\ ArgsReply(M, m) /\ Onward(p, w, M, q) /\ Stages(p, m, q)
                    /\ p.arg_type = IF m.count > 0 THEN 4 ELSE 3
    BY <1>4
  <2>2. Onward(r, v, M, q) /\ r.buf # <<>> /\ Stages(r, m, q) /\ r.arg_type = p.arg_type
    BY <1>2, <2>1
  <2>3. Hearing(r, v, M)
    BY <2>1, <2>2 DEF Hearing
  <2> QED BY <1>1, <2>2, <2>3
<1>5. CASE \E t, text, q :
             TextReply(M, t, text) /\ Onward(p, w, M, q) /\ InText(p, text, q) /\ p.arg_type = t
  <2>1. PICK t, text, q :
          TextReply(M, t, text) /\ Onward(p, w, M, q) /\ InText(p, text, q) /\ p.arg_type = t
    BY <1>5
  <2>2. Onward(r, v, M, q) /\ r.buf # <<>> /\ InText(r, text, q) /\ r.arg_type = p.arg_type
    BY <1>2, <2>1
  <2>3. Hearing(r, v, M)
    BY <2>1, <2>2 DEF Hearing
  <2> QED BY <1>1, <2>2, <2>3
<1> QED BY <1>3, <1>4, <1>5 DEF Hearing
-----------------------------------------------------------------------------
(* What the session writes.                                                  *)

\* A command's arguments are of bytes.
LEMMA CommandArgs ==
  ASSUME NEW c \in Command
  PROVE  c \in Args
<1>1. c \in Seq(Seq(Bytes) \ {<<>>}) /\ c # <<>>
  BY DEF Command
<1>2. Bytes \subseteq Symbol
  BY DEF Symbol
<1>3. \A a \in Seq(Bytes) : a \in Seq(Symbol)
  <2> SUFFICES ASSUME NEW a \in Seq(Bytes) PROVE a \in Seq(Symbol)
    OBVIOUS
  <2>1. Len(a) \in Nat /\ a \in [1..Len(a) -> Bytes]
    OBVIOUS
  <2>2. a \in [1..Len(a) -> Symbol]
    BY <1>2, <2>1
  <2> QED BY <2>1, <2>2
<1>4. Len(c) \in Nat /\ c \in [1..Len(c) -> Seq(Bytes) \ {<<>>}]
  BY <1>1
<1>5. c \in [1..Len(c) -> Seq(Symbol) \ {<<>>}]
  BY <1>3, <1>4
<1>6. c \in Seq(Seq(Symbol) \ {<<>>})
  BY <1>4, <1>5
<1> QED BY <1>1, <1>6 DEF Args

\* Arguments are a reply ...
LEMMA ProperArgs ==
  ASSUME NEW args \in Args, ~ResultError(args)
  PROVE  Proper(BuildArgs(args))
<1>1. PICK m : Counted(m) /\ m.args = args /\ m.bytes = BuildArgs(args)
  BY CountedBuilt
<1>2. m.count > 0
  BY <1>1, ArgsType DEF Counted
<1>3. Meant(BuildArgs(args), IF m.count > 0 THEN 4 ELSE 3, m.args)
  BY <1>1, <1>2 DEF Meant
<1>4. ArgsReply(BuildArgs(args), m)
  BY <1>1, <1>3 DEF ArgsReply, OfArgs
<1> QED BY <1>4 DEF Proper

\* ... and so is one ...
LEMMA ProperOne ==
  ASSUME NEW a \in Seq(Symbol), a # <<>>
  PROVE  Proper(BuildReply(TRUE, <<>>, <<a>>))
<1>1. PICK m : Single(m) /\ m.args = <<a>> /\ m.bytes = BuildArg(a)
  BY SingleBuilt
<1>2. BuildReply(TRUE, <<>>, <<a>>) = BuildArg(a)
  BY DEF BuildReply
<1>3. PICK M : M = BuildReply(TRUE, <<>>, <<a>>)
  OBVIOUS
<1>4. m.count = 0 /\ m.bytes = M
  BY <1>1, <1>2, <1>3 DEF Single
<1>5. Meant(M, IF m.count > 0 THEN 4 ELSE 3, m.args)
  <2>1. M \in Seq(Symbol) /\ M[1] = "$" /\ Len(M) = Len(Decimal(Len(a))) + Len(a) + 5
    BY <1>2, <1>3, ArgWritten
  <2>2. Head(M) = "$"
    BY <2>1
  <2> QED BY <1>4, <2>2 DEF Meant
<1>6. ArgsReply(M, m)
  BY <1>1, <1>4, <1>5 DEF ArgsReply, OfArgs
<1> QED BY <1>3, <1>6 DEF Proper

\* ... and a line of text with its sign.
LEMMA ProperText ==
  ASSUME NEW text \in Seq(Symbol), \A i \in 1..Len(text) : text[i] \notin {CR, LF}, NEW t \in {1, 2}
  PROVE  Proper(BuildReply(t = 1, text, <<>>))
<1>1. PICK a \in Seq(Symbol) : a = <<Sign(t)>>
  <2>1. PICK b \in Symbol : b = Sign(t)
    BY DEF Sign, Symbol
  <2>2. <<b>> \in Seq(Symbol)
    OBVIOUS
  <2> QED BY <2>1, <2>2
<1>2. Len(a) = 1 /\ a[1] = Sign(t) /\ 1 \in 1..Len(a)
  BY <1>1
<1>3. PICK M : M = (a \o text) \o <<CR, LF>>
  OBVIOUS
<1>4. M \in Seq(Symbol) /\ Len(M) = Len(a) + Len(text) + 2 /\ Begins(M, a) /\ LineAt(M, Len(a), text)
  BY <1>3, LineWritten
<1>5. M = BuildReply(t = 1, text, <<>>)
  BY <1>1, <1>3 DEF BuildReply, Sign
<1>6. M[1] = Sign(t) /\ Len(M) = Len(text) + 3
  BY <1>2, <1>4 DEF Begins
<1>7. TextAt(M, t, text)
  BY <1>2, <1>4, <1>6 DEF TextAt
<1>8. Meant(M, t, <<text>>)
  <2>1. <<text>>[1] = text
    OBVIOUS
  <2>2. CASE t = 1
    <3>1. Head(M) = M[1]
      BY <1>4
    <3>2. Head(M) = "+"
      BY <1>6, <2>2, <3>1 DEF Sign
    <3> QED BY <2>2, <3>2 DEF Meant
  <2>3. CASE t = 2
    <3>1. (t = 1) = FALSE
      BY <2>3
    <3> QED BY <1>5, <2>1, <2>3, <3>1 DEF Meant
  <2> QED BY <2>2, <2>3
<1>9. TextReply(M, t, text)
  BY <1>7, <1>8 DEF TextReply
<1> QED BY <1>5, <1>9 DEF Proper

\* The texts there are.
LEMMA Texts ==
  /\ Proper(BuildReply(TRUE, OK, <<>>)) /\ Proper(BuildReply(TRUE, PONG, <<>>))
  /\ Proper(BuildReply(FALSE, ERR, <<>>))
<1>1. /\ OK \in Seq(Symbol) /\ PONG \in Seq(Symbol) /\ ERR \in Seq(Symbol)
  BY DEF OK, PONG, ERR, Symbol
<1>2. /\ \A i \in 1..Len(OK) : OK[i] \notin {CR, LF}
      /\ \A i \in 1..Len(PONG) : PONG[i] \notin {CR, LF}
      /\ \A i \in 1..Len(ERR) : ERR[i] \notin {CR, LF}
  BY DEF OK, PONG, ERR, CR, LF
<1>3. (1 = 1) = TRUE /\ (2 = 1) = FALSE /\ 1 \in {1, 2} /\ 2 \in {1, 2}
  OBVIOUS
<1>4. Proper(BuildReply(1 = 1, OK, <<>>)) /\ Proper(BuildReply(1 = 1, PONG, <<>>))
  BY <1>1, <1>2, <1>3, ProperText
<1>5. Proper(BuildReply(2 = 1, ERR, <<>>))
  BY <1>1, <1>2, <1>3, ProperText
<1> QED BY <1>3, <1>4, <1>5

\* The tail of two is the second.
LEMMA SecondOfTwo ==
  ASSUME NEW S, NEW u \in Seq(S), Len(u) = 2
  PROVE  Tail(u) = <<u[2]>>
<1>1. PICK t : t = Tail(u)
  OBVIOUS
<1>2. u # <<>> /\ u[2] \in S
  OBVIOUS
<1>3. t \in Seq(S) /\ Len(t) = 1
  BY <1>1, <1>2
<1>4. t[1] = u[2]
  <2>1. \A i \in 1..(Len(u) - 1) : Tail(u)[i] = u[i + 1]
    BY <1>2
  <2>2. 1 \in 1..(Len(u) - 1) /\ 1 + 1 = 2
    OBVIOUS
  <2> QED BY <1>1, <2>1, <2>2
<1>5. PICK v : v = <<u[2]>>
  OBVIOUS
<1>6. v \in Seq(S) /\ Len(v) = 1 /\ v[1] = u[2]
  BY <1>2, <1>5
<1>7. Len(t) = Len(v) /\ \A i \in 1..Len(t) : t[i] = v[i]
  BY <1>3, <1>4, <1>6
<1>8. t = v
  BY <1>3, <1>6, <1>7, SeqEqual
<1> QED BY <1>1, <1>5, <1>8

\* What the handlers that do not wait write is a reply.
LEMMA OtherProper ==
  ASSUME NEW args \in Args
  PROVE  Proper(OtherReply(args))
<1>1. CASE args[1] \in {ECHO, PING} /\ Len(args) = 2
  <2>1. OtherReply(args) = BuildReply(TRUE, <<>>, Tail(args))
    <3>1. args # <<PING>>
      BY <1>1
    <3>2. ~(args[1] = QUIT \/ (args[1] = SELECT /\ Len(args) >= 2))
      BY <1>1 DEF ECHO, PING, QUIT, SELECT
    <3> QED BY <1>1, <3>1, <3>2 DEF OtherReply
  <2>2. args[2] \in Seq(Symbol) /\ args[2] # <<>>
    <3>1. 2 \in 1..Len(args)
      BY <1>1
    <3>2. args[2] \in Seq(Symbol) /\ Len(args[2]) > 0
      BY <3>1, ArgsType
    <3> QED BY <3>2
  <2>3. Tail(args) = <<args[2]>>
    <3>1. args \in Seq(Seq(Symbol) \ {<<>>})
      BY DEF Args
    <3>2. PICK S : S = Seq(Symbol) \ {<<>>}
      OBVIOUS
    <3>3. PICK u \in Seq(S) : u = args
      BY <3>1, <3>2
    <3>4. Tail(u) = <<u[2]>>
      BY <1>1, <3>3, SecondOfTwo
    <3> QED BY <3>3, <3>4
  <2> QED BY <2>1, <2>2, <2>3, ProperOne
<1>2. CASE ~(args[1] \in {ECHO, PING} /\ Len(args) = 2)
  <2>1. OtherReply(args) \in {BuildReply(TRUE, PONG, <<>>), BuildReply(TRUE, OK, <<>>), BuildReply(FALSE, ERR, <<>>)}
    BY <1>2 DEF OtherReply
  <2> QED BY <2>1, Texts
<1> QED BY <1>1, <1>2

\* So is what LOCK and UNLOCK write.
LEMMA ResultProper ==
  ASSUME NEW g \in [request : Nat, result : {"0", "1", "2"}]
  PROVE  Proper(BuildReply(TRUE, <<>>, ResultArgs(g)))
<1>1. PICK d : d = Decimal(g.request)
  OBVIOUS
<1>2. d \in Seq(Symbol) /\ d # <<>>
  <2>1. Numeral(d, g.request)
    BY <1>1, DecimalNumeral
  <2>2. d \in Seq(Symbol) /\ Len(d) > 0
    BY <2>1 DEF Numeral
  <2> QED BY <2>2
<1>3. PICK b : b = g.result
  OBVIOUS
<1>4. /\ <<b>> \in Seq(Symbol) /\ LOCK_ID \in Seq(Symbol) /\ <<b>> # <<>> /\ LOCK_ID # <<>>
      /\ OK \in Seq(Symbol) /\ ERR \in Seq(Symbol) /\ OK # <<>> /\ ERR # <<>>
  BY <1>3 DEF Symbol, LOCK_ID, OK, ERR
<1>5. PICK args : args = ResultArgs(g)
  OBVIOUS
<1>6. PICK x, e, y, z \in Seq(Symbol) \ {<<>>} : x = <<b>> /\ e = ErrorMsg(b) /\ y = LOCK_ID /\ z = d
  BY <1>2, <1>4 DEF ErrorMsg
<1>7. args = <<x, e, y, z>>
  BY <1>1, <1>3, <1>5, <1>6 DEF ResultArgs
<1>8. args \in Args /\ Len(args) = 4 /\ args[1] = x
  <2>1. PICK S : S = Seq(Symbol) \ {<<>>}
    OBVIOUS
  <2>2. <<x, e, y, z>> \in Seq(S) /\ <<x, e, y, z>> # <<>>
    BY <1>6, <2>1
  <2> QED BY <1>7, <2>1, <2>2 DEF Args
<1>9. ~ResultError(args)
  <2>1. IsDigit(b)
    <3>1. Digits[1] = "0" /\ Digits[2] = "1" /\ Digits[3] = "2" /\ {1, 2, 3} \subseteq DOMAIN Digits
      BY DEF Digits
    <3> QED BY <1>3, <3>1 DEF IsDigit
  <2>2. IsNumber(x)
    <3>1. \A i \in DOMAIN <<b>> : <<b>>[i] = b
      OBVIOUS
    <3> QED BY <1>6, <2>1, <3>1 DEF IsNumber
  <2> QED BY <1>8, <2>2 DEF ResultError
<1>10. BuildReply(TRUE, <<>>, args) = BuildArgs(args)
  <2>1. args # <<>>
    BY <1>7
  <2> QED BY <1>8, <2>1 DEF BuildReply
<1> QED BY <1>5, <1>8, <1>9, <1>10, ProperArgs

\* A reply is of bytes.
LEMMA ProperBytes ==
  ASSUME NEW M, Proper(M)
  PROVE  M \in Seq(Symbol)
<1>1. ASSUME NEW m, ArgsReply(M, m) PROVE M \in Seq(Symbol)
  BY <1>1 DEF ArgsReply, OfArgs, Counted, Single, Laid
<1>2. ASSUME NEW t, NEW text, TextReply(M, t, text) PROVE M \in Seq(Symbol)
  BY <1>2 DEF TextReply, TextAt
<1> QED BY <1>1, <1>2 DEF Proper

\* The parser between messages.
Idle(p) == p \in Parser /\ Fresh(p) /\ p.buf = <<>> /\ p.error = FALSE

\* A message is on its way to it.
LEMMA OnwardIdle ==
  ASSUME NEW p, Idle(p), NEW M \in Seq(Symbol)
  PROVE  Onward(p, M, M, 0)
<1>1. p \in Parser /\ p.buf = <<>> /\ p.error = FALSE
  BY DEF Idle
<1>2. Ahead(<<>>, M, M, 0)
  <2>1. Len(<<>>) = 0 /\ Len(M) \in Nat
    OBVIOUS
  <2>2. Len(M) = 0 + Len(<<>>) + Len(M) /\ \A i \in 1..Len(M) : 0 + Len(<<>>) + i = i
    BY <2>1
  <2>3. \A i \in 1..Len(<<>>) : <<>>[i] = M[0 + i]
    BY <2>1
  <2> QED BY <2>2, <2>3 DEF Ahead
<1> QED BY <1>1, <1>2 DEF Onward

\* A command is sent to an idle parser ...
LEMMA ObeyBegins ==
  ASSUME NEW p, Idle(p), NEW c \in Command
  PROVE  Obeying(p, BuildArgs(c), c)
<1>1. PICK m : Counted(m) /\ m.args = c /\ m.bytes = BuildArgs(c)
  BY CommandArgs, CountedBuilt
<1>2. m.bytes \in Seq(Symbol)
  BY <1>1 DEF Counted, Laid
<1>3. Onward(p, m.bytes, m.bytes, 0)
  BY <1>2, OnwardIdle
<1>4. Fresh(p)
  BY DEF Idle
<1> QED BY <1>1, <1>3, <1>4 DEF Obeying

\* ... and so is a reply.
LEMMA HearBegins ==
  ASSUME NEW p, Idle(p), NEW M, Proper(M)
  PROVE  Hearing(p, M, M)
<1>1. Onward(p, M, M, 0)
  BY ProperBytes, OnwardIdle
<1> QED BY <1>1 DEF Hearing, Idle

\* When a message is parsed the parser is idle again.
LEMMA ClearedIdle ==
  ASSUME NEW p, NEW args, Complete(p, args)
  PROVE  Idle(Cleared(p))
<1>1. /\ p \in Parser /\ p.stage = 0 /\ p.carg = <<>> /\ p.carg_index = 0 /\ p.carg_len = 0
      /\ p.buf = <<>> /\ p.error = FALSE
  BY DEF Complete
<1>2. /\ Cleared(p) \in Parser /\ Cleared(p).args = <<>> /\ Cleared(p).args_count = 0
      /\ Cleared(p).stage = 0 /\ Cleared(p).carg = <<>> /\ Cleared(p).carg_index = 0
      /\ Cleared(p).carg_len = 0 /\ Cleared(p).buf = <<>> /\ Cleared(p).error = FALSE
  BY <1>1, FieldValues DEF Cleared, Parser
<1> QED BY <1>2 DEF Idle, Fresh
-----------------------------------------------------------------------------
(* The session: one command or one reply is on its way.                      *)

\* What the client's Read returned for a reply.
Received == [error : BOOLEAN, args : Seq(Seq(Symbol))]

\* The client's parser when a reply may start after what an earlier one left.
Leftover(p) == p \in Parser /\ p.error = FALSE /\ p.stage = 0 /\ p.args # <<>>

\* It has nothing to parse.
Resting(p) == Idle(p) \/ (Leftover(p) /\ p.buf = <<>>)

StreamTypes ==
  /\ script \in Scripts /\ sent \in 0..Len(script)
  /\ at \in {"read", "parse", "run", "wait", "end"}
  /\ parser \in Parser /\ parser.error = FALSE /\ replies \in Seq(Seq(Symbol))

ClientTypes == reader \in Parser /\ reader.error = FALSE /\ results \in Seq(Received)

\* Every command that was sent has its reply, and the client has it.
Quiet ==
  /\ Len(results) = Len(replies) /\ Len(replies) = sent /\ toServer = <<>> /\ toClient = <<>>
  /\ Idle(parser) /\ Resting(reader) /\ at \in {"read", "end"}

\* The last command is on its way, ...
Coming ==
  /\ Len(results) = Len(replies) /\ Len(replies) + 1 = sent /\ toClient = <<>> /\ Resting(reader)
  /\ Obeying(parser, toServer, script[sent])
  /\ (at = "parse" /\ parser.buf # <<>>) \/ (at \in {"read", "end"} /\ parser.buf = <<>>)

\* ... its handler has it, ...
InHand ==
  /\ Len(results) = Len(replies) /\ Len(replies) + 1 = sent /\ toClient = <<>> /\ Resting(reader)
  /\ toServer = <<>> /\ Complete(parser, script[sent]) /\ at \in {"run", "wait"}

\* ... or its reply is on its way.
Answered ==
  /\ Len(results) + 1 = Len(replies) /\ Len(replies) = sent /\ toServer = <<>> /\ Idle(parser)
  /\ at \in {"read", "end"}
  /\ Hearing(reader, toClient, replies[Len(replies)]) \/ (Leftover(reader) /\ toClient \in Seq(Symbol))

\* What Read makes of the reply M.
Returned(M, h) ==
  \/ ~h.error /\ M = BuildArgs(h.args)
  \/ h.error /\ h.args # <<>> /\ M = BuildReply(FALSE, h.args[1], <<>>)
  \/ h.error /\ h.args = <<>> /\ Head(M) \in {"+", "$"}

AllMeant == \A i \in 1..Len(results) : Returned(replies[i], results[i])

\* A reply that is parsed after what another left finds the session idle.
Streams ==
  /\ StreamTypes /\ (~stale => ClientTypes) /\ (stale => at \notin {"run", "wait"})
  /\ ~miscounted /\ ~stale => (Quiet \/ Coming \/ InHand \/ Answered) /\ AllMeant

\* A reply that was heard is returned as it was meant.
LEMMA HeardReturned ==
  ASSUME NEW r, NEW M, Heard(r, M)
  PROVE  ResultOf(r) \in Received /\ Returned(M, ResultOf(r))
<1>1. r \in Parser /\ r.args # <<>> /\ Meant(M, r.arg_type, r.args)
  BY DEF Heard, Complete
<1>2. PICK a \in Seq(Seq(Symbol)) : a = r.args
  BY <1>1 DEF Parser
<1>3. PICK e : e = (r.arg_type # 4 \/ ResultError(r.args))
  OBVIOUS
<1>4. PICK u : u = CASE r.arg_type = 4 -> r.args [] r.arg_type = 2 -> <<r.args[1]>> [] OTHER -> <<>>
  OBVIOUS
<1>5. PICK h : h = ResultOf(r)
  OBVIOUS
<1>6. h = [error |-> e, args |-> u]
  BY <1>3, <1>4, <1>5 DEF ResultOf
<1>7. h.error = e /\ h.args = u
  BY <1>6
<1>8. e \in BOOLEAN
  BY <1>3
<1>9. CASE r.arg_type = 4
  <2>1. ~ResultError(r.args) /\ M = BuildArgs(a)
    BY <1>1, <1>2, <1>9 DEF Meant
  <2>2. e = FALSE
    BY <1>3, <1>9, <2>1
  <2>3. u = a
    BY <1>2, <1>4, <1>9
  <2>4. h \in Received
    BY <1>2, <1>6, <1>8, <2>3 DEF Received
  <2> QED BY <1>5, <1>7, <2>1, <2>2, <2>3, <2>4 DEF Returned
<1>10. CASE r.arg_type = 2
  <2>1. e = TRUE
    <3>1. r.arg_type # 4
      BY <1>10
    <3> QED BY <1>3, <3>1
  <2>2. u = <<a[1]>>
    BY <1>2, <1>4, <1>10
  <2>3. a[1] \in Seq(Symbol)
    BY <1>1, <1>2
  <2>4. PICK b \in Seq(Symbol) : b = a[1]
    BY <2>3
  <2>5. u = <<b>> /\ u \in Seq(Seq(Symbol)) /\ u # <<>> /\ u[1] = b
    BY <2>2, <2>4
  <2>6. h \in Received
    BY <1>6, <1>8, <2>5 DEF Received
  <2>7. M = BuildReply(FALSE, b, <<>>)
    BY <1>1, <1>2, <1>10, <2>4 DEF Meant
  <2> QED BY <1>5, <1>7, <2>1, <2>5, <2>6, <2>7 DEF Returned
<1>11. CASE r.arg_type \in {1, 3}
  <2>1. e = TRUE
    <3>1. r.arg_type # 4
      BY <1>11
    <3> QED BY <1>3, <3>1
  <2>2. u = <<>>
    BY <1>4, <1>11
  <2>3. Head(M) \in {"+", "$"}
    <3>1. r.arg_type # 4 /\ r.arg_type # 2
      BY <1>11
    <3>2. Meant(M, r.arg_type, r.args)
      BY <1>1
    <3> QED BY <3>1, <3>2, Zenon DEF Meant
  <2>4. h \in Received
    BY <1>6, <1>8, <2>2 DEF Received
  <2> QED BY <1>5, <1>7, <2>1, <2>2, <2>3, <2>4 DEF Returned
<1> QED BY <1>1, <1>9, <1>10, <1>11 DEF Meant

\* The parser is on its way through a reply: nothing was left.
LEMMA HearingNotStale ==
  ASSUME NEW p, NEW w, NEW M, Hearing(p, w, M)
  PROVE  ~(p.stage = 0 /\ p.args # <<>>)
<1>1. CASE Fresh(p)
  BY <1>1 DEF Fresh
<1>2. CASE p.stage # 0
  BY <1>2
<1> QED BY <1>1, <1>2, StagesInside DEF Hearing, InText

\* A script's commands.
LEMMA ScriptCommands ==
  ASSUME NEW s \in Scripts
  PROVE  /\ s \in Seq(Command) /\ Len(s) \in Nat /\ Len(s) \in 1..MaxLines /\ MaxLines \in Nat
         /\ \A i \in 1..Len(s) : s[i] \in Command
<1>1. s \in Seq(Command) /\ Len(s) \in 1..MaxLines /\ MaxLines \in Nat
  BY TextConstants DEF Lines
<1> QED BY <1>1

\* Nothing is on its way at first.
LEMMA StreamsInit == Init => Streams
<1> SUFFICES ASSUME Init PROVE Streams
  OBVIOUS
<1>1. PICK p : p = NewParser
  OBVIOUS
<1>2. p \in Parser /\ p.stage = 0 /\ p.args = <<>> /\ p.args_count = 0 /\ p.carg = <<>> /\ p.carg_index = 0
      /\ p.carg_len = 0 /\ p.buf = <<>> /\ p.error = FALSE
  BY <1>1, FieldValues, LineEnds DEF NewParser, Parser
<1>3. Idle(p)
  BY <1>2 DEF Idle, Fresh
<1>4. /\ script \in Scripts /\ sent = 0 /\ toServer = <<>> /\ toClient = <<>>
      /\ parser = p /\ reader = p /\ replies = <<>> /\ results = <<>> /\ at = "read"
  BY <1>1 DEF Init
<1>5. Len(script) \in Nat
  BY <1>4, ScriptCommands
<1>6. StreamTypes /\ ClientTypes /\ at \notin {"run", "wait"}
  BY <1>2, <1>4, <1>5 DEF StreamTypes, ClientTypes
<1>7. Quiet /\ AllMeant
  BY <1>3, <1>4 DEF Quiet, AllMeant, Resting
<1> QED BY <1>6, <1>7 DEF Streams

\* The client sends a command.
LEMMA SendStreams ==
  ASSUME Streams, ~miscounted, ~stale, Send
  PROVE  Streams'
<1>1. StreamTypes /\ ClientTypes /\ (Quiet \/ Coming \/ InHand \/ Answered) /\ AllMeant
  BY DEF Streams
<1>2. /\ sent < Len(script) /\ Len(results) = sent /\ toServer' = BuildArgs(script[sent + 1]) /\ sent' = sent + 1
      /\ UNCHANGED <<script, toClient, replies, results, reader, parser, at, stale>>
  BY DEF Send
<1>3. Len(script) \in Nat /\ script \in Scripts /\ sent \in 0..Len(script)
  BY <1>1, ScriptCommands DEF StreamTypes
<1>4. sent + 1 \in 1..Len(script)
  BY <1>2, <1>3
<1>5. Quiet
  <2>1. Len(replies) \in Nat
    BY <1>1 DEF StreamTypes
  <2> QED BY <1>1, <1>2, <1>3, <2>1 DEF Coming, InHand, Answered
<1>6. script[sent + 1] \in Command
  BY <1>3, <1>4, ScriptCommands
<1>7. Obeying(parser, BuildArgs(script[sent + 1]), script[sent + 1])
  BY <1>5, <1>6, ObeyBegins DEF Quiet
<1>8. StreamTypes' /\ ClientTypes'
  BY <1>1, <1>2, <1>3, <1>4 DEF StreamTypes, ClientTypes
<1>9. Coming'
  <2>1. parser.buf = <<>>
    BY <1>5 DEF Quiet, Idle
  <2>2. Obeying(parser', toServer', script'[sent'])
    BY <1>2, <1>7
  <2> QED BY <1>2, <1>5, <2>1, <2>2 DEF Quiet, Coming
<1>10. AllMeant'
  BY <1>1, <1>2 DEF AllMeant
<1> QED BY <1>2, <1>8, <1>9, <1>10 DEF Streams

\* It reads of a reply.
LEMMA ReadReplyStreams ==
  ASSUME Streams, ~miscounted, ~stale, NEW n, ReadReply(n)
  PROVE  Streams'
<1>1. StreamTypes /\ ClientTypes /\ (Quiet \/ Coming \/ InHand \/ Answered) /\ AllMeant
  BY DEF Streams
<1>2. /\ reader.buf = <<>> /\ n \in 1..MaxChunk /\ n <= Len(toClient)
      /\ reader' = Fed(reader, SubSeq(toClient, 1, n)) /\ toClient' = SubSeq(toClient, n + 1, Len(toClient))
      /\ UNCHANGED <<script, sent, toServer, replies, results, parser, at, miscounted, stale>>
  BY DEF ReadReply, Chunk, Rest
<1>3. n \in Nat /\ n > 0
  BY <1>2, TextConstants
<1>4. Answered
  <2>1. toClient # <<>>
    BY <1>2, <1>3
  <2> QED BY <1>1, <2>1 DEF Quiet, Coming, InHand
<1>5. PICK M : M = replies[Len(replies)]
  OBVIOUS
<1>6. toClient \in Seq(Symbol) /\ n \in 1..Len(toClient)
  <2>1. toClient \in Seq(Symbol)
    BY <1>4 DEF Answered, Hearing, Onward, Ahead
  <2> QED BY <1>2, <1>3, <2>1
<1>8. ASSUME Leftover(reader) PROVE Leftover(reader') /\ toClient' \in Seq(Symbol)
  <2>1. PICK c \in Seq(Symbol) : c = SubSeq(toClient, 1, n)
    <3>1. n \in 0..Len(toClient)
      BY <1>6
    <3> QED BY <1>6, <3>1, Taken
  <2>2. reader' = [reader EXCEPT !.buf = c, !.last = NONE]
    BY <1>2, <2>1 DEF Fed
  <2>3. Leftover(reader')
    BY <1>8, <2>2, LineEnds DEF Leftover, Parser
  <2>4. toClient' \in Seq(Symbol)
    <3>1. n \in 0..Len(toClient)
      BY <1>6
    <3> QED BY <1>2, <1>6, <3>1, Rested
  <2> QED BY <2>3, <2>4
<1>9. /\ reader' \in Parser /\ reader'.error = FALSE
      /\ Hearing(reader', toClient', M) \/ (Leftover(reader') /\ toClient' \in Seq(Symbol))
  <2>1. CASE Hearing(reader, toClient, M)
    <3>1. Hearing(reader', toClient', M)
      BY <1>2, <1>6, <2>1, HearFed
    <3>2. reader' \in Parser /\ reader'.error = FALSE
      BY <3>1 DEF Hearing, Onward
    <3> QED BY <3>1, <3>2
  <2>2. CASE Leftover(reader)
    BY <1>8, <2>2 DEF Leftover
  <2> QED BY <1>4, <1>5, <2>1, <2>2 DEF Answered
<1>10. StreamTypes' /\ ClientTypes'
  BY <1>1, <1>2, <1>9 DEF StreamTypes, ClientTypes
<1>11. Answered'
  BY <1>2, <1>4, <1>5, <1>9 DEF Answered
<1>12. AllMeant'
  BY <1>1, <1>2 DEF AllMeant
<1> QED BY <1>2, <1>10, <1>11, <1>12 DEF Streams

\* It parses a byte or an argument of it.
LEMMA ParseReplyStreams ==
  ASSUME Streams, ~miscounted, ~stale, ParseReply
  PROVE  Streams'
<1>1. StreamTypes /\ ClientTypes /\ (Quiet \/ Coming \/ InHand \/ Answered) /\ AllMeant
  BY DEF Streams
<1>2. PICK r : r = Parsed(reader, ClientStart(reader))
  OBVIOUS
<1>3. /\ reader.buf # <<>>
      /\ results' = IF r.stage = 0 THEN Append(results, ResultOf(r)) ELSE results
      /\ reader' = IF r.stage = 0 /\ r.arg_type = 4 THEN Cleared(r) ELSE r
      /\ miscounted' = (miscounted \/ MisCounted(reader'))
      /\ stale' = (stale \/ (reader.stage = 0 /\ reader.args # <<>>))
      /\ UNCHANGED <<script, sent, toServer, toClient, replies, parser, at>>
  BY <1>2 DEF ParseReply
<1>4. Answered
  BY <1>1, <1>3 DEF Quiet, Coming, InHand, Idle, Resting
<1>5. PICK M : M = replies[Len(replies)]
  OBVIOUS
<1>6. StreamTypes' /\ at' \notin {"run", "wait"}
  BY <1>1, <1>3, <1>4 DEF StreamTypes, Answered
<1>7. CASE Leftover(reader)
  <2>1. stale'
    BY <1>3, <1>7 DEF Leftover
  <2> QED BY <1>6, <2>1 DEF Streams
<1>8. CASE Hearing(reader, toClient, M)
  <2>1. stale' = FALSE
    BY <1>3, <1>8, HearingNotStale
  <2>2. \/ r.stage # 0 /\ Hearing(r, toClient, M)
        \/ Heard(r, M) /\ toClient = <<>>
        \/ Wrong(r)
    BY <1>2, <1>3, <1>8, HearStep
  <2>3. CASE r.stage # 0 /\ Hearing(r, toClient, M)
    <3>1. reader' = r /\ UNCHANGED results
      BY <1>3, <2>3
    <3>2. r \in Parser /\ r.error = FALSE
      BY <2>3 DEF Hearing, Onward
    <3>3. ClientTypes'
      BY <1>1, <3>1, <3>2 DEF ClientTypes
    <3>4. Answered'
      BY <1>3, <1>4, <1>5, <2>3, <3>1 DEF Answered
    <3>5. AllMeant'
      BY <1>1, <1>3, <3>1 DEF AllMeant
    <3> QED BY <1>6, <2>1, <3>3, <3>4, <3>5 DEF Streams
  <2>4. CASE Heard(r, M) /\ toClient = <<>>
    <3>1. Complete(r, r.args) /\ r.args # <<>> /\ r.stage = 0 /\ r \in Parser /\ r.error = FALSE /\ r.buf = <<>>
      BY <2>4 DEF Heard, Complete
    <3>2. PICK h \in Received : h = ResultOf(r) /\ Returned(M, h)
      BY <2>4, HeardReturned
    <3>3. results' = Append(results, h)
      BY <1>3, <3>1, <3>2
    <3>4. Resting(reader') /\ reader' \in Parser /\ reader'.error = FALSE
      <4>1. CASE r.arg_type = 4
        <5>1. Idle(reader')
          BY <1>3, <3>1, <4>1, ClearedIdle
        <5> QED BY <5>1 DEF Resting, Idle
      <4>2. CASE r.arg_type # 4
        <5>1. reader' = r
          BY <1>3, <4>2
        <5> QED BY <3>1, <5>1 DEF Resting, Leftover
      <4> QED BY <4>1, <4>2
    <3>5. results \in Seq(Received) /\ replies \in Seq(Seq(Symbol))
      BY <1>1 DEF StreamTypes, ClientTypes
    <3>6. results' \in Seq(Received) /\ Len(results') = Len(results) + 1 /\ results'[Len(results) + 1] = h
          /\ \A i \in 1..Len(results) : results'[i] = results[i]
      BY <3>3, <3>5
    <3>7. ClientTypes'
      BY <3>4, <3>6 DEF ClientTypes
    <3>8. Quiet'
      BY <1>3, <1>4, <2>4, <3>4, <3>6 DEF Quiet, Answered
    <3>9. AllMeant'
      <4> SUFFICES ASSUME NEW i \in 1..Len(results') PROVE Returned(replies[i], results'[i])
        BY <1>3 DEF AllMeant
      <4>1. Len(results) + 1 = Len(replies) /\ Len(results) \in Nat
        BY <1>4, <3>5 DEF Answered
      <4>2. CASE i \in 1..Len(results)
        BY <1>1, <3>6, <4>2 DEF AllMeant
      <4>3. CASE i = Len(results) + 1
        BY <1>5, <3>2, <3>6, <4>1, <4>3
      <4> QED BY <3>6, <4>1, <4>2, <4>3
    <3> QED BY <1>6, <2>1, <3>7, <3>8, <3>9 DEF Streams
  <2>5. CASE Wrong(r)
    <3>1. r.stage # 0 /\ MisCounted(r) /\ r \in Parser /\ r.error = FALSE
      BY <2>5 DEF Wrong
    <3>2. reader' = r /\ UNCHANGED results /\ miscounted'
      BY <1>3, <3>1
    <3>3. ClientTypes'
      BY <1>1, <3>1, <3>2 DEF ClientTypes
    <3> QED BY <1>6, <2>1, <3>2, <3>3 DEF Streams
  <2> QED BY <2>2, <2>3, <2>4, <2>5
<1> QED BY <1>4, <1>5, <1>7, <1>8 DEF Answered

\* The session reads of a command.
LEMMA ReadCommandStreams ==
  ASSUME Streams, ~miscounted, ~stale, NEW n, ReadCommand(n)
  PROVE  Streams'
<1>1. StreamTypes /\ ClientTypes /\ (Quiet \/ Coming \/ InHand \/ Answered) /\ AllMeant
  BY DEF Streams
<1>2. /\ at = "read" /\ n \in 1..MaxChunk /\ n <= Len(toServer)
      /\ parser' = Fed(parser, SubSeq(toServer, 1, n)) /\ toServer' = SubSeq(toServer, n + 1, Len(toServer))
      /\ at' = "parse" /\ UNCHANGED <<script, sent, toClient, replies, results, reader, miscounted, stale>>
  BY DEF ReadCommand, Chunk, Rest
<1>3. n \in Nat /\ n > 0
  BY <1>2, TextConstants
<1>4. Coming
  <2>1. toServer # <<>>
    BY <1>2, <1>3
  <2> QED BY <1>1, <2>1 DEF Quiet, InHand, Answered
<1>5. Obeying(parser, toServer, script[sent]) /\ parser.buf = <<>>
  BY <1>2, <1>4 DEF Coming
<1>6. n \in 1..Len(toServer)
  <2>1. toServer \in Seq(Symbol)
    BY <1>5 DEF Obeying, Onward, Ahead
  <2> QED BY <1>2, <1>3, <2>1
<1>7. Obeying(parser', toServer', script[sent]) /\ parser'.buf # <<>>
  BY <1>2, <1>5, <1>6, ObeyFed
<1>8. parser' \in Parser /\ parser'.error = FALSE
  BY <1>7 DEF Obeying, Onward
<1>9. StreamTypes' /\ ClientTypes'
  BY <1>1, <1>2, <1>8 DEF StreamTypes, ClientTypes
<1>10. Coming'
  BY <1>2, <1>4, <1>7 DEF Coming
<1>11. AllMeant'
  BY <1>1, <1>2 DEF AllMeant
<1> QED BY <1>2, <1>9, <1>10, <1>11 DEF Streams

\* It parses a byte or an argument of it.
LEMMA ParseCommandStreams ==
  ASSUME Streams, ~miscounted, ~stale, ParseCommand
  PROVE  Streams'
<1>1. StreamTypes /\ ClientTypes /\ (Quiet \/ Coming \/ InHand \/ Answered) /\ AllMeant
  BY DEF Streams
<1>2. /\ at = "parse" /\ parser' = Parsed(parser, ServerStart(parser))
      /\ at' = IF parser'.stage = 0 THEN "run" ELSE IF parser'.buf = <<>> THEN "read" ELSE "parse"
      /\ miscounted' = (miscounted \/ MisCounted(parser'))
      /\ UNCHANGED <<script, sent, toServer, toClient, replies, results, reader, stale>>
  BY DEF ParseCommand, stream
<1>3. Coming
  BY <1>1, <1>2 DEF Quiet, InHand, Answered
<1>4. Obeying(parser, toServer, script[sent]) /\ parser.buf # <<>>
  BY <1>2, <1>3 DEF Coming
<1>5. \/ parser'.stage # 0 /\ Obeying(parser', toServer, script[sent])
      \/ Complete(parser', script[sent]) /\ toServer = <<>>
      \/ Wrong(parser')
  BY <1>2, <1>4, ObeyStep
<1>6. AllMeant' /\ ClientTypes' /\ ~stale'
  BY <1>1, <1>2 DEF AllMeant, ClientTypes
<1>7. at' \in {"read", "parse", "run", "wait", "end"}
  BY <1>2
<1>8. CASE parser'.stage # 0 /\ Obeying(parser', toServer, script[sent])
  <2>1. parser' \in Parser /\ parser'.error = FALSE
    BY <1>8 DEF Obeying, Onward
  <2>2. StreamTypes'
    BY <1>1, <1>2, <1>7, <2>1 DEF StreamTypes
  <2>3. (at' = "parse" /\ parser'.buf # <<>>) \/ (at' \in {"read", "end"} /\ parser'.buf = <<>>)
    BY <1>2, <1>8
  <2>4. Coming'
    BY <1>2, <1>3, <1>8, <2>3 DEF Coming
  <2> QED BY <1>6, <2>2, <2>4 DEF Streams
<1>9. CASE Complete(parser', script[sent]) /\ toServer = <<>>
  <2>1. parser' \in Parser /\ parser'.error = FALSE /\ parser'.stage = 0
    BY <1>9 DEF Complete
  <2>2. StreamTypes'
    BY <1>1, <1>2, <1>7, <2>1 DEF StreamTypes
  <2>3. InHand'
    BY <1>2, <1>3, <1>9, <2>1 DEF Coming, InHand
  <2> QED BY <1>6, <2>2, <2>3 DEF Streams
<1>10. CASE Wrong(parser')
  <2>1. MisCounted(parser') /\ parser' \in Parser /\ parser'.error = FALSE
    BY <1>10 DEF Wrong
  <2>2. StreamTypes'
    BY <1>1, <1>2, <1>7, <2>1 DEF StreamTypes
  <2> QED BY <1>2, <1>6, <2>1, <2>2 DEF Streams
<1> QED BY <1>5, <1>8, <1>9, <1>10

\* A handler has a command that was sent, and it is the last one.
LEMMA HandlerHas ==
  ASSUME Streams, ~miscounted, ~stale, at \in {"run", "wait"}
  PROVE  /\ InHand /\ Complete(parser, script[sent]) /\ Len(replies) + 1 = sent /\ sent \in 1..Len(script)
         /\ Len(script) \in 1..MaxLines /\ MaxLines \in Nat /\ Len(replies) \in Nat
         /\ parser.args = script[Len(replies) + 1] /\ parser.args \in Args /\ script[sent] \in Command
<1>1. StreamTypes /\ (Quiet \/ Coming \/ InHand \/ Answered)
  BY DEF Streams
<1>2. InHand
  BY <1>1 DEF Quiet, Coming, Answered
<1>3. Complete(parser, script[sent]) /\ Len(replies) + 1 = sent
  BY <1>2 DEF InHand
<1>4. script \in Scripts /\ sent \in 0..Len(script) /\ Len(replies) \in Nat
  BY <1>1 DEF StreamTypes
<1>5. Len(script) \in 1..MaxLines /\ MaxLines \in Nat
  BY <1>4, ScriptCommands
<1>6. sent \in 1..Len(script)
  BY <1>3, <1>4, <1>5
<1>7. script[sent] \in Command
  BY <1>4, <1>6, ScriptCommands
<1>8. parser.args = script[sent] /\ parser.args \in Args
  BY <1>3, <1>7, CommandArgs DEF Complete
<1> QED BY <1>2, <1>3, <1>4, <1>5, <1>6, <1>7, <1>8

\* A handler replies.
LEMMA ReplyStreams ==
  ASSUME Streams, ~miscounted, ~stale, at \in {"run", "wait"}, NEW M, Proper(M), Reply(M)
  PROVE  Streams'
<1>1. StreamTypes /\ ClientTypes /\ AllMeant /\ InHand /\ Complete(parser, script[sent]) /\ Len(replies) + 1 = sent
  BY HandlerHas DEF Streams
<1>2. /\ replies' = Append(replies, M) /\ toClient' = toClient \o M /\ parser' = Cleared(parser)
      /\ at' = IF parser.args[1] = QUIT THEN "end" ELSE IF parser.buf = <<>> THEN "read" ELSE "parse"
      /\ UNCHANGED <<script, sent, toServer, results, reader, miscounted, stale>>
  BY DEF Reply
<1>3. M \in Seq(Symbol)
  BY ProperBytes
<1>4. /\ Len(results) = Len(replies) /\ toClient = <<>> /\ Resting(reader) /\ toServer = <<>>
      /\ replies \in Seq(Seq(Symbol))
  BY <1>1 DEF InHand, StreamTypes
<1>5. toClient' = M
  BY <1>2, <1>3, <1>4, ConcatEmptySeq
<1>6. Idle(parser')
  BY <1>1, <1>2, ClearedIdle
<1>7. at' \in {"read", "end"}
  BY <1>1, <1>2 DEF Complete
<1>8. /\ replies' \in Seq(Seq(Symbol)) /\ Len(replies') = Len(replies) + 1 /\ replies'[Len(replies) + 1] = M
      /\ \A i \in 1..Len(replies) : replies'[i] = replies[i]
  BY <1>2, <1>3, <1>4
<1>9. Hearing(reader, M, M) \/ Leftover(reader)
  BY <1>4, HearBegins DEF Resting
<1>10. parser' \in Parser /\ parser'.error = FALSE
  BY <1>6 DEF Idle
<1>11. StreamTypes' /\ ClientTypes'
  BY <1>1, <1>2, <1>7, <1>8, <1>10 DEF StreamTypes, ClientTypes
<1>12. Answered'
  <2>1. replies'[Len(replies')] = M
    BY <1>8
  <2>2. \/ Hearing(reader', toClient', replies'[Len(replies')])
        \/ Leftover(reader') /\ toClient' \in Seq(Symbol)
    BY <1>2, <1>3, <1>5, <1>9, <2>1
  <2> QED BY <1>1, <1>2, <1>4, <1>6, <1>7, <1>8, <2>2 DEF Answered
<1>13. AllMeant'
  BY <1>1, <1>2, <1>4, <1>8 DEF AllMeant
<1> QED BY <1>2, <1>11, <1>12, <1>13 DEF Streams

\* LOCK or UNLOCK waits for its result.
LEMMA WaitStreams ==
  ASSUME Streams, ~miscounted, ~stale, at = "run", at' = "wait", UNCHANGED <<stream, parser, miscounted, stale>>
  PROVE  Streams'
<1>1. StreamTypes /\ ClientTypes /\ AllMeant /\ InHand
  BY HandlerHas DEF Streams
<1>2. UNCHANGED <<script, sent, toServer, toClient, replies, results, reader, parser, miscounted, stale>>
  BY DEF stream
<1>3. StreamTypes' /\ ClientTypes'
  BY <1>1, <1>2 DEF StreamTypes, ClientTypes
<1>4. InHand'
  BY <1>1, <1>2 DEF InHand
<1>5. AllMeant'
  BY <1>1, <1>2 DEF AllMeant
<1> QED BY <1>2, <1>3, <1>4, <1>5 DEF Streams

\* Nothing of it changes.
LEMMA SameStreams ==
  ASSUME Streams, UNCHANGED <<stream, parser, at, miscounted, stale>>
  PROVE  Streams'
<1>1. UNCHANGED <<script, sent, toServer, toClient, replies, results, reader, parser, at, miscounted, stale>>
  BY DEF stream
<1> QED BY <1>1 DEF Streams, StreamTypes, ClientTypes, Quiet, Coming, InHand, Answered, AllMeant
-----------------------------------------------------------------------------
(* The session: a handler and the result it waits for.                       *)

\* What lock_waiter holds, and what a handler took from it.
Result == [request : Nat, result : {"0", "1", "2"}]
Taking == [request : Nat, got : Result]

ControlTypes ==
  /\ request \in 0..Len(script) /\ lock_request_id \in 0..Len(script) /\ lock_id \in 0..Len(script)
  /\ lock \in [Lines -> {"none", "waiting", "woken", "lapsed", "held", "gone"}]
  /\ lock_waiter \in Seq(Result) /\ Len(lock_waiter) <= 1 /\ owed \in {"none", "0"}
  /\ taken \in Seq(Taking) /\ \A i \in 1..Len(taken) : taken[i].request \in 1..Len(replies)

\* The result of the command in hand is owed by the session itself, is there, or
\* is to come from another goroutine.
Awaited ==
  \/ owed = "0" /\ lock_waiter = <<>> /\ lock_request_id = request /\ lock[request] = "held"
  \/ owed = "none" /\ lock_request_id = 0 /\ Len(lock_waiter) = 1 /\ lock_waiter[1].request = request
  \/ /\ owed = "none" /\ lock_request_id = request /\ lock_waiter = <<>>
     /\ lock[request] \in {"waiting", "woken"}

Turn ==
  /\ at = "wait" => request = Len(replies) + 1 /\ Awaited
  /\ at # "wait" => lock_waiter = <<>> /\ lock_request_id = 0 /\ owed = "none"

\* Another goroutine has to answer only for the command in hand.
OnlyOne == \A r \in Lines : lock[r] \in {"waiting", "woken"} => at = "wait" /\ lock_request_id = r

Control == ControlTypes /\ UnlockFindsLock /\ OwnResult /\ (~overtaken => Turn /\ OnlyOne)

\* The lock of the i-th result is held and nothing succeeded since.
StillHeld(i) ==
  /\ script[taken[i].request][1] = LOCK /\ taken[i].got.result = "0" /\ lock[taken[i].request] = "held"
  /\ \A j \in (i + 1)..Len(taken) : taken[j].got.result # "0"

\* UnlockFindsLock, result by result ...
LEMMA Finds ==
  ASSUME taken \in Seq(Taking)
  PROVE  UnlockFindsLock <=> \A i \in 1..Len(taken) : StillHeld(i) => lock_id = taken[i].request
<1>1. DOMAIN taken = 1..Len(taken)
  OBVIOUS
<1> QED BY <1>1 DEF UnlockFindsLock, StillHeld

\* ... and after a step.
LEMMA FindsPrimed ==
  ASSUME taken' \in Seq(Taking)
  PROVE  UnlockFindsLock' <=> \A i \in 1..Len(taken') : StillHeld(i)' => lock_id' = taken'[i].request
<1>1. DOMAIN taken' = 1..Len(taken')
  OBVIOUS
<1> QED BY <1>1 DEF UnlockFindsLock, StillHeld

\* A lock may get lost, and what the session knows stays right.
LEMMA FindsKept ==
  ASSUME Control, ~overtaken, UNCHANGED <<script, taken, lock_id>>,
         \A r \in 1..Len(replies) : lock'[r] = "held" => lock[r] = "held"
  PROVE  UnlockFindsLock' /\ OwnResult'
<1>1. taken \in Seq(Taking) /\ UnlockFindsLock /\ OwnResult
      /\ \A i \in 1..Len(taken) : taken[i].request \in 1..Len(replies)
  BY DEF Control, ControlTypes
<1>2. \A i \in 1..Len(taken) : StillHeld(i) => lock_id = taken[i].request
  BY <1>1, Finds
<1>3. ASSUME NEW i \in 1..Len(taken), StillHeld(i)' PROVE lock_id' = taken'[i].request
  <2>1. StillHeld(i)
    BY <1>1, <1>3 DEF StillHeld
  <2> QED BY <1>2, <2>1
<1>4. UnlockFindsLock'
  BY <1>1, <1>3, FindsPrimed
<1>5. OwnResult'
  BY <1>1 DEF OwnResult
<1> QED BY <1>4, <1>5

\* No handler waits at first.
LEMMA ControlInit == Init => Control
<1> SUFFICES ASSUME Init PROVE Control
  OBVIOUS
<1>1. /\ script \in Scripts /\ replies = <<>> /\ at = "read" /\ request = 0 /\ lock_request_id = 0 /\ lock_id = 0
      /\ lock_waiter = <<>> /\ lock = [r \in Lines |-> "none"] /\ owed = "none" /\ taken = <<>>
  BY DEF Init
<1>2. Len(script) \in Nat
  BY <1>1, ScriptCommands
<1>3. ControlTypes
  <2>1. lock \in [Lines -> {"none", "waiting", "woken", "lapsed", "held", "gone"}]
    BY <1>1
  <2>2. taken \in Seq(Taking) /\ Len(taken) = 0 /\ lock_waiter \in Seq(Result) /\ Len(lock_waiter) = 0
    BY <1>1
  <2> QED BY <1>1, <1>2, <2>1, <2>2 DEF ControlTypes
<1>4. UnlockFindsLock /\ OwnResult
  BY <1>1 DEF UnlockFindsLock, OwnResult
<1>5. Turn /\ OnlyOne
  BY <1>1 DEF Turn, OnlyOne
<1> QED BY <1>3, <1>4, <1>5 DEF Control

\* What the steps of other goroutines, and of LOCK and UNLOCK, are proved from.
LEMMA ControlHas ==
  ASSUME Streams, Control, ~overtaken
  PROVE  /\ ControlTypes /\ UnlockFindsLock /\ OwnResult /\ Turn /\ OnlyOne
         /\ Len(script) \in Nat /\ Len(replies) \in Nat /\ Len(script) \in 1..MaxLines /\ MaxLines \in Nat
         /\ \A r \in 1..Len(script) : r \in Lines
<1>1. script \in Scripts /\ Len(replies) \in Nat
  BY DEF Streams, StreamTypes
<1>2. Len(script) \in Nat /\ Len(script) \in 1..MaxLines /\ MaxLines \in Nat
  BY <1>1, ScriptCommands
<1>3. \A r \in 1..Len(script) : r \in Lines
  BY <1>2 DEF Lines
<1> QED BY <1>1, <1>2, <1>3 DEF Control

\* The steps that read and parse.
LEMMA ReadingControl ==
  ASSUME Control, ~overtaken, at' = at \/ (at # "wait" /\ at' # "wait"),
         UNCHANGED <<script, replies, request, answer, lock_id, lock, owed, taken, overtaken>>
  PROVE  Control'
<1>1. UNCHANGED <<lock_request_id, lock_waiter>>
  BY DEF answer
<1>2. ControlTypes /\ Turn /\ OnlyOne
  BY DEF Control
<1>3. UnlockFindsLock' /\ OwnResult'
  BY FindsKept
<1>4. ControlTypes'
  BY <1>1, <1>2 DEF ControlTypes
<1>5. Turn'
  BY <1>1, <1>2 DEF Turn, Awaited
<1>6. OnlyOne'
  BY <1>1, <1>2 DEF OnlyOne, Turn
<1> QED BY <1>3, <1>4, <1>5, <1>6 DEF Control

\* A handler that does not wait replies.
LEMMA ReplyControl ==
  ASSUME Streams, Control, ~overtaken, ~miscounted, ~stale, at = "run", NEW M, Reply(M),
         UNCHANGED <<answer, lock_id, lock, owed, taken, overtaken>>
  PROVE  Control'
<1>1. UNCHANGED <<lock_request_id, lock_waiter, script>> /\ request' = 0 /\ at' # "wait"
      /\ replies' = Append(replies, M)
  BY DEF answer, Reply
<1>2. ControlTypes /\ Turn /\ OnlyOne /\ Len(script) \in Nat /\ Len(replies) \in Nat
  BY ControlHas
<1>3. UnlockFindsLock' /\ OwnResult'
  BY <1>1, FindsKept
<1>4. Len(replies') = Len(replies) + 1
  <2>1. replies \in Seq(Seq(Symbol))
    BY DEF Streams, StreamTypes
  <2> QED BY <1>1, <2>1
<1>5. ControlTypes'
  <2>1. \A i \in 1..Len(taken) : taken[i].request \in 1..Len(replies')
    BY <1>2, <1>4 DEF ControlTypes
  <2> QED BY <1>1, <1>2, <2>1 DEF ControlTypes
<1>6. Turn'
  BY <1>1, <1>2 DEF Turn
<1>7. OnlyOne'
  BY <1>2 DEF OnlyOne
<1> QED BY <1>3, <1>5, <1>6, <1>7 DEF Control

\* What a result that is given to an empty channel makes of it.
LEMMA GivenResult ==
  ASSUME lock_waiter = <<>>, NEW r \in Nat, NEW b \in {"0", "1", "2"}, Given(r, b)
  PROVE  /\ lock_waiter' \in Seq(Result) /\ Len(lock_waiter') = 1 /\ lock_waiter'[1].request = r
         /\ lock_request_id' = 0
<1>1. PICK g : g = [request |-> r, result |-> b]
  OBVIOUS
<1>2. g \in Result /\ g.request = r
  BY <1>1 DEF Result
<1>3. lock_waiter' = Append(<<>>, g) /\ lock_request_id' = 0
  BY <1>1 DEF Given
<1>4. lock_waiter' \in Seq(Result) /\ Len(lock_waiter') = 1 /\ lock_waiter'[1] = g
  BY <1>2, <1>3
<1> QED BY <1>2, <1>3, <1>4

\* A LOCK gets to the database.
LEMMA RunLockControl ==
  ASSUME Streams, Control, ~overtaken, ~miscounted, ~stale, RunLock
  PROVE  Control'
<1> DEFINE d == Len(replies) + 1
<1>1. at = "run" /\ request' = d /\ at' = "wait" /\ UNCHANGED <<script, replies, lock_id, taken, overtaken>>
  BY DEF RunLock, Done, stream
<1>2. \/ /\ lock' = [lock EXCEPT ![d] = "held"] /\ owed' = "0"
         /\ lock_request_id' = d /\ UNCHANGED lock_waiter
      \/ UNCHANGED <<lock, owed>> /\ Given(d, "1")
      \/ /\ lock' = [lock EXCEPT ![d] = "waiting"] /\ UNCHANGED owed
         /\ lock_request_id' = d /\ UNCHANGED lock_waiter
  BY DEF RunLock, Done
<1>3. /\ ControlTypes /\ Turn /\ OnlyOne /\ Len(script) \in Nat /\ Len(replies) \in Nat
      /\ \A r \in 1..Len(script) : r \in Lines
  BY ControlHas
<1>4. d \in 1..Len(script) /\ d \in Lines /\ d \notin 1..Len(replies) /\ d \in Nat
  BY <1>1, <1>3, HandlerHas
<1>5. lock_waiter = <<>> /\ lock_request_id = 0 /\ owed = "none"
  BY <1>1, <1>3 DEF Turn
<1>6. lock \in [Lines -> {"none", "waiting", "woken", "lapsed", "held", "gone"}]
  BY <1>3 DEF ControlTypes
<1>7. \A r \in Lines : lock[r] \notin {"waiting", "woken"}
  BY <1>1, <1>3 DEF OnlyOne
<1> HIDE DEF d
<1>8. \A r \in Lines : r # d => lock'[r] = lock[r]
  BY <1>2, <1>4, <1>6
<1>9. UnlockFindsLock' /\ OwnResult'
  <2>1. \A r \in 1..Len(replies) : r \in Lines /\ r # d
    <3>1. Len(replies) <= Len(script)
      BY <1>3, <1>4 DEF d
    <3> QED BY <1>3, <1>4, <3>1
  <2>2. \A r \in 1..Len(replies) : lock'[r] = "held" => lock[r] = "held"
    BY <1>8, <2>1
  <2> QED BY <1>1, <2>2, FindsKept
<1>10. CASE /\ lock' = [lock EXCEPT ![d] = "held"] /\ owed' = "0"
            /\ lock_request_id' = d /\ UNCHANGED lock_waiter
  <2>1. lock'[d] = "held" /\ lock' \in [Lines -> {"none", "waiting", "woken", "lapsed", "held", "gone"}]
    BY <1>4, <1>6, <1>10
  <2>2. ControlTypes'
    BY <1>1, <1>3, <1>4, <1>10, <2>1 DEF ControlTypes
  <2>3. Turn'
    BY <1>1, <1>5, <1>10, <2>1 DEF Turn, Awaited, d
  <2>4. OnlyOne'
    BY <1>7, <1>8, <2>1 DEF OnlyOne
  <2> QED BY <1>9, <2>2, <2>3, <2>4 DEF Control
<1>11. CASE UNCHANGED <<lock, owed>> /\ Given(d, "1")
  <2>1. /\ lock_waiter' \in Seq(Result) /\ Len(lock_waiter') = 1 /\ lock_waiter'[1].request = d
        /\ lock_request_id' = 0
    BY <1>4, <1>5, <1>11, GivenResult
  <2>2. ControlTypes'
    BY <1>1, <1>3, <1>4, <1>11, <2>1 DEF ControlTypes
  <2>3. Turn'
    BY <1>1, <1>5, <1>11, <2>1 DEF Turn, Awaited, d
  <2>4. OnlyOne'
    BY <1>7, <1>11 DEF OnlyOne
  <2> QED BY <1>9, <2>2, <2>3, <2>4 DEF Control
<1>12. CASE /\ lock' = [lock EXCEPT ![d] = "waiting"] /\ UNCHANGED owed
            /\ lock_request_id' = d /\ UNCHANGED lock_waiter
  <2>1. lock'[d] = "waiting" /\ lock' \in [Lines -> {"none", "waiting", "woken", "lapsed", "held", "gone"}]
    BY <1>4, <1>6, <1>12
  <2>2. ControlTypes'
    BY <1>1, <1>3, <1>4, <1>12, <2>1 DEF ControlTypes
  <2>3. Turn'
    BY <1>1, <1>5, <1>12, <2>1 DEF Turn, Awaited, d
  <2>4. OnlyOne'
    BY <1>1, <1>7, <1>8, <1>12 DEF OnlyOne
  <2> QED BY <1>9, <2>2, <2>3, <2>4 DEF Control
<1> QED BY <1>2, <1>10, <1>11, <1>12

\* An UNLOCK does.
LEMMA RunUnlockControl ==
  ASSUME Streams, Control, ~overtaken, ~miscounted, ~stale, RunUnlock
  PROVE  Control'
<1> DEFINE d == Len(replies) + 1
           held == lock_id # 0 /\ lock[lock_id] = "held"
<1>1. at = "run" /\ request' = d /\ at' = "wait" /\ UNCHANGED <<script, replies, lock_id, owed, taken, overtaken>>
  BY DEF RunUnlock, Done, stream
<1>2. /\ lock' = IF held THEN [lock EXCEPT ![lock_id] = "gone"] ELSE lock
      /\ Given(d, IF held THEN "0" ELSE "1")
  BY DEF RunUnlock, Done
<1>3. /\ ControlTypes /\ Turn /\ OnlyOne /\ Len(script) \in Nat /\ Len(replies) \in Nat
      /\ \A r \in 1..Len(script) : r \in Lines
  BY ControlHas
<1>4. d \in 1..Len(script) /\ d \in Lines /\ d \in Nat
  BY <1>1, <1>3, HandlerHas
<1>5. lock_waiter = <<>> /\ lock_request_id = 0 /\ owed = "none"
  BY <1>1, <1>3 DEF Turn
<1>6. lock \in [Lines -> {"none", "waiting", "woken", "lapsed", "held", "gone"}] /\ lock_id \in 0..Len(script)
  BY <1>3 DEF ControlTypes
<1>7. \A r \in Lines : lock[r] \notin {"waiting", "woken"}
  BY <1>1, <1>3 DEF OnlyOne
<1>8. /\ lock' \in [Lines -> {"none", "waiting", "woken", "lapsed", "held", "gone"}]
      /\ \A r \in Lines : lock'[r] = lock[r] \/ lock'[r] = "gone"
  <2>1. CASE held
    <3>1. lock_id \in Lines
      BY <1>3, <1>6, <2>1
    <3>2. lock' = [lock EXCEPT ![lock_id] = "gone"]
      BY <1>2, <2>1
    <3> QED BY <1>6, <3>1, <3>2
  <2>2. CASE ~held
    BY <1>2, <1>6, <2>2
  <2> QED BY <2>1, <2>2
<1>9. PICK b \in {"0", "1", "2"} : Given(d, b)
  BY <1>2
<1> HIDE DEF d, held
<1>10. UnlockFindsLock' /\ OwnResult'
  <2>1. \A r \in 1..Len(replies) : r \in Lines
    <3>1. Len(replies) <= Len(script)
      BY <1>3, <1>4 DEF d
    <3> QED BY <1>3, <3>1
  <2>2. \A r \in 1..Len(replies) : lock'[r] = "held" => lock[r] = "held"
    BY <1>8, <2>1
  <2> QED BY <1>1, <2>2, FindsKept
<1>11. /\ lock_waiter' \in Seq(Result) /\ Len(lock_waiter') = 1 /\ lock_waiter'[1].request = d
       /\ lock_request_id' = 0
  BY <1>4, <1>5, <1>9, GivenResult
<1>12. ControlTypes'
  BY <1>1, <1>3, <1>4, <1>8, <1>11 DEF ControlTypes
<1>13. Turn'
  BY <1>1, <1>5, <1>11 DEF Turn, Awaited, d
<1>14. OnlyOne'
  BY <1>7, <1>8 DEF OnlyOne
<1> QED BY <1>10, <1>12, <1>13, <1>14 DEF Control
\* The session gives the result it owes.
LEMMA GiveOwedControl ==
  ASSUME Streams, Control, ~overtaken, ~miscounted, ~stale, GiveOwed
  PROVE  Control'
<1>1. /\ at = "wait" /\ owed # "none" /\ Given(request, owed) /\ owed' = "none"
      /\ UNCHANGED <<script, replies, at, request, lock_id, lock, taken, overtaken>>
  BY DEF GiveOwed, stream
<1>2. ControlTypes /\ Turn /\ OnlyOne /\ Len(script) \in Nat
  BY ControlHas
<1>3. request = Len(replies) + 1 /\ owed = "0" /\ lock_waiter = <<>> /\ lock_request_id = request
      /\ lock[request] = "held"
  BY <1>1, <1>2 DEF Turn, Awaited
<1>4. request \in Nat /\ request \in Lines
  BY <1>1, <1>2, <1>3, HandlerHas, ControlHas DEF ControlTypes
<1>5. /\ lock_waiter' \in Seq(Result) /\ Len(lock_waiter') = 1 /\ lock_waiter'[1].request = request
      /\ lock_request_id' = 0
  BY <1>1, <1>3, <1>4, GivenResult
<1>6. UnlockFindsLock' /\ OwnResult'
  BY <1>1, FindsKept
<1>7. ControlTypes'
  BY <1>1, <1>2, <1>5 DEF ControlTypes
<1>8. Turn'
  BY <1>1, <1>3, <1>5 DEF Turn, Awaited
<1>9. OnlyOne'
  <2>1. \A r \in Lines : lock[r] \notin {"waiting", "woken"}
    BY <1>2, <1>3 DEF OnlyOne
  <2> QED BY <1>1, <2>1 DEF OnlyOne
<1> QED BY <1>6, <1>7, <1>8, <1>9 DEF Control

\* Whose result another goroutine can give.
LEMMA AskedOf ==
  ASSUME Streams, Control, ~overtaken, NEW r \in Lines
  PROVE  /\ lock[r] \in {"waiting", "woken"} =>
              /\ at = "wait" /\ lock_request_id = r /\ request = r /\ r = Len(replies) + 1
              /\ owed = "none" /\ lock_waiter = <<>>
         /\ lock[r] = "lapsed" => r # lock_request_id
         /\ (lock[r] = "held" /\ r = lock_request_id) => owed # "none" /\ request = r /\ lock_waiter = <<>>
         /\ (owed # "none" /\ request = r) => r = lock_request_id
<1>1. Turn /\ OnlyOne /\ r \in Nat /\ r > 0
  BY ControlHas DEF Lines
<1>2. CASE at = "wait"
  BY <1>1, <1>2 DEF Turn, Awaited, OnlyOne
<1>3. CASE at # "wait"
  BY <1>1, <1>3 DEF Turn, OnlyOne
<1> QED BY <1>2, <1>3

\* The locks when one of them changes.
LEMMA LockMoved ==
  ASSUME ControlTypes, NEW r \in Lines, NEW v \in {"none", "waiting", "woken", "lapsed", "held", "gone"},
         lock' = [lock EXCEPT ![r] = v]
  PROVE  /\ lock' \in [Lines -> {"none", "waiting", "woken", "lapsed", "held", "gone"}]
         /\ lock'[r] = v /\ \A o \in Lines : o # r => lock'[o] = lock[o]
BY DEF ControlTypes

\* Requests with replies are lines of the script.
LEMMA RepliesAreLines ==
  ASSUME Streams, Control, ~overtaken, ~miscounted, ~stale
  PROVE  \A o \in 1..Len(replies) : o \in Lines
<1>1. Len(replies) <= sent /\ sent \in 0..Len(script) /\ Len(replies) \in Nat
  <2>1. StreamTypes /\ (Quiet \/ Coming \/ InHand \/ Answered)
    BY DEF Streams
  <2>2. sent \in 0..Len(script) /\ Len(replies) \in Nat
    BY <2>1 DEF StreamTypes
  <2>3. Len(replies) = sent \/ Len(replies) + 1 = sent
    BY <2>1 DEF Quiet, Coming, InHand, Answered
  <2> QED BY <2>2, <2>3
<1>2. Len(script) \in Nat /\ \A r \in 1..Len(script) : r \in Lines
  BY ControlHas
<1> QED BY <1>1, <1>2

\* A LOCK that waits is answered by another goroutine.
LEMMA AnsweredControl ==
  ASSUME Streams, Control, ~overtaken, ~miscounted, ~stale, NEW r \in Lines, lock[r] \in {"waiting", "woken"},
         NEW v \in {"held", "lapsed", "gone"}, lock' = [lock EXCEPT ![r] = v],
         NEW b \in {"0", "1", "2"}, GivenLocked(r, b), ~overtaken',
         UNCHANGED <<script, replies, at, request, lock_id, owed, taken>>
  PROVE  Control'
<1>1. ControlTypes /\ Turn /\ OnlyOne /\ Len(script) \in Nat /\ Len(replies) \in Nat
  BY ControlHas
<1>2. /\ at = "wait" /\ lock_request_id = r /\ request = r /\ r = Len(replies) + 1
      /\ owed = "none" /\ lock_waiter = <<>>
  BY AskedOf
<1>3. Given(r, b) /\ r \in Nat
  BY <1>2 DEF GivenLocked, Expected, Lines
<1>4. /\ lock_waiter' \in Seq(Result) /\ Len(lock_waiter') = 1 /\ lock_waiter'[1].request = r
      /\ lock_request_id' = 0
  BY <1>2, <1>3, GivenResult
<1>5. /\ lock' \in [Lines -> {"none", "waiting", "woken", "lapsed", "held", "gone"}]
      /\ lock'[r] = v /\ \A o \in Lines : o # r => lock'[o] = lock[o]
  BY <1>1, LockMoved
<1>6. UnlockFindsLock' /\ OwnResult'
  <2>1. \A o \in 1..Len(replies) : o \in Lines /\ o # r
    BY <1>1, <1>2, RepliesAreLines
  <2>2. \A o \in 1..Len(replies) : lock'[o] = "held" => lock[o] = "held"
    BY <1>5, <2>1
  <2> QED BY <2>2, FindsKept
<1>7. ControlTypes'
  BY <1>1, <1>4, <1>5 DEF ControlTypes
<1>8. Turn'
  BY <1>2, <1>4 DEF Turn, Awaited
<1>9. OnlyOne'
  <2>1. \A o \in Lines : o # r => lock[o] \notin {"waiting", "woken"}
    BY <1>1, <1>2 DEF OnlyOne
  <2> QED BY <1>5, <2>1 DEF OnlyOne
<1> QED BY <1>6, <1>7, <1>8, <1>9 DEF Control

\* A lock goes, and nobody waits for a result of it.
LEMMA GoneControl ==
  ASSUME Streams, Control, ~overtaken, ~miscounted, ~stale, NEW r \in Lines, lock[r] \notin {"waiting", "woken"},
         r # lock_request_id, lock' = [lock EXCEPT ![r] = "gone"],
         NEW b, GivenLocked(r, b), ~overtaken',
         UNCHANGED <<script, replies, at, request, lock_id, owed, taken>>
  PROVE  Control'
<1>1. ControlTypes /\ Turn /\ OnlyOne
  BY ControlHas
<1>2. UNCHANGED <<lock_request_id, lock_waiter>>
  BY DEF GivenLocked, Expected, answer
<1>3. /\ lock' \in [Lines -> {"none", "waiting", "woken", "lapsed", "held", "gone"}]
      /\ lock'[r] = "gone" /\ \A o \in Lines : o # r => lock'[o] = lock[o]
  BY <1>1, LockMoved
<1>4. UnlockFindsLock' /\ OwnResult'
  <2>1. \A o \in 1..Len(replies) : o \in Lines
    BY RepliesAreLines
  <2>2. \A o \in 1..Len(replies) : lock'[o] = "held" => lock[o] = "held"
    BY <1>3, <2>1
  <2> QED BY <2>2, FindsKept
<1>5. ControlTypes'
  BY <1>1, <1>2, <1>3 DEF ControlTypes
<1>6. Turn'
  <2>1. CASE at = "wait"
    <3>1. request = Len(replies) + 1 /\ Awaited /\ request \in Lines
      <4>1. request = Len(replies) + 1 /\ Awaited
        BY <1>1, <2>1 DEF Turn
      <4> QED BY <2>1, <4>1, HandlerHas, ControlHas
    <3>2. lock_request_id = request => lock'[request] = lock[request]
      BY <1>3, <3>1
    <3>3. Awaited'
      BY <1>2, <3>1, <3>2 DEF Awaited
    <3> QED BY <2>1, <3>1, <3>3 DEF Turn
  <2>2. CASE at # "wait"
    BY <1>1, <1>2, <2>2 DEF Turn
  <2> QED BY <2>1, <2>2
<1>7. OnlyOne'
  BY <1>1, <1>2, <1>3 DEF OnlyOne
<1> QED BY <1>4, <1>5, <1>6, <1>7 DEF Control

\* A LOCK that waits is granted, ...
LEMMA WakeUpControl ==
  ASSUME Streams, Control, ~overtaken, ~miscounted, ~stale, NEW r \in Lines, WakeUp(r)
  PROVE  Control'
<1>1. /\ lock[r] = "waiting" /\ lock' = [lock EXCEPT ![r] = "woken"]
      /\ UNCHANGED <<script, replies, at, request, lock_request_id, lock_waiter, lock_id, owed, taken, overtaken>>
  BY DEF WakeUp, stream, answer
<1>2. ControlTypes /\ Turn /\ OnlyOne
  BY ControlHas
<1>3. /\ lock' \in [Lines -> {"none", "waiting", "woken", "lapsed", "held", "gone"}]
      /\ lock'[r] = "woken" /\ \A o \in Lines : o # r => lock'[o] = lock[o]
  BY <1>1, <1>2, LockMoved
<1>4. /\ at = "wait" /\ lock_request_id = r /\ request = r /\ r = Len(replies) + 1
      /\ owed = "none" /\ lock_waiter = <<>>
  BY <1>1, AskedOf
<1>5. UnlockFindsLock' /\ OwnResult'
  <2>1. \A o \in 1..Len(replies) : o \in Lines
    BY RepliesAreLines
  <2>2. \A o \in 1..Len(replies) : lock'[o] = "held" => lock[o] = "held"
    BY <1>3, <2>1
  <2> QED BY <1>1, <2>2, FindsKept
<1>6. ControlTypes'
  BY <1>1, <1>2, <1>3 DEF ControlTypes
<1>7. Turn'
  BY <1>1, <1>3, <1>4 DEF Turn, Awaited
<1>8. OnlyOne'
  BY <1>1, <1>2, <1>3, <1>4 DEF OnlyOne
<1> QED BY <1>5, <1>6, <1>7, <1>8 DEF Control

\* ... gets its result, whether or not the lease has lapsed, ...
LEMMA GiveWokenControl ==
  ASSUME Streams, Control, ~overtaken, ~miscounted, ~stale, NEW r \in Lines, GiveWoken(r)
  PROVE  Control'
<1>1. /\ lock[r] \in {"woken", "lapsed"} /\ GivenLocked(r, "0")
      /\ lock' = [lock EXCEPT ![r] = IF lock[r] = "woken" THEN "held" ELSE "gone"]
      /\ UNCHANGED <<script, replies, at, request, lock_id, owed, taken, overtaken>>
  BY DEF GiveWoken, stream
<1>2. ~overtaken'
  BY <1>1
<1>3. CASE lock[r] = "woken"
  <2>1. lock' = [lock EXCEPT ![r] = "held"]
    BY <1>1, <1>3
  <2> QED BY <1>1, <1>2, <1>3, <2>1, AnsweredControl
<1>4. CASE lock[r] = "lapsed"
  <2>1. lock' = [lock EXCEPT ![r] = "gone"]
    BY <1>1, <1>4
  <2>2. r # lock_request_id
    BY <1>4, AskedOf
  <2> QED BY <1>1, <1>2, <1>4, <2>1, <2>2, GoneControl
<1> QED BY <1>1, <1>3, <1>4

\* ... or times out.
LEMMA DoTimeOutControl ==
  ASSUME Streams, Control, ~overtaken, ~miscounted, ~stale, NEW r \in Lines, DoTimeOut(r)
  PROVE  Control'
<1>1. /\ lock[r] = "waiting" /\ GivenLocked(r, "1") /\ lock' = [lock EXCEPT ![r] = "gone"]
      /\ UNCHANGED <<script, replies, at, request, lock_id, owed, taken, overtaken>>
  BY DEF DoTimeOut, stream
<1>2. ~overtaken' /\ lock[r] \in {"waiting", "woken"}
  BY <1>1
<1> QED BY <1>1, <1>2, AnsweredControl

\* A lease ends; if that gives its own LOCK a result, the session was overtaken.
LEMMA DoExpriedControl ==
  ASSUME Streams, Control, ~overtaken, ~miscounted, ~stale, NEW r \in Lines, DoExpried(r)
  PROVE  Control'
<1>1. /\ lock[r] \in {"woken", "held"} /\ GivenLocked(r, "2")
      /\ lock' = [lock EXCEPT ![r] = IF lock[r] = "woken" THEN "lapsed" ELSE "gone"]
      /\ overtaken' = (overtaken \/ (owed # "none" /\ request = r))
      /\ UNCHANGED <<script, replies, at, request, lock_id, owed, taken>>
  BY DEF DoExpried, stream
<1>2. CASE lock[r] = "woken"
  <2>1. owed = "none"
    BY <1>2, AskedOf
  <2>2. lock' = [lock EXCEPT ![r] = "lapsed"]
    BY <1>1, <1>2
  <2> QED BY <1>1, <1>2, <2>1, <2>2, AnsweredControl
<1>3. CASE lock[r] = "held" /\ r # lock_request_id
  <2>1. ~(owed # "none" /\ request = r)
    BY <1>3, AskedOf
  <2>2. lock' = [lock EXCEPT ![r] = "gone"]
    BY <1>1, <1>3
  <2> QED BY <1>1, <1>3, <2>1, <2>2, GoneControl
<1>4. CASE lock[r] = "held" /\ r = lock_request_id
  <2>1. owed # "none" /\ request = r /\ lock_waiter = <<>> /\ r \in Nat
    BY <1>4, AskedOf DEF Lines
  <2>2. overtaken'
    BY <1>1, <2>1
  <2>3. Given(r, "2")
    BY <1>1, <1>4 DEF GivenLocked, Expected
  <2>4. /\ lock_waiter' \in Seq(Result) /\ Len(lock_waiter') = 1 /\ lock_request_id' = 0
    BY <2>1, <2>3, GivenResult
  <2>5. ControlTypes /\ Len(script) \in Nat
    BY ControlHas
  <2>6. /\ lock' \in [Lines -> {"none", "waiting", "woken", "lapsed", "held", "gone"}]
        /\ lock'[r] = "gone" /\ \A o \in Lines : o # r => lock'[o] = lock[o]
    <3>1. lock' = [lock EXCEPT ![r] = "gone"]
      BY <1>1, <1>4
    <3> QED BY <2>5, <3>1, LockMoved
  <2>7. UnlockFindsLock' /\ OwnResult'
    <3>1. \A o \in 1..Len(replies) : o \in Lines
      BY RepliesAreLines
    <3>2. \A o \in 1..Len(replies) : lock'[o] = "held" => lock[o] = "held"
      BY <2>6, <3>1
    <3> QED BY <1>1, <3>2, FindsKept
  <2>8. ControlTypes'
    BY <1>1, <2>4, <2>5, <2>6 DEF ControlTypes
  <2> QED BY <2>2, <2>7, <2>8 DEF Control
<1> QED BY <1>1, <1>2, <1>3, <1>4

\* A sequence of one.
LEMMA OneOnly ==
  ASSUME NEW S, NEW s \in Seq(S), Len(s) = 1
  PROVE  Head(s) = s[1] /\ s[1] \in S /\ Tail(s) = <<>>
<1>1. s # <<>> /\ s[1] \in S
  OBVIOUS
<1>2. Head(s) = s[1]
  BY <1>1
<1>3. PICK t : t = Tail(s)
  OBVIOUS
<1>4. t \in Seq(S) /\ Len(t) = 0
  BY <1>1, <1>3
<1>5. t = <<>>
  BY <1>4
<1> QED BY <1>1, <1>2, <1>3, <1>5

\* The handler takes its result and replies.
LEMMA TakeResultControl ==
  ASSUME Streams, Control, ~overtaken, ~miscounted, ~stale, TakeResult
  PROVE  /\ Control' /\ Head(lock_waiter) \in Result /\ at = "wait"
         /\ Reply(BuildReply(TRUE, <<>>, ResultArgs(Head(lock_waiter))))
<1> DEFINE got == Head(lock_waiter)
           M == BuildReply(TRUE, <<>>, ResultArgs(got))
           d == Len(replies) + 1
<1>1. /\ at = "wait" /\ lock_waiter # <<>> /\ owed = "none"
      /\ taken' = Append(taken, [request |-> request, got |-> got])
      /\ lock_id' = LockIdAfter(got.result) /\ Reply(M) /\ lock_waiter' = Tail(lock_waiter)
      /\ UNCHANGED <<lock_request_id, lock, owed, overtaken>>
  BY DEF TakeResult
<1>2. ControlTypes /\ UnlockFindsLock /\ OwnResult /\ Turn /\ OnlyOne /\ Len(script) \in Nat /\ Len(replies) \in Nat
  BY ControlHas
<1>3. request = d /\ lock_request_id = 0 /\ Len(lock_waiter) = 1 /\ lock_waiter[1].request = d
  BY <1>1, <1>2 DEF Turn, Awaited
<1>4. lock_waiter \in Seq(Result) /\ taken \in Seq(Taking)
  BY <1>2 DEF ControlTypes
<1>5. got = lock_waiter[1] /\ got \in Result /\ got.request = d /\ lock_waiter' = <<>>
  <2>1. Head(lock_waiter) = lock_waiter[1] /\ lock_waiter[1] \in Result /\ Tail(lock_waiter) = <<>>
    BY <1>3, <1>4, OneOnly
  <2> QED BY <1>1, <1>3, <2>1
<1>6. /\ UNCHANGED script /\ request' = 0 /\ at' # "wait" /\ replies' = Append(replies, M)
  BY <1>1 DEF Reply
<1>7. Len(replies') = d
  <2>1. replies \in Seq(Seq(Symbol))
    BY DEF Streams, StreamTypes
  <2> HIDE DEF M
  <2> QED BY <1>6, <2>1
<1>8. d \in 1..Len(script) /\ d \in Lines /\ parser.args = script[d]
  <2>1. sent = d /\ sent \in 1..Len(script) /\ parser.args = script[d]
    BY <1>1, HandlerHas
  <2> QED BY <2>1, ControlHas
<1>9. PICK t : t = [request |-> d, got |-> got]
  OBVIOUS
<1> HIDE DEF M, got
<1>10. t \in Taking /\ t.request = d /\ t.got = got
  <2>1. d \in Nat
    BY <1>2
  <2> QED BY <1>5, <1>9, <2>1 DEF Taking
<1>11. /\ taken' \in Seq(Taking) /\ Len(taken') = Len(taken) + 1 /\ taken'[Len(taken) + 1] = t
       /\ \A i \in 1..Len(taken) : taken'[i] = taken[i]
  BY <1>1, <1>3, <1>4, <1>9, <1>10
<1>12. \A i \in 1..Len(taken') : i \in 1..Len(taken) \/ i = Len(taken) + 1
  BY <1>4, <1>11
<1>13. lock_id' = IF got.result # "0" THEN lock_id ELSE IF script[d][1] = LOCK THEN d ELSE 0
  BY <1>1, <1>3, <1>8 DEF LockIdAfter, Name
<1> HIDE DEF d
<1>14. ControlTypes'
  <2>1. lock_id' \in 0..Len(script)
    BY <1>2, <1>8, <1>13 DEF ControlTypes
  <2>2. ASSUME NEW i \in 1..Len(taken') PROVE taken'[i].request \in 1..Len(replies')
    <3>1. CASE i \in 1..Len(taken)
      <4>1. taken[i].request \in 1..Len(replies)
        BY <1>2, <3>1 DEF ControlTypes
      <4>2. taken[i].request \in 1..d
        BY <1>2, <4>1 DEF d
      <4> QED BY <1>7, <1>11, <3>1, <4>2
    <3>2. CASE i = Len(taken) + 1
      <4>1. d \in 1..d
        BY <1>2 DEF d
      <4> QED BY <1>7, <1>10, <1>11, <3>2, <4>1
    <3> QED BY <1>12, <3>1, <3>2
  <2>3. lock_waiter' \in Seq(Result) /\ Len(lock_waiter') <= 1
    BY <1>5
  <2> QED BY <1>1, <1>2, <1>3, <1>6, <1>11, <2>1, <2>2, <2>3 DEF ControlTypes
<1>15. UnlockFindsLock'
  <2>1. ASSUME NEW i \in 1..Len(taken'), StillHeld(i)' PROVE lock_id' = taken'[i].request
    <3>1. /\ script[taken'[i].request][1] = LOCK /\ taken'[i].got.result = "0" /\ lock[taken'[i].request] = "held"
          /\ \A j \in (i + 1)..Len(taken') : taken'[j].got.result # "0"
      BY <1>1, <1>6, <2>1 DEF StillHeld
    <3>2. CASE i \in 1..Len(taken)
      <4>1. Len(taken) + 1 \in (i + 1)..Len(taken')
        BY <1>4, <1>11, <3>2
      <4>2. got.result # "0"
        BY <1>10, <1>11, <3>1, <4>1
      <4>3. lock_id' = lock_id
        BY <1>13, <4>2
      <4>4. StillHeld(i)
        <5>1. \A j \in (i + 1)..Len(taken) : j \in (i + 1)..Len(taken') /\ j \in 1..Len(taken)
          BY <1>4, <1>11, <3>2
        <5>2. \A j \in (i + 1)..Len(taken) : taken[j].got.result # "0"
          BY <1>11, <3>1, <5>1
        <5> QED BY <1>11, <3>1, <3>2, <5>2 DEF StillHeld
      <4>5. lock_id = taken[i].request
        BY <1>2, <1>4, <3>2, <4>4, Finds
      <4> QED BY <1>11, <3>2, <4>3, <4>5
    <3>3. CASE i = Len(taken) + 1
      BY <1>10, <1>11, <1>13, <3>1, <3>3
    <3> QED BY <1>12, <3>2, <3>3
  <2> QED BY <1>11, <2>1, FindsPrimed
<1>16. OwnResult'
  <2>1. \A i \in 1..Len(taken) : taken[i].got.request = taken[i].request
    BY <1>2, <1>4 DEF OwnResult
  <2>2. \A i \in 1..Len(taken') : taken'[i].got.request = taken'[i].request
    <3>1. got.request = d
      BY <1>5
    <3> QED BY <1>10, <1>11, <1>12, <2>1, <3>1
  <2>3. DOMAIN taken' = 1..Len(taken')
    BY <1>11
  <2> QED BY <2>2, <2>3 DEF OwnResult
<1>17. Turn'
  BY <1>1, <1>3, <1>5, <1>6 DEF Turn
<1>18. OnlyOne'
  <2>1. \A r \in Lines : lock[r] \notin {"waiting", "woken"}
    <3>1. \A r \in Lines : r # 0
      BY <1>2 DEF Lines
    <3> QED BY <1>2, <1>3, <3>1 DEF OnlyOne
  <2> QED BY <1>1, <2>1 DEF OnlyOne
<1>19. Control'
  BY <1>14, <1>15, <1>16, <1>17, <1>18 DEF Control
<1> QED BY <1>1, <1>5, <1>19 DEF M, got
-----------------------------------------------------------------------------
(* The theorems.                                                             *)

\* What holds of a session at every step.
SessionInv == Streams /\ Control

\* The steps of the session's goroutine keep it ...
LEMMA SessionKeeps ==
  ASSUME SessionInv, ~miscounted, ~overtaken, ~stale, Session
  PROVE  SessionInv'
<1>1. Streams /\ Control
  BY DEF SessionInv
<1>2. ASSUME NEW n, ReadCommand(n) PROVE SessionInv'
  <2>1. Streams'
    BY <1>1, <1>2, ReadCommandStreams
  <2>2. /\ at # "wait" /\ at' # "wait"
        /\ UNCHANGED <<script, replies, request, answer, lock_id, lock, owed, taken, overtaken>>
    BY <1>2 DEF ReadCommand
  <2>3. Control'
    BY <1>1, <2>2, ReadingControl
  <2> QED BY <2>1, <2>3 DEF SessionInv
<1>3. CASE ParseCommand
  <2>1. Streams'
    BY <1>1, <1>3, ParseCommandStreams
  <2>2. /\ at # "wait" /\ at' # "wait"
        /\ UNCHANGED <<script, replies, request, answer, lock_id, lock, owed, taken, overtaken>>
    BY <1>3 DEF ParseCommand, stream
  <2>3. Control'
    BY <1>1, <2>2, ReadingControl
  <2> QED BY <2>1, <2>3 DEF SessionInv
<1>4. CASE RunOther
  <2>1. PICK M : M = OtherReply(parser.args)
    OBVIOUS
  <2>2. at = "run" /\ Reply(M) /\ UNCHANGED <<answer, lock_id, lock, owed, taken, overtaken>>
    BY <1>4, <2>1 DEF RunOther
  <2>3. Proper(M)
    BY <1>1, <2>1, <2>2, HandlerHas, OtherProper
  <2>4. Streams' /\ Control'
    BY <1>1, <2>2, <2>3, ReplyStreams, ReplyControl
  <2> QED BY <2>4 DEF SessionInv
<1>5. CASE RunRefused
  <2>1. PICK M : M = BuildReply(FALSE, ERR, <<>>)
    OBVIOUS
  <2>2. at = "run" /\ Reply(M) /\ UNCHANGED <<answer, lock_id, lock, owed, taken, overtaken>>
    BY <1>5, <2>1 DEF RunRefused
  <2>3. Proper(M)
    BY <2>1, Texts
  <2>4. Streams' /\ Control'
    BY <1>1, <2>2, <2>3, ReplyStreams, ReplyControl
  <2> QED BY <2>4 DEF SessionInv
<1>6. CASE RunLock
  <2>1. at = "run" /\ at' = "wait" /\ UNCHANGED <<stream, parser, miscounted, stale>>
    BY <1>6 DEF RunLock
  <2>2. Streams'
    BY <1>1, <2>1, WaitStreams
  <2>3. Control'
    BY <1>1, <1>6, RunLockControl
  <2> QED BY <2>2, <2>3 DEF SessionInv
<1>7. CASE RunUnlock
  <2>1. at = "run" /\ at' = "wait" /\ UNCHANGED <<stream, parser, miscounted, stale>>
    BY <1>7 DEF RunUnlock
  <2>2. Streams'
    BY <1>1, <2>1, WaitStreams
  <2>3. Control'
    BY <1>1, <1>7, RunUnlockControl
  <2> QED BY <2>2, <2>3 DEF SessionInv
<1>8. CASE GiveOwed
  <2>1. UNCHANGED <<stream, parser, at, miscounted, stale>>
    BY <1>8 DEF GiveOwed
  <2>2. Streams' /\ Control'
    BY <1>1, <1>8, <2>1, SameStreams, GiveOwedControl
  <2> QED BY <2>2 DEF SessionInv
<1>9. CASE TakeResult
  <2>1. PICK g : g = Head(lock_waiter)
    OBVIOUS
  <2>2. PICK M : M = BuildReply(TRUE, <<>>, ResultArgs(g))
    OBVIOUS
  <2>3. Control' /\ g \in Result /\ at = "wait" /\ Reply(M)
    BY <1>1, <1>9, <2>1, <2>2, TakeResultControl
  <2>4. Proper(M)
    <3>1. g \in [request : Nat, result : {"0", "1", "2"}]
      BY <2>3 DEF Result
    <3> QED BY <2>2, <3>1, ResultProper
  <2>5. Streams'
    BY <1>1, <2>3, <2>4, ReplyStreams
  <2> QED BY <2>3, <2>5 DEF SessionInv
<1> QED BY <1>2, <1>3, <1>4, <1>5, <1>6, <1>7, <1>8, <1>9 DEF Session

\* ... and so do those of the client ...
LEMMA ClientKeeps ==
  ASSUME SessionInv, ~miscounted, ~overtaken, ~stale, Client
  PROVE  SessionInv'
<1>1. Streams /\ Control
  BY DEF SessionInv
<1>2. CASE Send
  <2>1. Streams'
    BY <1>1, <1>2, SendStreams
  <2>2. at' = at /\ UNCHANGED <<script, replies, request, answer, lock_id, lock, owed, taken, overtaken>>
    BY <1>2 DEF Send
  <2>3. Control'
    BY <1>1, <2>2, ReadingControl
  <2> QED BY <2>1, <2>3 DEF SessionInv
<1>3. ASSUME NEW n, ReadReply(n) PROVE SessionInv'
  <2>1. Streams'
    BY <1>1, <1>3, ReadReplyStreams
  <2>2. at' = at /\ UNCHANGED <<script, replies, request, answer, lock_id, lock, owed, taken, overtaken>>
    BY <1>3 DEF ReadReply
  <2>3. Control'
    BY <1>1, <2>2, ReadingControl
  <2> QED BY <2>1, <2>3 DEF SessionInv
<1>4. CASE ParseReply
  <2>1. Streams'
    BY <1>1, <1>4, ParseReplyStreams
  <2>2. at' = at /\ UNCHANGED <<script, replies, request, answer, lock_id, lock, owed, taken, overtaken>>
    BY <1>4 DEF ParseReply
  <2>3. Control'
    BY <1>1, <2>2, ReadingControl
  <2> QED BY <2>1, <2>3 DEF SessionInv
<1> QED BY <1>2, <1>3, <1>4 DEF Client

\* ... and of the goroutines of other sessions and of the database.
LEMMA OthersKeep ==
  ASSUME SessionInv, ~miscounted, ~overtaken, ~stale, Others
  PROVE  SessionInv'
<1>1. Streams /\ Control
  BY DEF SessionInv
<1>2. PICK r \in Lines : WakeUp(r) \/ GiveWoken(r) \/ DoTimeOut(r) \/ DoExpried(r)
  BY DEF Others
<1>3. UNCHANGED <<stream, parser, at, miscounted, stale>>
  BY <1>2 DEF WakeUp, GiveWoken, DoTimeOut, DoExpried
<1>4. Streams'
  BY <1>1, <1>3, SameStreams
<1>5. Control'
  BY <1>1, <1>2, WakeUpControl, GiveWokenControl, DoTimeOutControl, DoExpriedControl
<1> QED BY <1>4, <1>5 DEF SessionInv

\* The variables, one by one, when nothing happens.
LEMMA StutterKeeps ==
  ASSUME SessionInv, UNCHANGED vars
  PROVE  SessionInv'
<1>1. UNCHANGED <<script, sent, toServer, toClient, replies, results, reader, parser, at, request,
                  lock_request_id, lock_waiter, lock_id, lock, owed, taken, miscounted, overtaken, stale>>
  BY DEF vars, stream, answer
<1>2. Streams'
  BY <1>1, SameStreams DEF SessionInv, stream
<1>3. Control'
  BY <1>1 DEF SessionInv, Control, ControlTypes, UnlockFindsLock, OwnResult, Turn, Awaited, OnlyOne
<1> QED BY <1>2, <1>3 DEF SessionInv

\* It is an invariant.
LEMMA SessionInvariant == Spec => []SessionInv
<1>1. Init => SessionInv
  BY StreamsInit, ControlInit DEF SessionInv
<1>2. SessionInv /\ [Next]_vars => SessionInv'
  BY SessionKeeps, ClientKeeps, OthersKeep, StutterKeeps DEF Next
<1> QED BY <1>1, <1>2, PTL DEF Spec

\* For every script and however the bytes of its commands come in: a handler runs
\* with the arguments the client gave, in the order the commands were sent, and
\* neither parser refuses what the other end has built.
THEOREM EveryCommandAsSent == Spec => []CommandsAsSent
<1>1. SessionInv => CommandsAsSent
  <2> SUFFICES ASSUME SessionInv PROVE CommandsAsSent
    OBVIOUS
  <2>1. Streams /\ Control /\ StreamTypes /\ ControlTypes
    BY DEF SessionInv, Streams, Control
  <2>2. TypeOK
    <3>1. Len(lock_waiter) <= 4
      <4>1. Len(lock_waiter) \in Nat /\ Len(lock_waiter) <= 1
        BY <2>1 DEF ControlTypes
      <4> QED BY <4>1
    <3>2. /\ script \in Scripts /\ sent \in 0..Len(script) /\ at \in {"read", "parse", "run", "wait", "end"}
          /\ ~parser.error /\ (stale \/ ~reader.error)
      BY <2>1 DEF Streams, StreamTypes, ClientTypes
    <3>3. /\ request \in 0..Len(script) /\ lock_request_id \in 0..Len(script) /\ lock_id \in 0..Len(script)
          /\ lock \in [Lines -> {"none", "waiting", "woken", "lapsed", "held", "gone"}]
      BY <2>1 DEF ControlTypes
    <3> QED BY <3>1, <3>2, <3>3 DEF TypeOK
  <2>3. (at \in {"run", "wait"} /\ ~miscounted) => parser.args = script[Done + 1]
    BY <2>1, HandlerHas DEF Done, Streams
  <2> QED BY <2>2, <2>3 DEF CommandsAsSent
<1> QED BY <1>1, SessionInvariant, PTL

\* For every script and however the bytes of its replies come in: what the client's
\* Read returns is what the session replied, the result of a LOCK or an UNLOCK as it
\* was written, the message of an error, and an error for any other reply.
THEOREM EveryReplyAsWritten == Spec => []RepliesAsWritten
<1>1. SessionInv => RepliesAsWritten
  <2> SUFFICES ASSUME SessionInv, ~miscounted, ~stale PROVE RepliesAsWritten
    BY DEF RepliesAsWritten
  <2>1. AllMeant /\ results \in Seq(Received)
    BY DEF SessionInv, Streams, ClientTypes
  <2>2. DOMAIN results = 1..Len(results)
    BY <2>1
  <2> QED BY <2>1, <2>2 DEF RepliesAsWritten, AllMeant, Returned
<1> QED BY <1>1, SessionInvariant, PTL

\* For every script, whatever other goroutines do with the session's locks: a
\* handler takes its own result, and the session knows the lock it got last.
THEOREM EverySessionKeepsOwn == Spec => []SessionKeepsOwn
<1>1. SessionInv => SessionKeepsOwn
  BY DEF SessionInv, Control, SessionKeepsOwn
<1> QED BY <1>1, SessionInvariant, PTL
=============================================================================
