----------------------------- MODULE Aof_proofs -----------------------------
(* The files of the log, for every number of leases, sizes and indexes: what *)
(* a restart reads is what was written.                                      *)
EXTENDS Aof, FiniteSetTheorems, SequenceTheorems, WellFoundedInduction, TLAPS

-----------------------------------------------------------------------------
(* Induction without operator parameters: a set of numbers, and the least    *)
(* number outside it.                                                        *)

\* A set that has 0 and, with a number below N, the next one, has all up to N.
LEMMA Upto ==
  ASSUME NEW N \in Nat, NEW P, 0 \in P, \A n \in 0..N : n \in P /\ n < N => n + 1 \in P
  PROVE  \A n \in 0..N : n \in P
<1>. DEFINE Bad == {n \in 0..N : n \notin P}
            Below == {0..n : n \in Bad}
            R == StrictSubsetOrdering(Nat)
<1>1. SUFFICES ASSUME Bad # {} PROVE FALSE
  OBVIOUS
<1>2. PICK T \in Below : \A U \in Below : <<U, T>> \notin R
  <2>1. IsWellFoundedOn(R, FiniteSubsetsOf(Nat))
    BY FS_StrictSubsetOrderingWellFounded
  <2>2. Below \subseteq FiniteSubsetsOf(Nat)
    <3>1. ASSUME NEW n \in 0..N PROVE 0..n \in SUBSET Nat /\ IsFiniteSet(0..n)
      BY FS_Interval
    <3>. QED
      BY <3>1 DEF FiniteSubsetsOf
  <2>3. Below # {}
    BY <1>1
  <2>. HIDE DEF R, Below
  <2>. QED
    BY <2>1, <2>2, <2>3, WFMin
<1>3. PICK m \in Bad : T = 0..m
  OBVIOUS
<1>4. \A k \in Bad : ~(k < m)
  <2>. SUFFICES ASSUME NEW k \in Bad, k < m PROVE FALSE
    OBVIOUS
  <2>1. k \in Nat /\ m \in Nat
    OBVIOUS
  <2>2. (0..k) \subseteq 0..m /\ m \in 0..m /\ m \notin 0..k /\ (0..m) \subseteq Nat
    BY <2>1
  <2>3. (0..k) \in SUBSET Nat /\ (0..m) \in SUBSET Nat /\ 0..k # 0..m
    BY <2>2
  <2>4. <<0..k, 0..m>> \in R
    BY <2>2, <2>3 DEF StrictSubsetOrdering
  <2>5. 0..k \in Below
    OBVIOUS
  <2>. QED
    BY <1>2, <1>3, <2>4, <2>5
<1>5. m # 0 /\ m - 1 \in 0..N /\ m - 1 < N
  OBVIOUS
<1>6. m - 1 \in P
  BY <1>4, <1>5
<1>. QED
  BY <1>5, <1>6

Steps(N, V, a, step) == N \in Nat /\ a \in V /\ step \in [(1..N) \X V -> V]

Iterates(N, V, a, step, g) ==
  g \in [0..N -> V] /\ g[0] = a /\ \A k \in 1..N : g[k] = step[<<k, g[k - 1]>>]

\* A function whose value at n comes from the one at n - 1 exists.
LEMMA Recursion ==
  ASSUME NEW N, NEW V, NEW a, NEW step, Steps(N, V, a, step)
  PROVE  \E g : Iterates(N, V, a, step, g)
<1>0. N \in Nat /\ a \in V /\ step \in [(1..N) \X V -> V]
  BY DEF Steps
<1>. DEFINE Is(n, g) == g[0] = a /\ \A k \in 1..n : g[k] = step[<<k, g[k - 1]>>]
            P == {n \in 0..N : \E g \in [0..n -> V] : Is(n, g)}
<1>1. 0 \in P
  <2>1. PICK g : g = [k \in 0..0 |-> a]
    OBVIOUS
  <2>2. g \in [0..0 -> V] /\ Is(0, g)
    BY <1>0, <2>1
  <2>. HIDE DEF Is
  <2>. QED
    BY <1>0, <2>2
<1>2. ASSUME NEW n \in 0..N, n \in P, n < N PROVE n + 1 \in P
  <2>1. PICK g \in [0..n -> V] : Is(n, g)
    BY <1>2
  <2>2. PICK v : v = step[<<n + 1, g[n]>>]
    OBVIOUS
  <2>3. v \in V
    <3>1. g[n] \in V /\ n + 1 \in 1..N
      BY <1>0, <1>2
    <3>2. <<n + 1, g[n]>> \in (1..N) \X V
      BY <3>1
    <3>. QED
      BY <1>0, <2>2, <3>2
  <2>4. PICK h : h = [k \in 0..(n + 1) |-> IF k = n + 1 THEN v ELSE g[k]]
    OBVIOUS
  <2>5. h \in [0..(n + 1) -> V]
    BY <2>3, <2>4
  <2>6. h[n + 1] = v /\ \A k \in 0..n : h[k] = g[k]
    BY <2>4
  <2>7. Is(n + 1, h)
    <3>1. h[0] = a
      BY <2>1, <2>6
    <3>2. ASSUME NEW k \in 1..(n + 1) PROVE h[k] = step[<<k, h[k - 1]>>]
      <4>1. CASE k = n + 1
        BY <2>2, <2>6, <4>1
      <4>2. CASE k \in 1..n
        BY <2>1, <2>6, <4>2
      <4>. QED
        BY <4>1, <4>2
    <3>. QED
      BY <3>1, <3>2
  <2>8. n + 1 \in 0..N
    BY <1>0, <1>2
  <2>. HIDE DEF Is
  <2>. QED
    BY <2>5, <2>7, <2>8
<1>3. N \in P
  <2>. HIDE DEF P
  <2>1. \A n \in 0..N : n \in P
    BY <1>0, <1>1, <1>2, Upto
  <2>. QED
    BY <1>0, <2>1
<1>4. PICK g \in [0..N -> V] : Is(N, g)
  BY <1>3
<1>5. Iterates(N, V, a, step, g)
  BY <1>4 DEF Iterates
<1>. QED
  BY <1>5

-----------------------------------------------------------------------------
(* What loading keeps of a file's records.                                   *)

Keeping(s, over, g) ==
  /\ g \in [0..Len(s) -> Seq(Record)] /\ g[0] = <<>>
  /\ \A k \in 1..Len(s) :
       g[k] = IF s[k].lease \in over THEN g[k - 1] ELSE Append(g[k - 1], s[k])

\* Unexpired is computed record by record.
LEMMA UnexpiredKeeps ==
  ASSUME NEW s \in Seq(Record), NEW over
  PROVE  \E g : Keeping(s, over, g) /\ Unexpired(s, over) = g[Len(s)]
<1>. DEFINE Is(g) == g = [k \in 0..Len(s) |->
                            IF k = 0 THEN <<>>
                            ELSE IF s[k].lease \in over THEN g[k - 1] ELSE Append(g[k - 1], s[k])]
<1>1. PICK N \in Nat : N = Len(s)
  OBVIOUS
<1>v. PICK V : V = Seq(Record)
  OBVIOUS
<1>2. <<>> \in V /\ \A k \in 1..N, v \in V : Append(v, s[k]) \in V
  BY <1>1, <1>v
<1>3. PICK step : step = [x \in (1..N) \X V |->
                            IF s[x[1]].lease \in over THEN x[2] ELSE Append(x[2], s[x[1]])]
  OBVIOUS
<1>4. step \in [(1..N) \X V -> V]
  BY <1>2, <1>3
<1>5. \A k \in 1..N, v \in V :
        step[<<k, v>>] = IF s[k].lease \in over THEN v ELSE Append(v, s[k])
  BY <1>3
<1>6. PICK g \in [0..N -> V] : g[0] = <<>> /\ \A k \in 1..N : g[k] = step[<<k, g[k - 1]>>]
  <2>1. Steps(N, V, <<>>, step)
    BY <1>2, <1>4 DEF Steps
  <2>2. PICK g : Iterates(N, V, <<>>, step, g)
    BY <2>1, Recursion
  <2>3. /\ g \in [0..N -> V] /\ g[0] = <<>>
        /\ \A k \in 1..N : g[k] = step[<<k, g[k - 1]>>]
    BY <2>2 DEF Iterates
  <2>. QED
    BY <2>3
<1>7. ASSUME NEW k \in 1..N
      PROVE  g[k] = IF s[k].lease \in over THEN g[k - 1] ELSE Append(g[k - 1], s[k])
  <2>1. g[k - 1] \in V
    OBVIOUS
  <2>. QED
    BY <1>5, <1>6, <2>1
<1>8. Is(g)
  <2>1. g = [k \in 0..N |-> g[k]]
    OBVIOUS
  <2>2. ASSUME NEW k \in 0..N
        PROVE  g[k] = IF k = 0 THEN <<>>
                      ELSE IF s[k].lease \in over THEN g[k - 1] ELSE Append(g[k - 1], s[k])
    <3>1. k = 0 \/ k \in 1..N
      OBVIOUS
    <3>. QED
      BY <1>6, <1>7, <3>1
  <2>3. g = [k \in 0..N |->
               IF k = 0 THEN <<>>
               ELSE IF s[k].lease \in over THEN g[k - 1] ELSE Append(g[k - 1], s[k])]
    BY <2>1, <2>2
  <2>. QED
    BY <1>1, <1>v, <2>3
<1>9. PICK f : f = CHOOSE h : Is(h)
  OBVIOUS
<1>10. Is(f)
  <2>. HIDE DEF Is
  <2>. QED
    BY <1>8, <1>9
<1>11. Unexpired(s, over) = f[Len(s)]
  BY <1>9 DEF Unexpired
<1>12. /\ f = [k \in 0..N |-> f[k]] /\ f[0] = <<>>
       /\ \A k \in 1..N :
            f[k] = IF s[k].lease \in over THEN f[k - 1] ELSE Append(f[k - 1], s[k])
  <2>1. f = [k \in 0..N |-> IF k = 0 THEN <<>>
               ELSE IF s[k].lease \in over THEN f[k - 1] ELSE Append(f[k - 1], s[k])]
    BY <1>1, <1>v, <1>10
  <2>2. PICK r : r = [k \in 0..N |-> IF k = 0 THEN <<>>
               ELSE IF s[k].lease \in over THEN f[k - 1] ELSE Append(f[k - 1], s[k])]
    OBVIOUS
  <2>3. /\ DOMAIN r = 0..N /\ r[0] = <<>>
        /\ \A k \in 1..N :
             r[k] = IF s[k].lease \in over THEN f[k - 1] ELSE Append(f[k - 1], s[k])
    BY <2>2
  <2>4. r = [k \in 0..N |-> r[k]]
    BY <2>2
  <2>. QED
    BY <2>1, <2>2, <2>3, <2>4
<1>13. Keeping(s, over, f)
  <2>. DEFINE P == {k \in 0..N : f[k] \in V}
  <2>1. 0 \in P
    <3>1. 0 \in 0..N /\ f[0] = <<>>
      BY <1>12
    <3>2. f[0] \in V
      BY <1>2, <3>1, Zenon
    <3>. QED
      BY <3>1, <3>2, Zenon
  <2>2. ASSUME NEW k \in 0..N, k \in P, k < N PROVE k + 1 \in P
    <3>1. k + 1 \in 1..N /\ (k + 1) - 1 = k
      BY <2>2
    <3>2. f[k] \in V
      BY <2>2
    <3>3. f[k + 1] = IF s[k + 1].lease \in over THEN f[k] ELSE Append(f[k], s[k + 1])
      BY <1>12, <3>1
    <3>4. f[k + 1] \in V
      BY <1>2, <3>1, <3>2, <3>3
    <3>. QED
      BY <3>1, <3>4
  <2>3. \A k \in 0..N : k \in P
    <3>. HIDE DEF P
    <3>. QED
      BY <2>1, <2>2, Upto
  <2>4. f \in [0..N -> V]
    BY <1>12, <2>3
  <2>. QED
    BY <1>1, <1>v, <1>12, <2>4 DEF Keeping
<1>. QED
  BY <1>11, <1>13

Alike(s, t, over, g, h, n) ==
  /\ s \in Seq(Record) /\ t \in Seq(Record)
  /\ Keeping(s, over, g) /\ Keeping(t, over, h)
  /\ n \in Nat /\ n <= Len(s) /\ n <= Len(t) /\ \A k \in 1..n : s[k] = t[k]

\* ... and determined by the records: lists that begin alike keep alike.
LEMMA KeepsAlike ==
  ASSUME NEW s, NEW t, NEW over, NEW g, NEW h, NEW n, Alike(s, t, over, g, h, n)
  PROVE  g[n] = h[n]
<1>0. /\ s \in Seq(Record) /\ t \in Seq(Record)
      /\ Keeping(s, over, g) /\ Keeping(t, over, h)
      /\ n \in Nat /\ n <= Len(s) /\ n <= Len(t) /\ \A k \in 1..n : s[k] = t[k]
  BY DEF Alike
<1>. DEFINE P == {k \in 0..n : g[k] = h[k]}
<1>1. Len(s) \in Nat /\ Len(t) \in Nat
  BY <1>0
<1>2. 0 \in P
  BY <1>0 DEF Keeping
<1>3. ASSUME NEW k \in 0..n, k \in P, k < n PROVE k + 1 \in P
  <2>1. k + 1 \in 1..n /\ k + 1 \in 1..Len(s) /\ k + 1 \in 1..Len(t) /\ (k + 1) - 1 = k
    BY <1>0, <1>1, <1>3
  <2>2. g[k] = h[k] /\ s[k + 1] = t[k + 1]
    BY <1>0, <1>3, <2>1
  <2>3. g[k + 1] = IF s[k + 1].lease \in over THEN g[k] ELSE Append(g[k], s[k + 1])
    BY <1>0, <2>1 DEF Keeping
  <2>4. h[k + 1] = IF t[k + 1].lease \in over THEN h[k] ELSE Append(h[k], t[k + 1])
    BY <1>0, <2>1 DEF Keeping
  <2>5. g[k + 1] = h[k + 1]
    BY <2>2, <2>3, <2>4
  <2>. QED
    BY <2>1, <2>5
<1>4. \A k \in 0..n : k \in P
  <2>. HIDE DEF P
  <2>. QED
    BY <1>0, <1>2, <1>3, Upto
<1>. QED
  BY <1>0, <1>4

\* Nothing is kept of nothing.
LEMMA UnexpiredNothing == \A over : Unexpired(<<>>, over) = <<>>
<1>. SUFFICES ASSUME NEW over PROVE Unexpired(<<>>, over) = <<>>
  OBVIOUS
<1>1. PICK g : Keeping(<<>>, over, g) /\ Unexpired(<<>>, over) = g[Len(<<>>)]
  <2>1. <<>> \in Seq(Record)
    OBVIOUS
  <2>. QED
    BY <2>1, UnexpiredKeeps
<1>. QED
  BY <1>1 DEF Keeping

\* What is kept are records.
LEMMA UnexpiredType == \A over, s : s \in Seq(Record) => Unexpired(s, over) \in Seq(Record)
<1>. SUFFICES ASSUME NEW over, NEW s \in Seq(Record) PROVE Unexpired(s, over) \in Seq(Record)
  OBVIOUS
<1>1. PICK g : Keeping(s, over, g) /\ Unexpired(s, over) = g[Len(s)]
  BY UnexpiredKeeps
<1>2. Len(s) \in 0..Len(s)
  OBVIOUS
<1>. QED
  BY <1>1, <1>2 DEF Keeping

\* One record more is kept if its lease is not over.
LEMMA UnexpiredMore ==
  ASSUME NEW over, NEW s \in Seq(Record), NEW r \in Record
  PROVE  Unexpired(Append(s, r), over) =
           IF r.lease \in over THEN Unexpired(s, over) ELSE Append(Unexpired(s, over), r)
<1>0. Append(s, r) \in Seq(Record)
  OBVIOUS
<1>1. PICK t \in Seq(Record) : t = Append(s, r)
  BY <1>0
<1>2. PICK n \in Nat : n = Len(s)
  OBVIOUS
<1>3. Len(t) = n + 1 /\ t[n + 1] = r /\ \A k \in 1..n : t[k] = s[k]
  BY <1>1, <1>2
<1>4. PICK g : Keeping(s, over, g) /\ Unexpired(s, over) = g[Len(s)]
  BY UnexpiredKeeps
<1>5. PICK h : Keeping(t, over, h) /\ Unexpired(t, over) = h[Len(t)]
  BY UnexpiredKeeps
<1>6. g[n] = h[n]
  <2>1. n <= Len(s) /\ n <= Len(t)
    BY <1>2, <1>3
  <2>2. \A k \in 1..n : s[k] = t[k]
    BY <1>3
  <2>3. Alike(s, t, over, g, h, n)
    BY <1>4, <1>5, <2>1, <2>2 DEF Alike
  <2>. QED
    BY <2>3, KeepsAlike
<1>7. h[n + 1] = IF r.lease \in over THEN h[n] ELSE Append(h[n], r)
  <2>1. n + 1 \in 1..Len(t) /\ (n + 1) - 1 = n
    BY <1>3
  <2>2. h[n + 1] = IF t[n + 1].lease \in over THEN h[(n + 1) - 1] ELSE Append(h[(n + 1) - 1], t[n + 1])
    BY <1>5, <2>1 DEF Keeping
  <2>. QED
    BY <1>3, <2>1, <2>2
<1>. QED
  BY <1>1, <1>2, <1>3, <1>4, <1>5, <1>6, <1>7

\* A set that has the empty list and, with a list, every list of one element
\* more, has all lists.
LEMMA Lists ==
  ASSUME NEW S, NEW P, <<>> \in P, \A s \in Seq(S), x \in S : s \in P => Append(s, x) \in P
  PROVE  \A s \in Seq(S) : s \in P
<1>. SUFFICES ASSUME NEW s \in Seq(S) PROVE s \in P
  OBVIOUS
<1>1. PICK N \in Nat : N = Len(s)
  OBVIOUS
<1>0. PICK F : \A n \in 0..N : F[n] = SubSeq(s, 1, n)
  <2>1. \A n \in 0..N : [m \in 0..N |-> SubSeq(s, 1, m)][n] = SubSeq(s, 1, n)
    BY Zenon
  <2>. QED
    BY <2>1, Zenon
<1>. DEFINE Q == {n \in 0..N : F[n] \in P}
<1>2. 0 \in Q
  <2>1. SubSeq(s, 1, 0) = <<>>
    BY SubSeqEmpty
  <2>2. 0 \in 0..N
    OBVIOUS
  <2>3. F[0] = <<>>
    BY <1>0, <2>1, <2>2, Zenon
  <2>. QED
    BY <2>2, <2>3, Zenon
<1>3. ASSUME NEW n \in 0..N, n \in Q, n < N PROVE n + 1 \in Q
  <2>1. \A i \in 1..n : s[i] \in S
    BY <1>1
  <2>2. PICK t : t = SubSeq(s, 1, n)
    OBVIOUS
  <2>3. t \in Seq(S) /\ t \in P
    <3>1. F[n] = t
      BY <1>0, <2>2, Zenon
    <3>2. t \in P
      BY <1>3, <3>1
    <3>3. t \in Seq(S)
      BY <2>1, <2>2, SubSeqProperties
    <3>. QED
      BY <3>2, <3>3
  <2>4. n + 1 \in 1..Len(s) /\ n + 1 \in 1..(n + 1) /\ 1 \in 1..Len(s) /\ n + 1 \in 1..Len(s)
    BY <1>1, <1>3
  <2>5. SubSeq(s, 1, n + 1) = SubSeq(s, 1, (n + 1) - 1) \o <<s[n + 1]>>
    BY <2>4, SubSeqRecursiveSecond
  <2>6. s[n + 1] \in S
    BY <2>4
  <2>7. Append(t, s[n + 1]) = t \o <<s[n + 1]>>
    BY <2>3, <2>6, AppendIsConcat
  <2>8. (n + 1) - 1 = n
    OBVIOUS
  <2>9. SubSeq(s, 1, n + 1) = Append(t, s[n + 1])
    BY <2>2, <2>5, <2>7, <2>8
  <2>10. Append(t, s[n + 1]) \in P
    BY <2>3, <2>6
  <2>11. n + 1 \in 0..N
    BY <1>3
  <2>12. F[n + 1] \in P
    BY <1>0, <2>9, <2>10, <2>11, Zenon
  <2>. QED
    BY <2>11, <2>12, Zenon
<1>4. \A n \in 0..N : n \in Q
  <2>. HIDE DEF Q
  <2>. QED
    BY <1>2, <1>3, Upto
<1>5. SubSeq(s, 1, N) = s
  BY <1>1, SubSeqFull
<1>6. N \in 0..N
  OBVIOUS
<1>7. F[N] = s /\ F[N] \in P
  BY <1>0, <1>4, <1>5, <1>6, Zenon
<1>. QED
  BY <1>7

\* Appending to the end of two lists is appending to the second.
LEMMA AppendLast ==
  ASSUME NEW a \in Seq(Record), NEW b \in Seq(Record), NEW x \in Record
  PROVE  Append(a \o b, x) = a \o Append(b, x)
<1>1. <<x>> \in Seq(Record) /\ a \o b \in Seq(Record)
  BY ConcatProperties
<1>2. Append(a \o b, x) = (a \o b) \o <<x>> /\ Append(b, x) = b \o <<x>>
  BY <1>1, AppendIsConcat
<1>. QED
  BY <1>1, <1>2, ConcatAssociative

\* What is kept of two lists one after the other.
LEMMA UnexpiredConcat ==
  ASSUME NEW over, NEW s \in Seq(Record), NEW t \in Seq(Record)
  PROVE  Unexpired(s \o t, over) = Unexpired(s, over) \o Unexpired(t, over)
<1>. DEFINE P == {u \in Seq(Record) :
                    Unexpired(s \o u, over) = Unexpired(s, over) \o Unexpired(u, over)}
<1>0. PICK a \in Seq(Record) : a = Unexpired(s, over)
  BY UnexpiredType
<1>1. <<>> \in P
  <2>1. s \o <<>> = s /\ a \o <<>> = a /\ <<>> \in Seq(Record)
    BY ConcatEmptySeq
  <2>. QED
    BY <1>0, <2>1, UnexpiredNothing
<1>2. ASSUME NEW u \in Seq(Record), NEW r \in Record, u \in P PROVE Append(u, r) \in P
  <2>1. PICK b \in Seq(Record) : b = Unexpired(u, over)
    BY UnexpiredType
  <2>2. PICK c \in Seq(Record) : c = s \o u
    <3>1. s \o u \in Seq(Record)
      BY ConcatProperties
    <3>. QED
      BY <3>1
  <2>3. Unexpired(c, over) = a \o b
    BY <1>0, <1>2, <2>1, <2>2
  <2>4. Append(c, r) = s \o Append(u, r)
    <3>1. Append(s \o u, r) = s \o Append(u, r)
      BY AppendLast, ZenonT(60)
    <3>. QED
      BY <2>2, <3>1, Zenon
  <2>5. Unexpired(Append(c, r), over) = IF r.lease \in over THEN a \o b ELSE Append(a \o b, r)
    <3>1. Unexpired(Append(c, r), over) =
            IF r.lease \in over THEN Unexpired(c, over) ELSE Append(Unexpired(c, over), r)
      BY UnexpiredMore
    <3>. QED
      BY <2>3, <3>1, Zenon
  <2>6. Unexpired(Append(u, r), over) = IF r.lease \in over THEN b ELSE Append(b, r)
    BY <2>1, UnexpiredMore
  <2>7. Append(a \o b, r) = a \o Append(b, r)
    BY AppendLast, ZenonT(60)
  <2>8. Unexpired(s \o Append(u, r), over) = a \o Unexpired(Append(u, r), over)
    BY <2>4, <2>5, <2>6, <2>7
  <2>9. Append(u, r) \in Seq(Record)
    OBVIOUS
  <2>. QED
    BY <1>0, <2>8, <2>9
<1>3. \A u \in Seq(Record) : u \in P
  <2>. HIDE DEF P
  <2>. QED
    BY <1>1, <1>2, Lists
<1>. QED
  BY <1>3

\* A lease that has expired stays expired: filtering later is filtering again.
LEMMA UnexpiredTwice ==
  ASSUME NEW over, NEW more, over \subseteq more, NEW s \in Seq(Record)
  PROVE  Unexpired(Unexpired(s, over), more) = Unexpired(s, more)
<1>. DEFINE P == {u \in Seq(Record) : Unexpired(Unexpired(u, over), more) = Unexpired(u, more)}
<1>1. <<>> \in P
  <2>1. <<>> \in Seq(Record)
    OBVIOUS
  <2>. QED
    BY <2>1, UnexpiredNothing
<1>2. ASSUME NEW u \in Seq(Record), NEW r \in Record, u \in P PROVE Append(u, r) \in P
  <2>1. PICK a \in Seq(Record) : a = Unexpired(u, over)
    BY UnexpiredType
  <2>2. Unexpired(a, more) = Unexpired(u, more)
    BY <1>2, <2>1
  <2>3. Unexpired(Append(u, r), over) = IF r.lease \in over THEN a ELSE Append(a, r)
    BY <2>1, UnexpiredMore
  <2>4. Unexpired(Append(a, r), more) =
             IF r.lease \in more THEN Unexpired(a, more) ELSE Append(Unexpired(a, more), r)
    BY UnexpiredMore
  <2>5. Unexpired(Append(u, r), more) =
             IF r.lease \in more THEN Unexpired(u, more) ELSE Append(Unexpired(u, more), r)
    BY UnexpiredMore
  <2>6. Unexpired(Unexpired(Append(u, r), over), more) = Unexpired(Append(u, r), more)
    BY <2>2, <2>3, <2>4, <2>5
  <2>7. Append(u, r) \in Seq(Record)
    OBVIOUS
  <2>. QED
    BY <2>6, <2>7
<1>3. \A u \in Seq(Record) : u \in P
  <2>. HIDE DEF P
  <2>. QED
    BY <1>1, <1>2, Lists
<1>. QED
  BY <1>3
-----------------------------------------------------------------------------
(* The log as the parts of its files, in the order of their numbers.         *)

Top == MaxIndex + 1

\* One list of records for each number of a file.
Parts == [0..Top -> Seq(Record)]

\* g[n] is what the files before n hold together.
Joins(c, g) ==
  /\ g \in [0..(Top + 1) -> Seq(Record)] /\ g[0] = <<>>
  /\ \A n \in 0..Top : g[n + 1] = g[n] \o c[n]

Joined(c) == CHOOSE g : Joins(c, g)

Log(c) == Joined(c)[Top + 1]

\* The largest number a file can have.
LEMMA TopNat == Top \in Nat /\ Top <= 99
BY AofConstants DEF Top

\* The parts can be joined.
LEMMA JoinedJoins == \A c \in Parts : Joins(c, Joined(c))
<1>. SUFFICES ASSUME NEW c \in Parts PROVE \E g : Joins(c, g)
  BY DEF Joined
<1>1. PICK N \in Nat : N = Top + 1
  BY TopNat
<1>v. PICK V : V = Seq(Record)
  OBVIOUS
<1>2. ASSUME NEW k \in 1..N, NEW v \in V PROVE v \o c[k - 1] \in V
  <2>1. k - 1 \in 0..Top
    BY <1>1, <1>v, TopNat
  <2>2. c[k - 1] \in Seq(Record)
    BY <2>1 DEF Parts
  <2>. QED
    BY <1>1, <1>v, <2>2, ConcatProperties
<1>3. PICK step : step = [x \in (1..N) \X V |-> x[2] \o c[x[1] - 1]]
  OBVIOUS
<1>4. step \in [(1..N) \X V -> V]
  BY <1>2, <1>3
<1>5. \A k \in 1..N, v \in V : step[<<k, v>>] = v \o c[k - 1]
  BY <1>3
<1>6. <<>> \in V
  BY <1>1, <1>v
<1>7. PICK g \in [0..N -> V] : g[0] = <<>> /\ \A k \in 1..N : g[k] = step[<<k, g[k - 1]>>]
  <2>1. Steps(N, V, <<>>, step)
    BY <1>4, <1>6 DEF Steps
  <2>2. PICK g : Iterates(N, V, <<>>, step, g)
    BY <2>1, Recursion
  <2>3. /\ g \in [0..N -> V] /\ g[0] = <<>>
        /\ \A k \in 1..N : g[k] = step[<<k, g[k - 1]>>]
    BY <2>2 DEF Iterates
  <2>. QED
    BY <2>3
<1>8. ASSUME NEW n \in 0..Top PROVE g[n + 1] = g[n] \o c[n]
  <2>1. n + 1 \in 1..N /\ (n + 1) - 1 = n /\ n \in 0..N
    BY <1>1, <1>v, TopNat
  <2>2. g[n] \in V
    BY <2>1
  <2>3. g[n + 1] = step[<<n + 1, g[n]>>]
    BY <1>7, <2>1
  <2>4. step[<<n + 1, g[n]>>] = g[n] \o c[(n + 1) - 1]
    BY <1>5, <2>1, <2>2
  <2>. QED
    BY <2>1, <2>3, <2>4
<1>9. Joins(c, g)
  BY <1>1, <1>v, <1>7, <1>8 DEF Joins
<1>. QED
  BY <1>9

\* The log is a list of records.
LEMMA LogType == \A c \in Parts : Log(c) \in Seq(Record)
<1>1. Top + 1 \in 0..(Top + 1)
  BY TopNat
<1>. QED
  BY <1>1, JoinedJoins DEF Joins, Log

\* Parts without records add nothing.
LEMMA JoinedFlat ==
  ASSUME NEW c \in Parts, NEW g, Joins(c, g), NEW a \in 0..(Top + 1), NEW b \in a..(Top + 1),
         \A n \in 0..Top : a <= n /\ n < b => c[n] = <<>>
  PROVE  g[b] = g[a]
<1>. DEFINE P == {n \in 0..(b - a) : g[a + n] = g[a]}
<1>1. a \in Nat /\ b \in Nat /\ b - a \in Nat /\ 0 \in 0..(b - a) /\ a + 0 = a
  BY TopNat
<1>2. 0 \in P
  BY <1>1
<1>3. ASSUME NEW n \in 0..(b - a), n \in P, n < b - a PROVE n + 1 \in P
  <2>1. PICK m \in 0..Top : m = a + n
    BY <1>1, <1>3, TopNat
  <2>2. a <= m /\ m < b /\ m + 1 = a + (n + 1) /\ n + 1 \in 0..(b - a) /\ m \in 0..(Top + 1)
    BY <1>1, <1>3, <2>1, TopNat
  <2>3. g[m + 1] = g[m] \o c[m] /\ c[m] = <<>> /\ g[m] \in Seq(Record) /\ g[m] = g[a]
    BY <1>3, <2>1, <2>2 DEF Joins
  <2>4. g[m + 1] = g[m]
    BY <2>3, ConcatEmptySeq
  <2>. QED
    BY <2>2, <2>3, <2>4
<1>4. \A n \in 0..(b - a) : n \in P
  <2>. HIDE DEF P
  <2>. QED
    BY <1>1, <1>2, <1>3, Upto
<1>5. b - a \in 0..(b - a) /\ a + (b - a) = b
  BY <1>1
<1>. QED
  BY <1>4, <1>5

SameParts(c, d, g, h, a, b) ==
  /\ c \in Parts /\ d \in Parts /\ Joins(c, g) /\ Joins(d, h)
  /\ a \in 0..(Top + 1) /\ b \in a..(Top + 1)
  /\ \A n \in 0..Top : a <= n /\ n < b => c[n] = d[n]

\* What is the same before a is the same before b, if the parts between are.
LEMMA JoinedSame ==
  ASSUME NEW c, NEW d, NEW g, NEW h, NEW a, NEW b, SameParts(c, d, g, h, a, b), g[a] = h[a]
  PROVE  g[b] = h[b]
<1>0. /\ c \in Parts /\ d \in Parts /\ Joins(c, g) /\ Joins(d, h)
      /\ a \in 0..(Top + 1) /\ b \in a..(Top + 1)
      /\ \A n \in 0..Top : a <= n /\ n < b => c[n] = d[n]
  BY DEF SameParts
<1>1. PICK N \in Nat : N = b - a
  BY <1>0, TopNat
<1>. DEFINE P == {n \in 0..N : g[a + n] = h[a + n]}
<1>2. 0 \in P
  BY <1>0, <1>1, TopNat
<1>3. ASSUME NEW n \in 0..N, n \in P, n < N PROVE n + 1 \in P
  <2>1. PICK m \in 0..Top : m = a + n
    BY <1>0, <1>1, <1>3, TopNat
  <2>2. a <= m /\ m < b /\ m + 1 = a + (n + 1) /\ n + 1 \in 0..N
    BY <1>0, <1>1, <1>3, <2>1, TopNat
  <2>3. g[m + 1] = g[m] \o c[m] /\ h[m + 1] = h[m] \o d[m] /\ c[m] = d[m] /\ g[m] = h[m]
    BY <1>0, <1>3, <2>1, <2>2 DEF Joins
  <2>. QED
    BY <2>2, <2>3
<1>4. \A n \in 0..N : n \in P
  <2>. HIDE DEF P
  <2>. QED
    BY <1>1, <1>2, <1>3, Upto
<1>5. N \in 0..N /\ a + N = b
  BY <1>0, <1>1, TopNat
<1>. QED
  BY <1>4, <1>5

\* The same parts are the same log.
LEMMA LogSame ==
  ASSUME NEW c \in Parts, NEW d \in Parts, \A n \in 0..Top : c[n] = d[n]
  PROVE  Log(c) = Log(d)
<1>1. c = [n \in 0..Top |-> c[n]] /\ d = [n \in 0..Top |-> d[n]]
  BY DEF Parts
<1>2. c = d
  BY <1>1
<1>. QED
  BY <1>2

EndsWith(c, d, m, x) ==
  /\ c \in Parts /\ d \in Parts /\ m \in 0..Top /\ x \in Seq(Record)
  /\ d[m] = c[m] \o x /\ \A n \in 0..Top : n # m => d[n] = c[n]
  /\ \A n \in 0..Top : n > m => c[n] = <<>>

\* Records appended to the last part are appended to the log.
LEMMA LogAppends ==
  ASSUME NEW c, NEW d, NEW m, NEW x, EndsWith(c, d, m, x)
  PROVE  Log(d) = Log(c) \o x
<1>0. /\ c \in Parts /\ d \in Parts /\ m \in 0..Top /\ x \in Seq(Record)
      /\ d[m] = c[m] \o x /\ \A n \in 0..Top : n # m => d[n] = c[n]
      /\ \A n \in 0..Top : n > m => c[n] = <<>>
  BY DEF EndsWith
<1>1. PICK g, h : g = Joined(c) /\ h = Joined(d)
  OBVIOUS
<1>2. Joins(c, g) /\ Joins(d, h)
  BY <1>0, <1>1, JoinedJoins
<1>3. /\ m \in 0..(Top + 1) /\ m + 1 \in 0..(Top + 1) /\ 0 \in 0..(Top + 1)
      /\ m \in 0..(Top + 1) /\ Top + 1 \in (m + 1)..(Top + 1)
  BY <1>0, TopNat
<1>4. g[m] = h[m]
  <2>0. \A n \in 0..Top : 0 <= n /\ n < m => c[n] = d[n]
    BY <1>0
  <2>1. SameParts(c, d, g, h, 0, m)
    BY <1>0, <1>2, <1>3, <2>0 DEF SameParts
  <2>2. g[0] = h[0]
    BY <1>2 DEF Joins
  <2>. QED
    BY <2>1, <2>2, JoinedSame
<1>5. g[m + 1] = g[m] \o c[m] /\ h[m + 1] = h[m] \o d[m] /\ g[m] \in Seq(Record) /\ c[m] \in Seq(Record)
  BY <1>0, <1>2, <1>3 DEF Joins, Parts
<1>6. h[m + 1] = g[m + 1] \o x
  <2>1. PICK u \in Seq(Record), v \in Seq(Record) : u = g[m] /\ v = c[m]
    BY <1>5
  <2>2. (u \o v) \o x = u \o (v \o x)
    BY <1>0, ConcatAssociative
  <2>3. d[m] = c[m] \o x
    BY <1>0
  <2>. QED
    BY <1>4, <1>5, <2>1, <2>2, <2>3, Zenon
<1>7. g[Top + 1] = g[m + 1]
  <2>1. \A n \in 0..Top : m + 1 <= n /\ n < Top + 1 => c[n] = <<>>
    BY <1>0
  <2>. QED
    BY <1>0, <1>2, <1>3, <2>1, JoinedFlat
<1>8. h[Top + 1] = h[m + 1]
  <2>1. \A n \in 0..Top : m + 1 <= n /\ n < Top + 1 => d[n] = <<>>
    BY <1>0
  <2>. QED
    BY <1>0, <1>2, <1>3, <2>1, JoinedFlat
<1>. QED
  BY <1>1, <1>6, <1>7, <1>8 DEF Log

Filters(c, d, more) ==
  c \in Parts /\ d \in Parts /\ \A n \in 0..Top : d[n] = Unexpired(c[n], more)

\* Filtering the parts is filtering the log, up to any file.
LEMMA JoinedExpires ==
  ASSUME NEW c, NEW d, NEW more, Filters(c, d, more), NEW g, NEW h, Joins(c, g), Joins(d, h)
  PROVE  \A n \in 0..(Top + 1) : h[n] = Unexpired(g[n], more)
<1>0. c \in Parts /\ d \in Parts /\ \A n \in 0..Top : d[n] = Unexpired(c[n], more)
  BY DEF Filters
<1>1. PICK N \in Nat : N = Top + 1
  BY TopNat
<1>. DEFINE P == {n \in 0..N : h[n] = Unexpired(g[n], more)}
<1>2. 0 \in P
  <2>1. h[0] = <<>> /\ g[0] = <<>>
    BY DEF Joins
  <2>2. h[0] = Unexpired(g[0], more)
    BY <2>1, UnexpiredNothing
  <2>. QED
    BY <2>2
<1>3. ASSUME NEW n \in 0..N, n \in P, n < N PROVE n + 1 \in P
  <2>1. n \in 0..Top /\ n + 1 \in 0..N /\ n \in 0..(Top + 1)
    BY <1>1, <1>3, TopNat
  <2>2. g[n + 1] = g[n] \o c[n] /\ h[n + 1] = h[n] \o d[n]
    BY <2>1 DEF Joins
  <2>3. PICK u \in Seq(Record), v \in Seq(Record) : u = g[n] /\ v = c[n]
    BY <1>0, <2>1 DEF Joins, Parts
  <2>4. Unexpired(u \o v, more) = Unexpired(u, more) \o Unexpired(v, more)
    BY UnexpiredConcat
  <2>5. h[n] = Unexpired(u, more)
    BY <1>3, <2>3
  <2>6. d[n] = Unexpired(v, more)
    BY <1>0, <2>1, <2>3
  <2>7. h[n + 1] = Unexpired(g[n + 1], more)
    BY <2>2, <2>3, <2>4, <2>5, <2>6
  <2>. QED
    BY <2>1, <2>7
<1>4. \A n \in 0..N : n \in P
  <2>. HIDE DEF P
  <2>. QED
    BY <1>1, <1>2, <1>3, Upto
<1>. QED
  BY <1>1, <1>4

\* ... and as a whole.
LEMMA LogExpires ==
  ASSUME NEW c, NEW d, NEW more, Filters(c, d, more)
  PROVE  Log(d) = Unexpired(Log(c), more)
<1>1. PICK g, h : g = Joined(c) /\ h = Joined(d)
  OBVIOUS
<1>2. Joins(c, g) /\ Joins(d, h)
  BY <1>1, JoinedJoins DEF Filters
<1>3. Top + 1 \in 0..(Top + 1)
  BY TopNat
<1>. QED
  BY <1>1, <1>2, <1>3, JoinedExpires DEF Log
-----------------------------------------------------------------------------
(* What LoadAofFiles reads.                                                  *)

\* names lists files with records in them.
Listing(fs, names) ==
  /\ names \in Seq(Names)
  /\ \A k \in 1..Len(names) : fs[names[k]].recs \in Seq(Record)

Read(fs, names, k) == IF k \in Readable(fs, names) THEN Live(fs[names[k]].recs) ELSE <<>>

Loading(fs, names, g) ==
  /\ g \in [0..Len(names) -> Seq(Record)] /\ g[0] = <<>>
  /\ \A k \in 1..Len(names) : g[k] = g[k - 1] \o Read(fs, names, k)

\* A file is read into records.
LEMMA ReadType ==
  ASSUME NEW fs, NEW names, Listing(fs, names), NEW k \in 1..Len(names)
  PROVE  Read(fs, names, k) \in Seq(Record)
<1>1. fs[names[k]].recs \in Seq(Record)
  BY DEF Listing
<1>2. Live(fs[names[k]].recs) \in Seq(Record)
  BY <1>1, UnexpiredType DEF Live
<1>3. <<>> \in Seq(Record)
  OBVIOUS
<1>. QED
  BY <1>2, <1>3 DEF Read

\* LoadAofFiles goes file by file.
LEMMA LoadSteps ==
  ASSUME NEW fs, NEW names, Listing(fs, names)
  PROVE  \E g : Loading(fs, names, g) /\ LoadAofFiles(fs, names) = g[Len(names)]
<1>. DEFINE Is(g) == g = [k \in 0..Len(names) |->
                            IF k = 0 THEN <<>>
                            ELSE g[k - 1] \o (IF k \in Readable(fs, names) THEN Live(fs[names[k]].recs) ELSE <<>>)]
<1>1. PICK N \in Nat : N = Len(names)
  BY DEF Listing
<1>v. PICK V : V = Seq(Record)
  OBVIOUS
<1>0. PICK r : r = [k \in 1..N |-> Read(fs, names, k)]
  OBVIOUS
<1>2. <<>> \in V /\ \A k \in 1..N : r[k] \in V
  BY <1>0, <1>1, <1>v, ReadType
<1>3. PICK step : step = [x \in (1..N) \X V |-> x[2] \o r[x[1]]]
  OBVIOUS
<1>4. step \in [(1..N) \X V -> V]
  <2>1. ASSUME NEW x \in (1..N) \X V PROVE x[2] \o r[x[1]] \in V
    BY <1>1, <1>v, <1>2, ConcatProperties
  <2>. QED
    BY <1>3, <2>1
<1>5. \A k \in 1..N, v \in V : step[<<k, v>>] = v \o r[k]
  BY <1>3
<1>6. PICK g \in [0..N -> V] : g[0] = <<>> /\ \A k \in 1..N : g[k] = step[<<k, g[k - 1]>>]
  <2>1. Steps(N, V, <<>>, step)
    BY <1>2, <1>4 DEF Steps
  <2>2. PICK g : Iterates(N, V, <<>>, step, g)
    BY <2>1, Recursion
  <2>3. /\ g \in [0..N -> V] /\ g[0] = <<>>
        /\ \A k \in 1..N : g[k] = step[<<k, g[k - 1]>>]
    BY <2>2 DEF Iterates
  <2>. QED
    BY <2>3
<1>7. ASSUME NEW k \in 1..N PROVE g[k] = g[k - 1] \o r[k]
  <2>1. g[k - 1] \in V
    OBVIOUS
  <2>. QED
    BY <1>5, <1>6, <2>1
<1>8. Is(g)
  <2>1. g = [k \in 0..N |-> g[k]]
    OBVIOUS
  <2>2. ASSUME NEW k \in 0..N
        PROVE  g[k] = IF k = 0 THEN <<>> ELSE g[k - 1] \o Read(fs, names, k)
    <3>1. k = 0 \/ k \in 1..N
      OBVIOUS
    <3>2. k \in 1..N => r[k] = Read(fs, names, k)
      BY <1>0
    <3>. QED
      BY <1>6, <1>7, <3>1, <3>2
  <2>3. g = [k \in 0..N |-> IF k = 0 THEN <<>> ELSE g[k - 1] \o Read(fs, names, k)]
    BY <2>1, <2>2
  <2>. QED
    BY <1>1, <1>v, <2>3 DEF Read
<1>9. PICK f : f = CHOOSE h : Is(h)
  OBVIOUS
<1>10. Is(f)
  <2>. HIDE DEF Is
  <2>. QED
    BY <1>8, <1>9
<1>11. LoadAofFiles(fs, names) = f[Len(names)]
  BY <1>9 DEF LoadAofFiles
<1>12. /\ f = [k \in 0..N |-> f[k]] /\ f[0] = <<>>
       /\ \A k \in 1..N : f[k] = f[k - 1] \o Read(fs, names, k)
  <2>1. f = [k \in 0..N |-> IF k = 0 THEN <<>> ELSE f[k - 1] \o Read(fs, names, k)]
    BY <1>1, <1>v, <1>10 DEF Read
  <2>2. PICK q : q = [k \in 0..N |-> IF k = 0 THEN <<>> ELSE f[k - 1] \o Read(fs, names, k)]
    OBVIOUS
  <2>3. /\ DOMAIN q = 0..N /\ q[0] = <<>>
        /\ \A k \in 1..N : q[k] = f[k - 1] \o Read(fs, names, k)
    BY <2>2
  <2>4. q = [k \in 0..N |-> q[k]]
    BY <2>2
  <2>. QED
    BY <2>1, <2>2, <2>3, <2>4
<1>13. Loading(fs, names, f)
  <2>. DEFINE P == {k \in 0..N : f[k] \in V}
  <2>1. 0 \in P
    <3>1. 0 \in 0..N /\ f[0] = <<>>
      BY <1>12
    <3>2. f[0] \in V
      BY <1>2, <3>1, Zenon
    <3>. QED
      BY <3>1, <3>2, Zenon
  <2>2. ASSUME NEW k \in 0..N, k \in P, k < N PROVE k + 1 \in P
    <3>1. k + 1 \in 1..N /\ (k + 1) - 1 = k
      BY <2>2
    <3>2. f[k] \in V
      BY <2>2
    <3>3. f[k + 1] = f[k] \o r[k + 1]
      BY <1>0, <1>12, <3>1
    <3>4. f[k + 1] \in V
      BY <1>1, <1>v, <1>2, <3>1, <3>2, <3>3, ConcatProperties
    <3>. QED
      BY <3>1, <3>4
  <2>3. \A k \in 0..N : k \in P
    <3>. HIDE DEF P
    <3>. QED
      BY <2>1, <2>2, Upto
  <2>4. f \in [0..N -> V]
    BY <1>12, <2>3
  <2>. QED
    BY <1>1, <1>v, <1>12, <2>4 DEF Loading
<1>. QED
  BY <1>11, <1>13

Increasing(names) ==
  \A j, k \in 1..Len(names) : j < k => names[j] < names[k]

\* Files in the order of their numbers, all but the last with a header.
Orderly(fs, names) ==
  /\ Listing(fs, names) /\ Increasing(names) /\ ~StopsShort(fs, names)
  /\ \A k \in 1..Len(names) : /\ names[k] \in 0..Top
                              /\ ~fs[names[k]].header => fs[names[k]].recs = <<>>

\* Such a file is read to its end.
LEMMA ReadsAll ==
  ASSUME NEW fs, NEW names, Orderly(fs, names), NEW k \in 1..Len(names)
  PROVE  Read(fs, names, k) = Live(fs[names[k]].recs)
<1>0. Len(names) \in Nat /\ DOMAIN names = 1..Len(names)
  BY DEF Orderly, Listing
<1>1. \A j \in 1..Len(names) : j < Len(names) => fs[names[j]].header
  BY <1>0 DEF Orderly, StopsShort
<1>2. CASE k \in Readable(fs, names)
  BY <1>2 DEF Read
<1>3. CASE k \notin Readable(fs, names)
  <2>1. PICK j \in 1..k : ~fs[names[j]].header
    BY <1>0, <1>3 DEF Readable
  <2>2. j = k
    BY <1>0, <1>1, <2>1
  <2>3. fs[names[k]].recs = <<>>
    BY <2>1, <2>2 DEF Orderly
  <2>. QED
    BY <1>3, <2>3, UnexpiredNothing DEF Read, Live
<1>. QED
  BY <1>2, <1>3

PartsOf(fs, names) ==
  [n \in 0..Top |-> IF n \in ToSet(names) THEN Live(fs[n].recs) ELSE <<>>]

\* The parts of the listed files are lists of records.
LEMMA PartsOfType ==
  ASSUME NEW fs, NEW names, Orderly(fs, names)
  PROVE  PartsOf(fs, names) \in Parts
<1>1. ASSUME NEW n \in ToSet(names) PROVE Live(fs[n].recs) \in Seq(Record)
  <2>1. PICK k \in 1..Len(names) : n = names[k]
    BY DEF ToSet, Orderly, Listing
  <2>2. fs[n].recs \in Seq(Record)
    BY <2>1 DEF Orderly, Listing
  <2>. QED
    BY <2>2, UnexpiredType DEF Live
<1>2. <<>> \in Seq(Record)
  OBVIOUS
<1>. QED
  BY <1>1, <1>2 DEF PartsOf, Parts

\* Files in order are read as the log of their parts.
LEMMA LoadIsLog ==
  ASSUME NEW fs, NEW names, Orderly(fs, names)
  PROVE  LoadAofFiles(fs, names) = Log(PartsOf(fs, names))
<1>0. PICK N \in Nat : N = Len(names)
  BY DEF Orderly, Listing
<1>1. PICK f : Loading(fs, names, f) /\ LoadAofFiles(fs, names) = f[Len(names)]
  BY LoadSteps DEF Orderly
<1>2. PICK c \in Parts : c = PartsOf(fs, names)
  BY PartsOfType
<1>3. PICK g : Joins(c, g) /\ g = Joined(c)
  BY JoinedJoins
<1>4. \A j, k \in 1..N : j < k => names[j] < names[k]
  BY <1>0 DEF Orderly, Increasing
<1>5. /\ \A k \in 1..N : names[k] \in 0..Top /\ c[names[k]] = Live(fs[names[k]].recs)
      /\ \A n \in 0..Top : (\A k \in 1..N : names[k] # n) => c[n] = <<>>
  <2>1. ToSet(names) = {names[k] : k \in 1..N}
    BY <1>0 DEF ToSet, Orderly, Listing
  <2>2. \A k \in 1..N : names[k] \in 0..Top
    BY <1>0 DEF Orderly
  <2>. QED
    BY <1>2, <2>1, <2>2 DEF PartsOf
<1>6. PICK e : e = [k \in 0..N |-> IF k = 0 THEN 0 ELSE names[k] + 1]
  OBVIOUS
<1>7. e[0] = 0 /\ \A k \in 1..N : e[k] = names[k] + 1
  BY <1>6
<1>8. \A k \in 0..N : e[k] \in 0..(Top + 1)
  BY <1>5, <1>6, TopNat
<1>. DEFINE P == {k \in 0..N : f[k] = g[e[k]]}
<1>9. 0 \in P
  BY <1>1, <1>3, <1>7 DEF Loading, Joins
<1>10. ASSUME NEW k \in 0..N, k \in P, k < N PROVE k + 1 \in P
  <2>1. k + 1 \in 1..N /\ (k + 1) - 1 = k /\ k + 1 \in 0..N
    BY <1>10
  <2>2. PICK m \in 0..Top : m = names[k + 1]
    BY <1>5, <2>1
  <2>3. e[k] \in 0..(Top + 1) /\ m \in e[k]..(Top + 1)
    <3>1. CASE k = 0
      BY <1>7, <3>1, TopNat
    <3>2. CASE k \in 1..N
      <4>1. names[k] < m /\ e[k] = names[k] + 1 /\ names[k] \in 0..Top
        BY <1>4, <1>5, <1>7, <2>1, <2>2, <3>2
      <4>. QED
        BY <4>1, TopNat
    <3>. QED
      BY <3>1, <3>2
  <2>4. ASSUME NEW n \in 0..Top, e[k] <= n, n < m PROVE c[n] = <<>>
    <3>1. ASSUME NEW j \in 1..N PROVE names[j] # n
      <4>0. names[j] \in Int /\ n \in Int /\ m \in Int
        BY <1>5
      <4>1. CASE j = k + 1
        BY <2>2, <2>4, <4>0, <4>1
      <4>2. CASE j > k + 1
        <5>1. m < names[j]
          BY <1>4, <2>1, <2>2, <4>2
        <5>. QED
          BY <2>4, <4>0, <5>1
      <4>3. CASE j = k
        BY <1>7, <2>4, <4>0, <4>3
      <4>4. CASE j < k
        <5>1. k \in 1..N
          BY <4>4
        <5>2. names[j] < names[k] /\ e[k] = names[k] + 1 /\ names[k] \in Int
          BY <1>4, <1>5, <1>7, <4>4, <5>1
        <5>. QED
          BY <2>4, <4>0, <5>2
      <4>. QED
        BY <4>1, <4>2, <4>3, <4>4
    <3>. QED
      BY <1>5, <3>1
  <2>5. g[m] = g[e[k]]
    <3>1. PICK a : a = e[k]
      OBVIOUS
    <3>2. a \in 0..(Top + 1) /\ m \in a..(Top + 1)
      BY <2>3, <3>1
    <3>3. \A n \in 0..Top : a <= n /\ n < m => c[n] = <<>>
      BY <2>4, <3>1
    <3>4. g[m] = g[a]
      BY <1>3, <3>2, <3>3, JoinedFlat
    <3>. QED
      BY <3>1, <3>4
  <2>6. g[m + 1] = g[m] \o c[m]
    BY <1>3 DEF Joins
  <2>7. f[k + 1] = f[k] \o Live(fs[names[k + 1]].recs)
    <3>1. Read(fs, names, k + 1) = Live(fs[names[k + 1]].recs)
      BY <1>0, <2>1, ReadsAll
    <3>2. f[k + 1] = f[(k + 1) - 1] \o Read(fs, names, k + 1)
      BY <1>0, <1>1, <2>1 DEF Loading
    <3>. QED
      BY <2>1, <3>1, <3>2
  <2>8. f[k] = g[e[k]]
    BY <1>10
  <2>9. c[m] = Live(fs[names[k + 1]].recs) /\ e[k + 1] = m + 1
    BY <1>5, <1>7, <2>1, <2>2
  <2>10. f[k + 1] = g[e[k + 1]]
    BY <2>5, <2>6, <2>7, <2>8, <2>9
  <2>. QED
    BY <2>1, <2>10
<1>11. \A k \in 0..N : k \in P
  <2>. HIDE DEF P
  <2>. QED
    BY <1>9, <1>10, Upto
<1>12. f[N] = g[e[N]]
  BY <1>11
<1>13. g[Top + 1] = g[e[N]]
  <2>1. PICK a \in 0..(Top + 1) : a = e[N]
    BY <1>8
  <2>2. Top + 1 \in a..(Top + 1)
    BY <2>1, TopNat
  <2>3. ASSUME NEW n \in 0..Top, a <= n PROVE c[n] = <<>>
    <3>1. ASSUME NEW j \in 1..N PROVE names[j] # n
      <4>1. N \in 1..N /\ names[N] \in Int /\ names[j] \in Int /\ a = names[N] + 1
        BY <1>5, <1>7, <2>1
      <4>2. j = N \/ names[j] < names[N]
        BY <1>4, <4>1
      <4>. QED
        BY <2>3, <4>1, <4>2
    <3>. QED
      BY <1>5, <3>1
  <2>4. g[Top + 1] = g[a]
    BY <1>3, <2>2, <2>3, JoinedFlat
  <2>. QED
    BY <2>1, <2>4
<1>. QED
  BY <1>0, <1>1, <1>2, <1>3, <1>12, <1>13 DEF Log
-----------------------------------------------------------------------------
(* The order of names.                                                       *)

NameRank(n, found) == Cardinality({m \in found : NameKey(m) <= NameKey(n)})

\* Different names have different keys.
LEMMA KeysDiffer ==
  \A m, n \in Appends : NameKey(m) \in Int /\ (NameKey(m) = NameKey(n) => m = n)
<1>1. \A m \in Appends : m \in 1..99
  BY AofConstants DEF Appends
<1>2. \A m, n \in 1..99 : NameKey(m) \in Int /\ (NameKey(m) = NameKey(n) => m = n)
  BY DEF NameKey
<1>. QED
  BY <1>1, <1>2

\* Directories are finite.
LEMMA AppendsFinite ==
  \A S : S \subseteq Appends => IsFiniteSet(S) /\ Cardinality(S) \in Nat
<1>1. IsFiniteSet(Appends)
  BY AofConstants, FS_Interval DEF Appends
<1>. QED
  BY <1>1, FS_Subset, FS_CardinalityType

\* A rank is between 1 and the number of names.
LEMMA NameRankRange ==
  ASSUME NEW S \in SUBSET Appends, NEW n \in S
  PROVE  NameRank(n, S) \in 1..Cardinality(S)
<1>. DEFINE A == {m \in S : NameKey(m) <= NameKey(n)}
<1>1. n \in A /\ A \subseteq S /\ A \subseteq Appends /\ A # {}
  BY KeysDiffer
<1>2. IsFiniteSet(S) /\ Cardinality(A) <= Cardinality(S)
  BY <1>1, AppendsFinite, FS_Subset
<1>3. Cardinality(A) \in Nat /\ Cardinality(S) \in Nat /\ IsFiniteSet(A)
  BY <1>1, AppendsFinite
<1>4. Cardinality(A) # 0
  BY <1>1, <1>3, FS_EmptySet
<1>5. NameRank(n, S) = Cardinality(A)
  BY DEF NameRank
<1>. HIDE DEF A
<1>. QED
  BY <1>2, <1>3, <1>4, <1>5

\* It grows with the key.
LEMMA NameRankGrows ==
  ASSUME NEW S \in SUBSET Appends, NEW m \in S, NEW n \in S, NameKey(m) < NameKey(n)
  PROVE  NameRank(m, S) < NameRank(n, S)
<1>. DEFINE A == {u \in S : NameKey(u) <= NameKey(m)}
            B == {u \in S : NameKey(u) <= NameKey(n)}
<1>1. n \notin A /\ A \cup {n} \subseteq B /\ A \subseteq Appends /\ B \subseteq Appends
  BY KeysDiffer
<1>2. IsFiniteSet(A) /\ IsFiniteSet(B) /\ Cardinality(A) \in Nat /\ Cardinality(B) \in Nat
  BY <1>1, AppendsFinite
<1>3. Cardinality(A \cup {n}) = Cardinality(A) + 1
  BY <1>1, <1>2, FS_AddElement
<1>4. Cardinality(A \cup {n}) <= Cardinality(B)
  BY <1>1, <1>2, FS_Subset
<1>5. NameRank(m, S) = Cardinality(A) /\ NameRank(n, S) = Cardinality(B)
  BY DEF NameRank
<1>. HIDE DEF A, B
<1>. QED
  BY <1>2, <1>3, <1>4, <1>5

\* Different names have different ranks.
LEMMA NameRankDiffers ==
  ASSUME NEW S \in SUBSET Appends, NEW m \in S, NEW n \in S, NameRank(m, S) = NameRank(n, S)
  PROVE  m = n
<1>1. NameKey(m) < NameKey(n) \/ NameKey(n) < NameKey(m) \/ m = n
  BY KeysDiffer
<1>2. Cardinality(S) \in Nat
  BY AppendsFinite
<1>3. NameRank(m, S) \in Int /\ NameRank(n, S) \in Int
  BY <1>2, NameRankRange
<1>. QED
  BY <1>1, <1>3, NameRankGrows

\* Every rank is taken.
LEMMA NameRankOnto ==
  ASSUME NEW S \in SUBSET Appends, NEW k \in 1..Cardinality(S)
  PROVE  \E n \in S : NameRank(n, S) = k
<1>. SUFFICES ASSUME \A n \in S : NameRank(n, S) # k PROVE FALSE
  OBVIOUS
<1>1. PICK N \in Nat : N = Cardinality(S) /\ IsFiniteSet(S)
  BY AppendsFinite
<1>. DEFINE T == (1..N) \ {k}
            f == [n \in S |-> NameRank(n, S)]
<1>2. IsFiniteSet(1..N) /\ Cardinality(1..N) = N /\ k \in 1..N
  BY <1>1, FS_Interval
<1>3. IsFiniteSet(T) /\ Cardinality(T) = N - 1
  <2>1. PICK R : R = 1..N
    OBVIOUS
  <2>2. IsFiniteSet(R) /\ Cardinality(R) = N /\ k \in R
    BY <1>2, <2>1, Zenon
  <2>3. IsFiniteSet(R \ {k}) /\ Cardinality(R \ {k}) = N - 1
    BY <2>2, FS_RemoveElement
  <2>. QED
    BY <2>1, <2>3, Zenon
<1>4. f \in [S -> T]
  BY <1>1, NameRankRange
<1>5. Cardinality(T) < Cardinality(S)
  BY <1>1, <1>3
<1>. HIDE DEF T, f
<1>6. PICK m \in S, n \in S : m # n /\ f[m] = f[n]
  BY <1>1, <1>3, <1>4, <1>5, FS_PigeonHole
<1>7. NameRank(m, S) = NameRank(n, S)
  BY <1>6 DEF f
<1>. QED
  BY <1>6, <1>7, NameRankDiffers

\* names lists the members of S, each once.
Enumerates(names, S) ==
  /\ names \in Seq(S) /\ ToSet(names) = S
  /\ \A j, k \in 1..Len(names) : names[j] = names[k] => j = k

\* sort.Strings loses and doubles no name.
LEMMA SortedEnumerates ==
  ASSUME NEW S \in SUBSET Appends
  PROVE  Enumerates(SortedByName(S), S)
<1>1. PICK N \in Nat : N = Cardinality(S)
  BY AppendsFinite
<1>2. PICK s : s = SortedByName(S)
  OBVIOUS
<1>3. s = [k \in 1..N |-> CHOOSE n \in S : NameRank(n, S) = k]
  BY <1>1, <1>2 DEF SortedByName, NameRank
<1>4. ASSUME NEW k \in 1..N PROVE s[k] \in S /\ NameRank(s[k], S) = k
  <2>1. \E n \in S : NameRank(n, S) = k
    BY <1>1, NameRankOnto
  <2>2. s[k] = CHOOSE n \in S : NameRank(n, S) = k
    BY <1>3
  <2>. QED
    BY <2>1, <2>2, Zenon
<1>5. s \in [1..N -> S]
  BY <1>3, <1>4
<1>6. s \in Seq(S) /\ Len(s) = N /\ DOMAIN s = 1..N
  BY <1>5, SeqDef
<1>7. ASSUME NEW n \in S PROVE n \in ToSet(s)
  <2>1. PICK k \in 1..N : k = NameRank(n, S)
    BY <1>1, NameRankRange
  <2>2. s[k] \in S /\ NameRank(s[k], S) = NameRank(n, S)
    BY <1>4, <2>1
  <2>3. s[k] = n
    BY <2>2, NameRankDiffers
  <2>. QED
    BY <1>6, <2>3 DEF ToSet
<1>8. ToSet(s) = S
  BY <1>4, <1>6, <1>7 DEF ToSet
<1>9. \A j, k \in 1..N : s[j] = s[k] => j = k
  BY <1>4
<1>. QED
  BY <1>2, <1>6, <1>8, <1>9 DEF Enumerates

\* names lists U, each name once, and rewrite.aof before the append files.
Found(names, U) ==
  /\ names \in Seq(Names) /\ ToSet(names) = U /\ U \subseteq 0..Top
  /\ \A j, k \in 1..Len(names) : names[j] = names[k] => j = k
  /\ \A k \in 1..Len(names) : names[k] = RewriteFile => k = 1

\* Such a list is in the order of numbers unless sort.Strings has put it out.
LEMMA FoundInOrder ==
  ASSUME NEW names, NEW U, Found(names, U), ~OutOfOrder(names)
  PROVE  Increasing(names)
<1>1. DOMAIN names = 1..Len(names) /\ \A k \in 1..Len(names) : names[k] \in U
  BY DEF Found, ToSet
<1>2. ASSUME NEW j \in 1..Len(names), NEW k \in 1..Len(names), j < k
      PROVE  names[j] < names[k]
  <2>1. names[j] \in Int /\ names[k] \in Int
    <3>1. names[j] \in 0..Top /\ names[k] \in 0..Top
      BY <1>1 DEF Found
    <3>. QED
      BY <3>1
  <2>2. names[j] # names[k] /\ names[k] # RewriteFile
    BY <1>2 DEF Found
  <2>3. ~(names[j] > names[k])
    BY <1>1, <1>2, <2>2 DEF OutOfOrder
  <2>. QED
    BY <2>1, <2>2, <2>3
<1>. QED
  BY <1>2 DEF Increasing

\* Append files and rewrite.aof together.
LEMMA WithRewriteIs ==
  ASSUME NEW fs, NEW S \in SUBSET Appends, NEW s, Enumerates(s, S)
  PROVE  /\ Found(WithRewriteFile(fs, s), S \cup (DOMAIN fs \cap {RewriteFile}))
         /\ ~OutOfOrder(WithRewriteFile(fs, s)) => Increasing(s)
<1>0. /\ s \in Seq(S) /\ ToSet(s) = S /\ Len(s) \in Nat /\ DOMAIN s = 1..Len(s)
      /\ \A j, k \in 1..Len(s) : s[j] = s[k] => j = k
  BY DEF Enumerates
<1>1. /\ S \subseteq 0..Top /\ 0 \in 0..Top /\ S \subseteq Names /\ 0 \in Names
      /\ \A n \in S : n \in Int /\ n > 0
  BY TopNat, AofConstants DEF Appends, Names, Top, RewriteFile
<1>2. s \in Seq(Names) /\ \A k \in 1..Len(s) : s[k] \in S
  <2>1. S \subseteq Names /\ s \in Seq(S)
    BY <1>0, <1>1
  <2>2. s \in Seq(Names)
    BY <2>1, SeqMonotonic, Zenon
  <2>3. \A k \in 1..Len(s) : s[k] \in S
    BY <2>1
  <2>. QED
    BY <2>2, <2>3
<1>3. CASE RewriteFile \notin DOMAIN fs
  <2>1. WithRewriteFile(fs, s) = s
    BY <1>2, <1>3, ConcatEmptySeq DEF WithRewriteFile
  <2>2. S \cup (DOMAIN fs \cap {RewriteFile}) = S
    BY <1>3
  <2>3. Found(s, S)
    <3>1. \A k \in 1..Len(s) : s[k] = RewriteFile => k = 1
      BY <1>1, <1>2 DEF RewriteFile
    <3>. QED
      BY <1>0, <1>1, <1>2, <3>1 DEF Found
  <2>. QED
    BY <2>1, <2>2, <2>3, FoundInOrder
<1>4. CASE RewriteFile \in DOMAIN fs
  <2>1. PICK a : a = <<RewriteFile>> \o s
    OBVIOUS
  <2>2. WithRewriteFile(fs, s) = a
    BY <1>4, <2>1 DEF WithRewriteFile
  <2>3. <<RewriteFile>> \in Seq(Names) /\ Len(<<RewriteFile>>) = 1 /\ <<RewriteFile>>[1] = 0
    BY <1>1 DEF RewriteFile
  <2>4. /\ a \in Seq(Names) /\ Len(a) = 1 + Len(s) /\ a[1] = 0
        /\ \A i \in 1..Len(s) : a[i + 1] = s[i]
    <3>1. PICK z \in Seq(Names) : z = <<RewriteFile>>
      BY <2>3
    <3>2. Len(z) = 1 /\ z[1] = 0
      BY <2>3, <3>1
    <3>3. /\ z \o s \in Seq(Names) /\ Len(z \o s) = Len(z) + Len(s)
          /\ \A i \in 1..(Len(z) + Len(s)) : (z \o s)[i] = IF i <= Len(z) THEN z[i] ELSE s[i - Len(z)]
      BY <1>2, ConcatProperties
    <3>4. a = z \o s
      BY <2>1, <3>1
    <3>5. /\ a \in Seq(Names) /\ Len(a) = 1 + Len(s)
          /\ \A i \in 1..(1 + Len(s)) : a[i] = IF i <= 1 THEN z[i] ELSE s[i - 1]
      BY <3>2, <3>3, <3>4
    <3>6. ASSUME NEW i \in 1..Len(s) PROVE a[i + 1] = s[i]
      <4>1. i + 1 \in 1..(1 + Len(s)) /\ ~(i + 1 <= 1) /\ (i + 1) - 1 = i
        BY <1>0
      <4>. QED
        BY <3>5, <4>1
    <3>7. a[1] = 0
      BY <1>0, <3>2, <3>5
    <3>. QED
      BY <3>5, <3>6, <3>7
  <2>5. \A k \in 1..Len(a) : k = 1 \/ (k - 1 \in 1..Len(s) /\ a[k] = s[k - 1] /\ a[k] \in S)
    <3>. SUFFICES ASSUME NEW k \in 1..Len(a), k # 1
                  PROVE  k - 1 \in 1..Len(s) /\ a[k] = s[k - 1] /\ a[k] \in S
      OBVIOUS
    <3>1. PICK i \in 1..Len(s) : i = k - 1 /\ i + 1 = k
      BY <1>0, <2>4
    <3>. QED
      BY <1>2, <2>4, <3>1
  <2>6. ToSet(a) = S \cup {0}
    <3>1. ASSUME NEW n \in S PROVE \E k \in 1..Len(a) : a[k] = n
      <4>1. PICK i \in 1..Len(s) : s[i] = n
        BY <1>0 DEF ToSet
      <4>2. i + 1 \in 1..Len(a) /\ a[i + 1] = n
        BY <1>0, <2>4, <4>1
      <4>. QED
        BY <4>2
    <3>2. 1 \in 1..Len(a) /\ DOMAIN a = 1..Len(a)
      BY <1>0, <2>4
    <3>. QED
      BY <2>4, <2>5, <3>1, <3>2, SMTT(30) DEF ToSet
  <2>7. S \cup (DOMAIN fs \cap {RewriteFile}) = S \cup {0}
    BY <1>4 DEF RewriteFile
  <2>8. ASSUME NEW j \in 1..Len(a), NEW k \in 1..Len(a), a[j] = a[k] PROVE j = k
    <3>1. CASE j = 1
      BY <1>1, <2>4, <2>5, <2>8, <3>1
    <3>2. CASE k = 1
      BY <1>1, <2>4, <2>5, <2>8, <3>2
    <3>3. CASE j # 1 /\ k # 1
      <4>1. j - 1 \in 1..Len(s) /\ k - 1 \in 1..Len(s) /\ s[j - 1] = s[k - 1]
        BY <2>5, <2>8, <3>3
      <4>2. j - 1 = k - 1
        BY <1>0, <4>1
      <4>. QED
        BY <2>4, <4>2
    <3>. QED
      BY <3>1, <3>2, <3>3
  <2>9. \A k \in 1..Len(a) : a[k] = RewriteFile => k = 1
    BY <1>1, <2>5 DEF RewriteFile
  <2>10. Found(a, S \cup {0})
    BY <1>1, <2>4, <2>6, <2>8, <2>9 DEF Found
  <2>11. ASSUME Increasing(a) PROVE Increasing(s)
    <3>1. ASSUME NEW j \in 1..Len(s), NEW k \in 1..Len(s), j < k PROVE s[j] < s[k]
      <4>1. j + 1 \in 1..Len(a) /\ k + 1 \in 1..Len(a) /\ j + 1 < k + 1
        BY <1>0, <2>4, <3>1
      <4>2. a[j + 1] < a[k + 1]
        BY <2>11, <4>1 DEF Increasing
      <4>. QED
        BY <2>4, <4>2
    <3>. QED
      BY <3>1 DEF Increasing
  <2>. QED
    BY <2>2, <2>7, <2>10, <2>11, FoundInOrder
<1>. QED
  BY <1>3, <1>4
-----------------------------------------------------------------------------
(* Logs put together.                                                        *)

Splits(c, d, e, b) ==
  /\ c \in Parts /\ d \in Parts /\ e \in Parts /\ b \in 0..(Top + 1)
  /\ \A n \in 0..Top : n < b => d[n] = c[n] /\ e[n] = <<>>
  /\ \A n \in 0..Top : n >= b => d[n] = <<>> /\ e[n] = c[n]

\* A log is that of the files before b and that of the others.
LEMMA LogSplits ==
  ASSUME NEW c, NEW d, NEW e, NEW b, Splits(c, d, e, b)
  PROVE  Log(c) = Log(d) \o Log(e)
<1>0. /\ c \in Parts /\ d \in Parts /\ e \in Parts /\ b \in 0..(Top + 1)
      /\ \A n \in 0..Top : n < b => d[n] = c[n] /\ e[n] = <<>>
      /\ \A n \in 0..Top : n >= b => d[n] = <<>> /\ e[n] = c[n]
  BY DEF Splits
<1>1. PICK f, g, h : f = Joined(c) /\ g = Joined(d) /\ h = Joined(e)
  OBVIOUS
<1>2. Joins(c, f) /\ Joins(d, g) /\ Joins(e, h)
  BY <1>0, <1>1, JoinedJoins
<1>3. 0 \in 0..(Top + 1) /\ b \in Nat /\ Top + 1 \in b..(Top + 1) /\ b \in 0..(Top + 1)
  BY <1>0, TopNat
<1>4. g[b] = f[b]
  <2>0. \A n \in 0..Top : 0 <= n /\ n < b => d[n] = c[n]
    BY <1>0
  <2>1. SameParts(d, c, g, f, 0, b)
    BY <1>0, <1>2, <1>3, <2>0 DEF SameParts
  <2>2. g[0] = f[0]
    BY <1>2 DEF Joins
  <2>. QED
    BY <2>1, <2>2, JoinedSame
<1>5. h[b] = <<>>
  <2>1. \A n \in 0..Top : 0 <= n /\ n < b => e[n] = <<>>
    BY <1>0
  <2>2. h[b] = h[0]
    BY <1>0, <1>2, <1>3, <2>1, JoinedFlat
  <2>. QED
    BY <1>2, <2>2 DEF Joins
<1>6. g[Top + 1] = g[b]
  <2>1. \A n \in 0..Top : b <= n /\ n < Top + 1 => d[n] = <<>>
    BY <1>0
  <2>. QED
    BY <1>0, <1>2, <1>3, <2>1, JoinedFlat
<1>7. PICK N \in Nat : N = Top + 1 - b
  BY <1>0, TopNat
<1>8. PICK u \in Seq(Record) : u = g[b]
  BY <1>0, <1>2 DEF Joins
<1>. DEFINE P == {n \in 0..N : f[b + n] = u \o h[b + n]}
<1>9. 0 \in P
  <2>1. u \o <<>> = u /\ b + 0 = b
    BY <1>3, ConcatEmptySeq
  <2>2. u = f[b] /\ h[b] = <<>>
    BY <1>4, <1>5, <1>8
  <2>3. f[b] = u \o h[b]
    BY <2>1, <2>2, Zenon
  <2>4. f[b + 0] = u \o h[b + 0]
    BY <2>1, <2>3, Zenon
  <2>5. 0 \in 0..N
    BY <1>7
  <2>. QED
    BY <2>4, <2>5, Zenon
<1>10. ASSUME NEW n \in 0..N, n \in P, n < N PROVE n + 1 \in P
  <2>1. PICK m \in 0..Top : m = b + n
    BY <1>3, <1>7, <1>10, TopNat
  <2>2. m >= b /\ m + 1 = b + (n + 1) /\ n + 1 \in 0..N /\ m \in 0..(Top + 1)
    BY <1>3, <1>7, <1>10, <2>1, TopNat
  <2>3. f[m + 1] = f[m] \o c[m] /\ h[m + 1] = h[m] \o e[m] /\ e[m] = c[m]
    BY <1>0, <1>2, <2>2 DEF Joins
  <2>4. PICK v \in Seq(Record), w \in Seq(Record) : v = h[m] /\ w = c[m]
    BY <1>0, <1>2, <2>2 DEF Joins, Parts
  <2>5. f[m] = u \o v
    BY <1>10, <2>1, <2>4
  <2>6. (u \o v) \o w = u \o (v \o w)
    BY ConcatAssociative
  <2>7. f[m + 1] = u \o h[m + 1]
    BY <2>3, <2>4, <2>5, <2>6
  <2>. QED
    BY <2>2, <2>7
<1>11. \A n \in 0..N : n \in P
  <2>. HIDE DEF P
  <2>. QED
    BY <1>7, <1>9, <1>10, Upto
<1>12. N \in 0..N /\ b + N = Top + 1
  BY <1>3, <1>7, TopNat
<1>13. f[Top + 1] = u \o h[Top + 1]
  BY <1>11, <1>12
<1>. QED
  BY <1>1, <1>6, <1>8, <1>13 DEF Log

\* A log of one part.
LEMMA LogAlone ==
  ASSUME NEW c \in Parts, \A n \in 0..Top : n > 0 => c[n] = <<>>
  PROVE  Log(c) = c[0]
<1>1. PICK g : Joins(c, g) /\ g = Joined(c)
  BY JoinedJoins
<1>2. 0 \in 0..Top /\ 0 + 1 = 1 /\ 1 \in 0..(Top + 1) /\ Top + 1 \in 1..(Top + 1)
  BY TopNat
<1>3. g[1] = g[0] \o c[0] /\ g[0] = <<>> /\ c[0] \in Seq(Record)
  BY <1>1, <1>2 DEF Joins, Parts
<1>4. g[1] = c[0]
  BY <1>3, ConcatEmptySeq
<1>5. \A n \in 0..Top : 1 <= n /\ n < Top + 1 => c[n] = <<>>
  OBVIOUS
<1>6. g[Top + 1] = g[1]
  BY <1>1, <1>2, <1>5, JoinedFlat
<1>. QED
  BY <1>1, <1>4, <1>6 DEF Log
-----------------------------------------------------------------------------
(* Files.                                                                    *)

Directory(fs) == DOMAIN fs \subseteq Names /\ fs \in [DOMAIN fs -> File]

\* What the file f holds, if it is there.
Held(fs, f) == IF f \in DOMAIN fs THEN fs[f].recs ELSE <<>>

\* A directory holds records.
LEMMA HeldType == \A fs, f : Directory(fs) => Held(fs, f) \in Seq(Record)
<1>. SUFFICES ASSUME NEW fs, NEW f, Directory(fs) PROVE Held(fs, f) \in Seq(Record)
  OBVIOUS
<1>1. <<>> \in Seq(Record)
  OBVIOUS
<1>2. CASE f \in DOMAIN fs
  BY <1>2 DEF Held, Directory, File
<1>3. CASE f \notin DOMAIN fs
  BY <1>1, <1>3 DEF Held
<1>. QED
  BY <1>2, <1>3

\* gs is fs, with the file f, whose records are x and whose header is there if h.
Becomes(fs, gs, f, x, h) ==
  /\ Directory(gs) /\ DOMAIN gs = DOMAIN fs \cup {f}
  /\ gs[f].recs = x /\ gs[f].header = h
  /\ \A g \in DOMAIN fs : g # f => gs[g] = fs[g]

\* Open makes an empty file, or none.
LEMMA OpenBecomes ==
  ASSUME NEW fs, Directory(fs), NEW f \in Names
  PROVE  /\ f \in DOMAIN fs => Open(fs, f) = fs
         /\ f \notin DOMAIN fs => Becomes(fs, Open(fs, f), f, <<>>, FALSE)
<1>1. CASE f \in DOMAIN fs
  BY <1>1 DEF Open
<1>2. CASE f \notin DOMAIN fs
  <2>1. PICK gs : gs = [g \in DOMAIN fs \cup {f} |-> IF g = f THEN Empty ELSE fs[g]]
    OBVIOUS
  <2>2. Open(fs, f) = gs
    BY <1>2, <2>1 DEF Open
  <2>3. Empty \in File /\ Empty.recs = <<>> /\ Empty.header = FALSE
    <3>1. <<>> \in Seq(Record)
      OBVIOUS
    <3>. QED
      BY <3>1 DEF Empty, File
  <2>4. DOMAIN gs = DOMAIN fs \cup {f} /\ gs[f] = Empty /\ \A g \in DOMAIN fs : g # f => gs[g] = fs[g]
    BY <2>1
  <2>5. \A g \in DOMAIN fs \cup {f} : gs[g] \in File
    BY <2>3, <2>4 DEF Directory
  <2>6. gs \in [DOMAIN gs -> File]
    BY <2>1, <2>4, <2>5
  <2>7. Becomes(fs, gs, f, <<>>, FALSE)
    BY <2>3, <2>4, <2>6 DEF Becomes, Directory
  <2>. QED
    BY <1>2, <2>2, <2>7
<1>. QED
  BY <1>1, <1>2

\* WriteHeader writes a header and nothing else.
LEMMA HeaderBecomes ==
  ASSUME NEW fs, Directory(fs), NEW f \in DOMAIN fs
  PROVE  Becomes(fs, WriteHeader(fs, f), f, fs[f].recs, TRUE)
<1>1. PICK gs : gs = [fs EXCEPT ![f].header = TRUE]
  OBVIOUS
<1>2. WriteHeader(fs, f) = gs
  BY <1>1 DEF WriteHeader
<1>3. fs[f] \in File
  BY DEF Directory
<1>4. /\ DOMAIN gs = DOMAIN fs /\ gs[f] = [fs[f] EXCEPT !.header = TRUE]
      /\ \A g \in DOMAIN fs : g # f => gs[g] = fs[g]
  BY <1>1 DEF Directory
<1>5. gs[f] \in File /\ gs[f].header = TRUE /\ gs[f].recs = fs[f].recs
  BY <1>3, <1>4 DEF File
<1>6. gs \in [DOMAIN gs -> File]
  BY <1>1, <1>4, <1>5 DEF Directory
<1>7. DOMAIN fs \cup {f} = DOMAIN fs
  OBVIOUS
<1>8. Becomes(fs, gs, f, fs[f].recs, TRUE)
  BY <1>4, <1>5, <1>6, <1>7 DEF Becomes, Directory
<1>. QED
  BY <1>2, <1>8

\* A write at the end of a file appends to it.
LEMMA AppendBecomes ==
  ASSUME NEW fs, Directory(fs), NEW f \in DOMAIN fs, NEW x \in Seq(Record),
         NEW off, off = Len(fs[f].recs)
  PROVE  Becomes(fs, WriteAt(fs, f, off, x), f, fs[f].recs \o x, fs[f].header)
<1>1. PICK r \in Seq(Record) : r = fs[f].recs
  BY DEF Directory, File
<1>2. off \in Nat /\ off <= Len(r) /\ off = Len(r)
  BY <1>1
<1>3. Overwrite(r, off, x) = r \o x
  <2>1. SubSeq(r, 1, off) = r
    BY <1>2, SubSeqFull
  <2>2. PICK m \in Int, n \in Int : m = off + Len(x) + 1 /\ n = Len(r) /\ n < m
    BY <1>2
  <2>3. SubSeq(r, m, n) = <<>>
    BY <2>2, SubSeqEmpty
  <2>4. r \o x \in Seq(Record)
    BY ConcatProperties
  <2>5. (r \o x) \o <<>> = r \o x
    BY <2>4, ConcatEmptySeq
  <2>6. Overwrite(r, off, x) = (SubSeq(r, 1, off) \o x) \o SubSeq(r, m, n)
    BY <2>2 DEF Overwrite
  <2>. QED
    BY <2>1, <2>3, <2>5, <2>6
<1>4. r \o x \in Seq(Record)
  BY ConcatProperties
<1>5. PICK gs : gs = [fs EXCEPT ![f].recs = Overwrite(@, off, x)]
  OBVIOUS
<1>6. WriteAt(fs, f, off, x) = gs
  BY <1>1, <1>2, <1>5 DEF WriteAt
<1>7. fs[f] \in File
  BY DEF Directory
<1>8. /\ DOMAIN gs = DOMAIN fs /\ gs[f] = [fs[f] EXCEPT !.recs = r \o x]
      /\ \A g \in DOMAIN fs : g # f => gs[g] = fs[g]
  BY <1>1, <1>3, <1>5 DEF Directory
<1>9. gs[f] \in File /\ gs[f].recs = r \o x /\ gs[f].header = fs[f].header
  BY <1>4, <1>7, <1>8 DEF File
<1>10. gs \in [DOMAIN gs -> File]
  BY <1>5, <1>8, <1>9 DEF Directory
<1>11. DOMAIN fs \cup {f} = DOMAIN fs
  OBVIOUS
<1>12. Becomes(fs, gs, f, r \o x, fs[f].header)
  BY <1>8, <1>9, <1>10, <1>11 DEF Becomes, Directory
<1>. QED
  BY <1>1, <1>6, <1>12

\* rewrite.aof.tmp is written from its beginning; nothing of it stays if it was
\* no longer than what is written.
LEMMA OverwriteBecomes ==
  ASSUME NEW fs, Directory(fs), NEW f \in DOMAIN fs, NEW x \in Seq(Record)
  PROVE  /\ \E y \in Seq(Record) : Becomes(fs, WriteAt(fs, f, 0, x), f, y, fs[f].header)
         /\ Len(fs[f].recs) <= Len(x) => Becomes(fs, WriteAt(fs, f, 0, x), f, x, fs[f].header)
<1>1. PICK r \in Seq(Record) : r = fs[f].recs
  BY DEF Directory, File
<1>2. PICK y : y = Overwrite(r, 0, x)
  OBVIOUS
<1>3. y \in Seq(Record) /\ (Len(r) <= Len(x) => y = x)
  <2>1. SubSeq(r, 1, 0) = <<>>
    BY SubSeqEmpty
  <2>2. PICK m \in Int, n \in Int : m = 0 + Len(x) + 1 /\ n = Len(r) /\ m = Len(x) + 1 /\ m >= 1
    OBVIOUS
  <2>3. PICK q \in Seq(Record) : q = SubSeq(r, m, n)
    <3>1. \A i \in m..n : r[i] \in Record
      BY <2>2
    <3>2. SubSeq(r, m, n) \in Seq(Record)
      BY <3>1, SubSeqProperties
    <3>. QED
      BY <3>2
  <2>4. <<>> \o x = x /\ x \o <<>> = x
    BY ConcatEmptySeq
  <2>5. y = x \o q
    BY <1>2, <2>1, <2>2, <2>3, <2>4 DEF Overwrite
  <2>6. x \o q \in Seq(Record)
    BY ConcatProperties
  <2>7. ASSUME Len(r) <= Len(x) PROVE q = <<>>
    <3>1. n < m
      BY <2>2, <2>7
    <3>. QED
      BY <2>3, <3>1, SubSeqEmpty
  <2>. QED
    BY <2>4, <2>5, <2>6, <2>7
<1>4. PICK gs : gs = [fs EXCEPT ![f].recs = Overwrite(@, 0, x)]
  OBVIOUS
<1>5. 0 <= Len(r)
  OBVIOUS
<1>6. WriteAt(fs, f, 0, x) = gs
  BY <1>1, <1>4, <1>5 DEF WriteAt
<1>7. fs[f] \in File
  BY DEF Directory
<1>8. /\ DOMAIN gs = DOMAIN fs /\ gs[f] = [fs[f] EXCEPT !.recs = y]
      /\ \A g \in DOMAIN fs : g # f => gs[g] = fs[g]
  BY <1>1, <1>2, <1>4 DEF Directory
<1>9. gs[f] \in File /\ gs[f].recs = y /\ gs[f].header = fs[f].header
  BY <1>3, <1>7, <1>8 DEF File
<1>10. gs \in [DOMAIN gs -> File]
  BY <1>4, <1>8, <1>9 DEF Directory
<1>11. DOMAIN fs \cup {f} = DOMAIN fs
  OBVIOUS
<1>12. Becomes(fs, gs, f, y, fs[f].header)
  BY <1>8, <1>9, <1>10, <1>11 DEF Becomes, Directory
<1>. QED
  BY <1>1, <1>3, <1>6, <1>12

\* RemoveFile removes one file.
LEMMA RemoveIs ==
  ASSUME NEW fs, Directory(fs), NEW f
  PROVE  /\ Directory(RemoveFile(fs, f)) /\ DOMAIN RemoveFile(fs, f) = DOMAIN fs \ {f}
         /\ \A g \in DOMAIN fs : g # f => RemoveFile(fs, f)[g] = fs[g]
<1>1. PICK gs : gs = [g \in DOMAIN fs \ {f} |-> fs[g]]
  OBVIOUS
<1>2. RemoveFile(fs, f) = gs
  BY <1>1 DEF RemoveFile
<1>3. DOMAIN gs = DOMAIN fs \ {f} /\ \A g \in DOMAIN fs : g # f => gs[g] = fs[g]
  BY <1>1
<1>4. gs \in [DOMAIN gs -> File]
  BY <1>1, <1>3 DEF Directory
<1>5. Directory(gs)
  BY <1>3, <1>4 DEF Directory
<1>. QED
  BY <1>2, <1>3, <1>5
-----------------------------------------------------------------------------
(* The invariant.                                                            *)

\* What a restart would read, file by file, and what it will read once
\* RewriteAofFiles is done.
Loaded(fs) == [n \in 0..Top |-> Held(fs, n)]
Rewritten(fs, names) ==
  [n \in 0..Top |-> IF n = RewriteFile THEN Held(fs, TmpFile)
                    ELSE IF n \in ToSet(names) THEN <<>> ELSE Held(fs, n)]

\* A file without a header is empty, and no file is newer than the open one but
\* the one a rotation has just made.
FilesInv ==
  /\ aof_file_index \in 1..MaxIndex
  /\ \A n \in DOMAIN files : ~files[n].header => files[n].recs = <<>>
  /\ running => \A n \in DOMAIN files : n <= aof_file_index \/ \E who \in Rotators : opening[who] = n

\* At most one rotation is under way; otherwise the newest file is open, and
\* appended to at its end.
OpenInv ==
  /\ \A who \in Rotators : opening[who] # 0 =>
       /\ running /\ aof_file = NoFile
       /\ opening[who] = aof_file_index + 1 /\ opening[who] <= MaxIndex
       /\ opening[who] \in DOMAIN files /\ files[opening[who]].recs = <<>>
       /\ \A other \in Rotators : opening[other] # 0 => other = who
  /\ aof_file # NoFile =>
       /\ running /\ aof_file.name = aof_file_index /\ aof_file_index \in DOMAIN files
       /\ files[aof_file_index].header /\ aof_file.off = Len(files[aof_file_index].recs)
  /\ running => aof_file # NoFile \/ \E who \in Rotators : opening[who] # 0

\* RewriteAofFiles works on the oldest files, and on none that is open.
RewriteInv ==
  rewrite.at # "idle" =>
    /\ running /\ TmpFile \in DOMAIN files /\ files[TmpFile].header
    /\ Found(rewrite.names, ToSet(rewrite.names))
    /\ \A m \in ToSet(rewrite.names) :
         /\ m \in DOMAIN files /\ m < aof_file_index
         /\ \A n \in DOMAIN files : n = TmpFile \/ n \in ToSet(rewrite.names) \/ m < n
    /\ rewrite.at # "cleared" => rewrite.names # <<>>

\* The process ended at a moment when the files could be read.
StopInv ==
  ~running => ~OutOfOrder(AllAofFiles(files)) /\ ~StopsShort(files, AllAofFiles(files))

\* The files hold the log, or will when rewrite.aof.tmp takes its place.
LogIs(fs, rw, over, w) ==
  /\ rw.at # "cleared" => Unexpired(Log(Loaded(fs)), over) = Unexpired(w, over)
  /\ rw.at \in {"clear", "cleared"} =>
       Unexpired(Log(Rewritten(fs, rw.names)), over) = Unexpired(w, over)

LogInv == LogIs(files, rewrite, expired, written)

Good == FilesInv /\ OpenInv /\ RewriteInv /\ StopInv /\ LogInv

AofInv == TypeOK /\ (~damaged => Good)

\* The parts are lists of records.
LEMMA LogPartsType ==
  ASSUME NEW fs, Directory(fs), NEW names
  PROVE  Loaded(fs) \in Parts /\ Rewritten(fs, names) \in Parts
<1>1. \A n : Held(fs, n) \in Seq(Record)
  BY HeldType
<1>2. <<>> \in Seq(Record)
  OBVIOUS
<1>. QED
  BY <1>1, <1>2 DEF Loaded, Rewritten, Parts

\* The log depends on what the files hold.
LEMMA LogKept ==
  ASSUME NEW fs, NEW gs, NEW rw, NEW over, NEW w, LogIs(fs, rw, over, w),
         Held(gs, TmpFile) = Held(fs, TmpFile), \A n \in 0..Top : Held(gs, n) = Held(fs, n)
  PROVE  LogIs(gs, rw, over, w)
<1>1. Loaded(gs) = Loaded(fs)
  BY DEF Loaded
<1>2. Rewritten(gs, rw.names) = Rewritten(fs, rw.names)
  BY DEF Rewritten
<1>. QED
  BY <1>1, <1>2 DEF LogIs

Extends(fs, gs, m, x) ==
  /\ Directory(fs) /\ m \in 1..Top /\ m \in DOMAIN fs /\ x \in Seq(Record)
  /\ Becomes(fs, gs, m, fs[m].recs \o x, TRUE) /\ \A n \in DOMAIN fs : n <= m

\* Records appended to the newest file are appended to the log.
LEMMA LogExtends ==
  ASSUME NEW fs, NEW gs, NEW m, NEW x, Extends(fs, gs, m, x),
         NEW rw, rw.at = "idle" \/ m \notin ToSet(rw.names), NEW over, NEW w \in Seq(Record), LogIs(fs, rw, over, w)
  PROVE  LogIs(gs, rw, over, w \o x)
<1>0. /\ Directory(fs) /\ m \in 1..Top /\ m \in DOMAIN fs /\ x \in Seq(Record)
      /\ Becomes(fs, gs, m, fs[m].recs \o x, TRUE) /\ \A n \in DOMAIN fs : n <= m
  BY DEF Extends
<1>1. Directory(gs)
  BY <1>0 DEF Becomes
<1>2. m \in 0..Top /\ m # 0 /\ m # TmpFile /\ m \in Int
  BY <1>0 DEF TmpFile
<1>3. Held(gs, m) = Held(fs, m) \o x
  BY <1>0 DEF Becomes, Held
<1>4. \A n : n # m => Held(gs, n) = Held(fs, n)
  BY <1>0 DEF Becomes, Held
<1>5. \A n \in 0..Top : n > m => Held(fs, n) = <<>>
  <2>. SUFFICES ASSUME NEW n \in 0..Top, n > m PROVE n \notin DOMAIN fs
    BY DEF Held
  <2>. QED
    BY <1>0, <1>2
<1>6. EndsWith(Loaded(fs), Loaded(gs), m, x)
  <2>1. PICK c \in Parts, d \in Parts : c = Loaded(fs) /\ d = Loaded(gs)
    BY <1>0, <1>1, LogPartsType
  <2>2. \A n \in 0..Top : c[n] = Held(fs, n) /\ d[n] = Held(gs, n)
    BY <2>1 DEF Loaded
  <2>3. d[m] = c[m] \o x
    BY <1>2, <1>3, <2>2
  <2>4. \A n \in 0..Top : n # m => d[n] = c[n]
    BY <1>4, <2>2
  <2>5. \A n \in 0..Top : n > m => c[n] = <<>>
    BY <1>5, <2>2
  <2>6. EndsWith(c, d, m, x)
    BY <1>0, <1>2, <2>3, <2>4, <2>5 DEF EndsWith
  <2>. QED
    BY <2>1, <2>6
<1>7. ASSUME m \notin ToSet(rw.names)
      PROVE  EndsWith(Rewritten(fs, rw.names), Rewritten(gs, rw.names), m, x)
  <2>1. PICK c \in Parts, d \in Parts : c = Rewritten(fs, rw.names) /\ d = Rewritten(gs, rw.names)
    BY <1>0, <1>1, LogPartsType
  <2>2. \A n \in 0..Top :
          /\ c[n] = IF n = 0 THEN Held(fs, TmpFile) ELSE IF n \in ToSet(rw.names) THEN <<>> ELSE Held(fs, n)
          /\ d[n] = IF n = 0 THEN Held(gs, TmpFile) ELSE IF n \in ToSet(rw.names) THEN <<>> ELSE Held(gs, n)
    BY <2>1 DEF Rewritten, RewriteFile
  <2>3. d[m] = c[m] \o x
    BY <1>2, <1>3, <1>7, <2>2
  <2>4. \A n \in 0..Top : n # m => d[n] = c[n]
    BY <1>2, <1>4, <2>2
  <2>5. \A n \in 0..Top : n > m => c[n] = <<>>
    BY <1>2, <1>5, <2>2
  <2>6. EndsWith(c, d, m, x)
    BY <1>0, <1>2, <2>3, <2>4, <2>5 DEF EndsWith
  <2>. QED
    BY <2>1, <2>6
<1>8. ASSUME NEW c, NEW d, EndsWith(c, d, m, x), Unexpired(Log(c), over) = Unexpired(w, over)
      PROVE  Unexpired(Log(d), over) = Unexpired(w \o x, over)
  <2>1. PICK p \in Seq(Record) : p = Log(c)
    BY <1>8, LogType DEF EndsWith
  <2>2. Log(d) = p \o x
    BY <1>8, <2>1, LogAppends
  <2>3. Unexpired(p \o x, over) = Unexpired(p, over) \o Unexpired(x, over)
    BY <1>0, UnexpiredConcat
  <2>4. Unexpired(w \o x, over) = Unexpired(w, over) \o Unexpired(x, over)
    BY <1>0, UnexpiredConcat
  <2>. QED
    BY <1>8, <2>1, <2>2, <2>3, <2>4
<1>. QED
  BY <1>6, <1>7, <1>8 DEF LogIs

\* A lease that expires leaves the log and what was written alike.
LEMMA LogShrinks ==
  ASSUME NEW fs, Directory(fs), NEW rw, NEW over, NEW more, over \subseteq more,
         NEW w \in Seq(Record), LogIs(fs, rw, over, w)
  PROVE  LogIs(fs, rw, more, w)
<1>1. ASSUME NEW c \in Parts, Unexpired(Log(c), over) = Unexpired(w, over)
      PROVE  Unexpired(Log(c), more) = Unexpired(w, more)
  <2>1. PICK p \in Seq(Record) : p = Log(c)
    BY LogType
  <2>2. Unexpired(Unexpired(p, over), more) = Unexpired(p, more)
    BY UnexpiredTwice
  <2>3. Unexpired(Unexpired(w, over), more) = Unexpired(w, more)
    BY UnexpiredTwice
  <2>. QED
    BY <1>1, <2>1, <2>2, <2>3
<1>2. Loaded(fs) \in Parts /\ Rewritten(fs, rw.names) \in Parts
  BY LogPartsType
<1>. QED
  BY <1>1, <1>2 DEF LogIs
-----------------------------------------------------------------------------
(* Reading the log back.                                                     *)

\* AllAofFiles finds every file but rewrite.aof.tmp.
LEMMA AllFound ==
  ASSUME NEW fs, Directory(fs)
  PROVE  /\ Found(AllAofFiles(fs), DOMAIN fs \ {TmpFile})
         /\ Enumerates(FindAofFiles(fs), DOMAIN fs \cap Appends)
         /\ ~OutOfOrder(AllAofFiles(fs)) => Increasing(FindAofFiles(fs))
<1>1. PICK S \in SUBSET Appends : S = DOMAIN fs \cap Appends
  OBVIOUS
<1>2. PICK s : s = SortedByName(S) /\ s = FindAofFiles(fs)
  BY <1>1 DEF FindAofFiles
<1>3. Enumerates(s, S)
  BY <1>2, SortedEnumerates
<1>4. /\ Found(WithRewriteFile(fs, s), S \cup (DOMAIN fs \cap {RewriteFile}))
      /\ ~OutOfOrder(WithRewriteFile(fs, s)) => Increasing(s)
  BY <1>3, WithRewriteIs
<1>5. S \cup (DOMAIN fs \cap {RewriteFile}) = DOMAIN fs \ {TmpFile}
  BY <1>1 DEF Directory, Names, RewriteFile, TmpFile, Appends
<1>6. AllAofFiles(fs) = WithRewriteFile(fs, s)
  BY <1>2 DEF AllAofFiles
<1>. QED
  BY <1>1, <1>2, <1>3, <1>4, <1>5, <1>6

Listed(fs, U) == [n \in 0..Top |-> IF n \in U THEN Held(fs, n) ELSE <<>>]

Headed(fs) == \A n \in DOMAIN fs : ~fs[n].header => fs[n].recs = <<>>

\* A list of files that is in order and is not cut short is read completely.
LEMMA LoadsFound ==
  ASSUME NEW fs, Directory(fs), Headed(fs), NEW names, NEW U, Found(names, U),
         U \subseteq DOMAIN fs, ~OutOfOrder(names), ~StopsShort(fs, names)
  PROVE  /\ Listed(fs, U) \in Parts
         /\ LoadAofFiles(fs, names) = Unexpired(Log(Listed(fs, U)), expired)
<1>1. /\ names \in Seq(Names) /\ ToSet(names) = U /\ DOMAIN names = 1..Len(names)
      /\ \A k \in 1..Len(names) : names[k] \in U /\ names[k] \in 0..Top
  <2>1. names \in Seq(Names) /\ ToSet(names) = U /\ U \subseteq 0..Top
    BY DEF Found
  <2>2. DOMAIN names = 1..Len(names)
    BY <2>1
  <2>3. \A k \in 1..Len(names) : names[k] \in U
    BY <2>1, <2>2 DEF ToSet
  <2>. QED
    BY <2>1, <2>2, <2>3, Zenon
<1>2. Orderly(fs, names)
  <2>1. Increasing(names)
    BY FoundInOrder
  <2>2. \A k \in 1..Len(names) : fs[names[k]].recs \in Seq(Record)
    BY <1>1 DEF Directory, File
  <2>3. \A k \in 1..Len(names) : ~fs[names[k]].header => fs[names[k]].recs = <<>>
    BY <1>1 DEF Headed
  <2>. QED
    BY <1>1, <2>1, <2>2, <2>3 DEF Orderly, Listing
<1>3. LoadAofFiles(fs, names) = Log(PartsOf(fs, names))
  BY <1>2, LoadIsLog
<1>4. PICK c \in Parts : c = PartsOf(fs, names)
  BY <1>2, PartsOfType
<1>5. Listed(fs, U) \in Parts
  <2>1. \A n : Held(fs, n) \in Seq(Record)
    BY HeldType
  <2>2. <<>> \in Seq(Record)
    OBVIOUS
  <2>. QED
    BY <2>1, <2>2 DEF Listed, Parts
<1>6. PICK d \in Parts : d = Listed(fs, U)
  BY <1>5
<1>7. ASSUME NEW n \in 0..Top PROVE c[n] = Unexpired(d[n], expired)
  <2>1. CASE n \in U
    <3>1. Held(fs, n) = fs[n].recs
      BY <2>1 DEF Held
    <3>2. c[n] = Live(fs[n].recs) /\ d[n] = fs[n].recs
      BY <1>1, <1>4, <1>6, <2>1, <3>1 DEF PartsOf, Listed
    <3>. QED
      BY <3>2 DEF Live
  <2>2. CASE n \notin U
    <3>1. c[n] = <<>> /\ d[n] = <<>>
      BY <1>1, <1>4, <1>6, <2>2 DEF PartsOf, Listed
    <3>. QED
      BY <3>1, UnexpiredNothing
  <2>. QED
    BY <2>1, <2>2
<1>8. Filters(d, c, expired)
  BY <1>7 DEF Filters
<1>9. Log(c) = Unexpired(Log(d), expired)
  BY <1>8, LogExpires
<1>. QED
  BY <1>3, <1>4, <1>5, <1>6, <1>9

\* So a restart reads what was written.
LEMMA ReadBack ==
  ASSUME AofInv PROVE LoadReturnsWritten
<1>. SUFFICES ASSUME ~damaged, ~Exposed
              PROVE  LoadAofFiles(files, AllAofFiles(files)) = Live(written)
  BY DEF LoadReturnsWritten
<1>1. Directory(files) /\ Headed(files) /\ LogInv /\ rewrite.at # "cleared"
  BY DEF AofInv, Good, TypeOK, Directory, Headed, FilesInv, Exposed, BetweenRemoveAndRename
<1>2. PICK names, U : names = AllAofFiles(files) /\ U = DOMAIN files \ {TmpFile}
  OBVIOUS
<1>3. Found(names, U) /\ U \subseteq DOMAIN files
  BY <1>1, <1>2, AllFound
<1>4. ~OutOfOrder(names) /\ ~StopsShort(files, names)
  BY <1>2 DEF Exposed
<1>5. LoadAofFiles(files, names) = Unexpired(Log(Listed(files, U)), expired)
  BY <1>1, <1>3, <1>4, LoadsFound
<1>6. Listed(files, U) = Loaded(files)
  <2>1. \A n \in 0..Top : n \notin U => Held(files, n) = <<>>
    BY <1>2 DEF Held, TmpFile
  <2>. QED
    BY <2>1 DEF Listed, Loaded
<1>7. Unexpired(Log(Loaded(files)), expired) = Unexpired(written, expired)
  BY <1>1 DEF LogInv, LogIs
<1>. QED
  BY <1>2, <1>5, <1>6, <1>7 DEF Live

\* The open file, and the one a rotation has just made, are not rewritten.
LEMMA OpenNotRewritten ==
  ASSUME AofInv PROVE OpenFileNotRewritten
<1>. SUFFICES ASSUME ~damaged, rewrite.at # "idle"
              PROVE  /\ aof_file # NoFile => aof_file.name \notin ToSet(rewrite.names)
                     /\ \A who \in Rotators : opening[who] \notin ToSet(rewrite.names) \ {RewriteFile}
  BY DEF OpenFileNotRewritten
<1>1. FilesInv /\ OpenInv /\ RewriteInv
  BY DEF AofInv, Good
<1>2. aof_file_index \in Int
  BY <1>1 DEF FilesInv
<1>3. \A m \in ToSet(rewrite.names) : m < aof_file_index
  BY <1>1 DEF RewriteInv
<1>4. aof_file # NoFile => aof_file.name = aof_file_index
  BY <1>1 DEF OpenInv
<1>5. ASSUME NEW who \in Rotators PROVE opening[who] \notin ToSet(rewrite.names) \ {RewriteFile}
  BY <1>1, <1>2, <1>3 DEF OpenInv, RewriteFile
<1>. QED
  BY <1>2, <1>3, <1>4, <1>5

\* Writes go to the end of the open file.
LEMMA FileFresh ==
  ASSUME AofInv PROVE AppendsToFreshFile
BY DEF AofInv, Good, OpenInv, AppendsToFreshFile
-----------------------------------------------------------------------------
(* The invariant is kept: appending.                                         *)

\* RewriteAofFiles goes on undisturbed when the directory only gets newer files.
LEMMA RewriteKept ==
  ASSUME Good, rewrite' = rewrite, running' = running,
         aof_file_index' \in Int, aof_file_index <= aof_file_index',
         DOMAIN files \subseteq DOMAIN files',
         \A n \in DOMAIN files' : n \in DOMAIN files \/ n \in aof_file_index..Top,
         TmpFile \in DOMAIN files => files'[TmpFile].header = files[TmpFile].header
  PROVE  RewriteInv'
<1>. SUFFICES ASSUME rewrite.at # "idle" PROVE RewriteInv'
  BY DEF RewriteInv
<1>1. /\ running /\ TmpFile \in DOMAIN files /\ files[TmpFile].header
      /\ Found(rewrite.names, ToSet(rewrite.names))
      /\ rewrite.at # "cleared" => rewrite.names # <<>>
      /\ aof_file_index \in Int
  BY DEF Good, RewriteInv, FilesInv
<1>2. ASSUME NEW m \in ToSet(rewrite.names)
      PROVE  /\ m \in DOMAIN files' /\ m < aof_file_index'
             /\ \A n \in DOMAIN files' : n = TmpFile \/ n \in ToSet(rewrite.names) \/ m < n
  <2>1. /\ m \in DOMAIN files /\ m < aof_file_index
        /\ \A n \in DOMAIN files : n = TmpFile \/ n \in ToSet(rewrite.names) \/ m < n
    BY DEF Good, RewriteInv
  <2>2. m \in Int
    <3>1. m \in 0..Top
      BY <1>1 DEF Found
    <3>. QED
      BY <3>1
  <2>3. \A n \in DOMAIN files' : n \in DOMAIN files \/ m < n
    <3>. SUFFICES ASSUME NEW n \in aof_file_index..Top PROVE m < n
      OBVIOUS
    <3>. QED
      BY <1>1, <2>1, <2>2
  <2>. QED
    BY <1>1, <2>1, <2>2, <2>3
<1>. QED
  BY <1>1, <1>2 DEF RewriteInv

\* The open file is the newest, and none of those being rewritten.
LEMMA OpenIsNewest ==
  ASSUME TypeOK, Good, aof_file # NoFile
  PROVE  /\ running /\ opening = [who \in Rotators |-> 0]
         /\ Directory(files) /\ Headed(files)
         /\ aof_file.name = aof_file_index /\ aof_file_index \in 1..Top
         /\ aof_file_index \in DOMAIN files
         /\ aof_file.off = Len(files[aof_file_index].recs) /\ files[aof_file_index].header = TRUE
         /\ \A n \in DOMAIN files : n <= aof_file_index
         /\ (rewrite.at # "idle" => aof_file_index \notin ToSet(rewrite.names))
<1>1. /\ running /\ aof_file.name = aof_file_index /\ aof_file_index \in DOMAIN files
      /\ files[aof_file_index].header /\ aof_file.off = Len(files[aof_file_index].recs)
  BY DEF Good, OpenInv
<1>2. Directory(files) /\ Headed(files)
  BY DEF Good, TypeOK, Directory, Headed, FilesInv
<1>3. \A who \in Rotators : opening[who] = 0
  BY DEF Good, OpenInv
<1>4. opening = [who \in Rotators |-> 0]
  <2>1. opening = [who \in Rotators |-> opening[who]]
    BY DEF TypeOK
  <2>. QED
    BY <1>3, <2>1
<1>5. aof_file_index \in 1..Top
  BY AofConstants DEF Good, FilesInv, Top
<1>6. \A n \in DOMAIN files : n <= aof_file_index
  <2>1. \A n \in DOMAIN files : n <= aof_file_index \/ n = 0
    BY <1>1, <1>3 DEF Good, FilesInv
  <2>. QED
    BY <1>5, <2>1
<1>7. files[aof_file_index].header = TRUE
  BY <1>1, <1>2 DEF Directory, File
<1>8. rewrite.at # "idle" => aof_file_index \notin ToSet(rewrite.names)
  BY <1>5 DEF Good, RewriteInv
<1>. QED
  BY <1>1, <1>2, <1>4, <1>5, <1>6, <1>7, <1>8

\* Writing a part of the buffer out to the open file.
LEMMA WriteOut ==
  ASSUME TypeOK, Good, aof_file # NoFile, NEW x \in Seq(Record),
         NEW gs, gs = WriteAt(files, aof_file.name, aof_file.off, x)
  PROVE  /\ Becomes(files, gs, aof_file_index, files[aof_file_index].recs \o x, TRUE)
         /\ DOMAIN gs = DOMAIN files
         /\ LogIs(gs, rewrite, expired, written \o x)
<1>1. /\ Directory(files)
      /\ aof_file.name = aof_file_index /\ aof_file_index \in 1..Top
      /\ aof_file_index \in DOMAIN files
      /\ aof_file.off = Len(files[aof_file_index].recs) /\ files[aof_file_index].header = TRUE
      /\ \A n \in DOMAIN files : n <= aof_file_index
      /\ (rewrite.at # "idle" => aof_file_index \notin ToSet(rewrite.names))
  BY OpenIsNewest
<1>2. PICK m : m = aof_file_index
  OBVIOUS
<1>3. Becomes(files, gs, m, files[m].recs \o x, TRUE)
  <2>1. PICK off : off = aof_file.off /\ off = Len(files[m].recs)
    BY <1>1, <1>2
  <2>2. Becomes(files, WriteAt(files, m, off, x), m, files[m].recs \o x, files[m].header)
    BY <1>1, <1>2, <2>1, AppendBecomes
  <2>. QED
    BY <1>1, <1>2, <2>1, <2>2
<1>4. DOMAIN gs = DOMAIN files
  BY <1>1, <1>2, <1>3 DEF Becomes
<1>5. Extends(files, gs, m, x)
  BY <1>1, <1>2, <1>3 DEF Extends
<1>6. rewrite.at = "idle" \/ m \notin ToSet(rewrite.names)
  BY <1>1, <1>2
<1>7. written \in Seq(Record) /\ LogIs(files, rewrite, expired, written)
  BY DEF TypeOK, Good, LogInv
<1>8. LogIs(gs, rewrite, expired, written \o x)
  BY <1>5, <1>6, <1>7, LogExtends
<1>. QED
  BY <1>2, <1>3, <1>4, <1>8

LeaseType == lease \in [Leases -> {"new", "held", "gone"}]

\* What PushLock and Flush do as long as the file is large enough.
LEMMA StaysOpen ==
  ASSUME TypeOK, Good, aof_file # NoFile, NEW x \in Seq(Record), NEW b \in Seq(Record),
         files' = WriteAt(files, aof_file.name, aof_file.off, x), written' = written \o x,
         aof_file' = [aof_file EXCEPT !.off = @ + Len(x), !.buf = b],
         UNCHANGED <<aof_file_index, opening, rewriter, process, damaged, expired>>, LeaseType'
  PROVE  AofInv'
<1>1. /\ running /\ opening = [who \in Rotators |-> 0]
      /\ Directory(files) /\ Headed(files)
      /\ aof_file.name = aof_file_index /\ aof_file_index \in 1..Top
      /\ aof_file_index \in DOMAIN files
      /\ aof_file.off = Len(files[aof_file_index].recs) /\ files[aof_file_index].header = TRUE
      /\ \A n \in DOMAIN files : n <= aof_file_index
  BY OpenIsNewest
<1>2. /\ Becomes(files, files', aof_file_index, files[aof_file_index].recs \o x, TRUE)
      /\ DOMAIN files' = DOMAIN files
      /\ LogIs(files', rewrite, expired, written \o x)
  BY WriteOut
<1>3. PICK r \in Seq(Record) : r = files[aof_file_index].recs
  BY <1>1 DEF Directory, File
<1>4. Len(r \o x) = Len(r) + Len(x) /\ Len(r) \in Nat /\ Len(x) \in Nat
  BY ConcatProperties
<1>5. /\ aof_file' \in [name : Names, off : Nat, buf : Seq(Record)]
      /\ aof_file'.name = aof_file_index /\ aof_file'.off = Len(r) + Len(x)
  <2>1. aof_file \in [name : Names, off : Nat, buf : Seq(Record)]
    BY DEF TypeOK
  <2>2. aof_file.off + Len(x) = Len(r) + Len(x) /\ aof_file.off + Len(x) \in Nat
    BY <1>1, <1>3, <1>4
  <2>3. PICK o \in Nat : o = aof_file.off + Len(x)
    BY <2>2
  <2>4. aof_file' = [aof_file EXCEPT !.off = o, !.buf = b]
    BY <2>3
  <2>5. /\ [aof_file EXCEPT !.off = o, !.buf = b] \in [name : Names, off : Nat, buf : Seq(Record)]
        /\ [aof_file EXCEPT !.off = o, !.buf = b].name = aof_file.name
        /\ [aof_file EXCEPT !.off = o, !.buf = b].off = o
    BY <2>1
  <2>. QED
    BY <1>1, <2>2, <2>3, <2>4, <2>5
<1>6. TypeOK'
  <2>1. written' \in Seq(Record)
    BY ConcatProperties DEF TypeOK
  <2>2. Directory(files')
    BY <1>2 DEF Becomes
  <2>. QED
    BY <1>5, <2>1, <2>2 DEF TypeOK, LeaseType, Directory, rewriter, process
<1>7. FilesInv'
  <2>1. \A n \in DOMAIN files' : ~files'[n].header => files'[n].recs = <<>>
    BY <1>1, <1>2 DEF Becomes, Headed
  <2>. QED
    BY <1>1, <1>2, <2>1 DEF Good, FilesInv
<1>8. OpenInv'
  <2>1. \A who \in Rotators : opening'[who] = 0
    BY <1>1
  <2>2. aof_file' # NoFile
    <3>1. NoFile.name = -1 /\ aof_file_index # -1
      BY <1>1 DEF NoFile, TmpFile
    <3>. QED
      BY <1>5, <3>1
  <2>3. aof_file_index' \in DOMAIN files' /\ files'[aof_file_index'].header /\ files'[aof_file_index'].recs = r \o x
    BY <1>1, <1>2, <1>3 DEF Becomes
  <2>. QED
    BY <1>1, <1>4, <1>5, <2>1, <2>2, <2>3 DEF OpenInv, process
<1>9. RewriteInv'
  <2>1. TmpFile # aof_file_index /\ aof_file_index \in Int
    BY <1>1 DEF TmpFile
  <2>2. TmpFile \in DOMAIN files => files'[TmpFile].header = files[TmpFile].header
    BY <1>2, <2>1 DEF Becomes
  <2>. QED
    BY <1>2, <2>1, <2>2, RewriteKept DEF rewriter, process
<1>10. StopInv' /\ LogInv'
  BY <1>1, <1>2 DEF StopInv, LogInv, process, rewriter
<1>. QED
  BY <1>6, <1>7, <1>8, <1>9, <1>10 DEF AofInv, Good

\* What RewriteAofFile does up to the new file's header.
LEMMA BeginsNext ==
  ASSUME TypeOK, Good, aof_file # NoFile, NEW x \in Seq(Record), NEW who \in Rotators,
         aof_file_index < MaxIndex,
         files' = Open(WriteAt(files, aof_file.name, aof_file.off, x), aof_file_index + 1),
         written' = written \o x, aof_file' = NoFile,
         opening' = [opening EXCEPT ![who] = aof_file_index + 1],
         UNCHANGED <<aof_file_index, rewriter, process, expired>>, damaged' \in BOOLEAN, LeaseType'
  PROVE  AofInv'
<1>1. /\ running /\ opening = [other \in Rotators |-> 0]
      /\ Directory(files) /\ Headed(files)
      /\ aof_file_index \in 1..Top /\ aof_file_index \in DOMAIN files
      /\ \A n \in DOMAIN files : n <= aof_file_index
  BY OpenIsNewest
<1>2. PICK gs : gs = WriteAt(files, aof_file.name, aof_file.off, x)
  OBVIOUS
<1>3. /\ Becomes(files, gs, aof_file_index, files[aof_file_index].recs \o x, TRUE)
      /\ DOMAIN gs = DOMAIN files
      /\ LogIs(gs, rewrite, expired, written \o x)
  BY <1>2, WriteOut
<1>4. PICK m \in 1..MaxIndex : m = aof_file_index + 1
  BY <1>1, AofConstants DEF Top
<1>5. m \in Names /\ m \in Appends /\ m \notin DOMAIN gs /\ m # 0 /\ m # TmpFile /\ m \in 1..Top /\ m \in Int
  BY <1>1, <1>3, <1>4, AofConstants DEF Names, Appends, TmpFile, Top
<1>6. Becomes(gs, files', m, <<>>, FALSE)
  <2>1. Directory(gs)
    BY <1>3 DEF Becomes
  <2>. QED
    BY <1>2, <1>4, <1>5, <2>1, OpenBecomes
<1>7. /\ DOMAIN files' = DOMAIN files \cup {m} /\ files'[m].recs = <<>>
      /\ \A n \in DOMAIN files : files'[n] = gs[n]
  BY <1>3, <1>5, <1>6 DEF Becomes
<1>8. opening'[who] = m /\ \A other \in Rotators : other # who => opening'[other] = 0
  BY <1>1, <1>4
<1>9. TypeOK'
  <2>1. written' \in Seq(Record)
    BY ConcatProperties DEF TypeOK
  <2>2. Directory(files')
    BY <1>6 DEF Becomes
  <2>3. NoFile \in [name : Names, off : Nat, buf : Seq(Record)]
    BY DEF NoFile, Names
  <2>4. opening' \in [Rotators -> {0} \cup Appends]
    BY <1>4, <1>5 DEF TypeOK
  <2>. QED
    BY <2>1, <2>2, <2>3, <2>4 DEF TypeOK, LeaseType, Directory, rewriter, process
<1>10. FilesInv'
  <2>1. \A n \in DOMAIN files' : ~files'[n].header => files'[n].recs = <<>>
    <3>1. \A n \in DOMAIN files : ~gs[n].header => gs[n].recs = <<>>
      BY <1>1, <1>3 DEF Becomes, Headed
    <3>. QED
      BY <1>7, <3>1
  <2>2. \A n \in DOMAIN files' : n <= aof_file_index \/ opening'[who] = n
    BY <1>1, <1>7, <1>8
  <2>. QED
    BY <2>1, <2>2 DEF Good, FilesInv
<1>11. OpenInv'
  BY <1>1, <1>4, <1>5, <1>7, <1>8, AofConstants DEF OpenInv, process
<1>12. RewriteInv'
  <2>1. TmpFile # aof_file_index /\ aof_file_index \in Int /\ m \in aof_file_index..Top
    BY <1>1, <1>4, <1>5 DEF TmpFile
  <2>2. TmpFile \in DOMAIN files => files'[TmpFile].header = files[TmpFile].header
    BY <1>3, <1>7, <2>1 DEF Becomes
  <2>. QED
    BY <1>7, <2>1, <2>2, RewriteKept DEF rewriter, process
<1>13. LogIs(files', rewrite, expired, written \o x)
  <2>1. \A n : Held(files', n) = Held(gs, n)
    BY <1>3, <1>5, <1>7 DEF Held
  <2>. QED
    BY <1>3, <2>1, LogKept
<1>14. StopInv' /\ LogInv'
  BY <1>1, <1>13 DEF StopInv, LogInv, process, rewriter
<1>. QED
  BY <1>9, <1>10, <1>11, <1>12, <1>14 DEF AofInv, Good

\* PushLock.
LEMMA PushLockStep ==
  ASSUME TypeOK, Good, NEW r \in Record, PushLock(r), UNCHANGED expired, LeaseType'
  PROVE  AofInv'
<1>1. aof_file # NoFile /\ aof_file_index < MaxIndex
  BY DEF PushLock, HasFile
<1>2. aof_file.buf \in Seq(Record)
  BY DEF TypeOK
<1>3. PICK a \in Seq(Record) : a = Append(aof_file.buf, r) /\ Len(a) = Len(aof_file.buf) + 1
  <2>1. PICK q \in Seq(Record) : q = aof_file.buf
    BY <1>2
  <2>2. Append(q, r) \in Seq(Record) /\ Len(Append(q, r)) = Len(q) + 1
    BY AppendProperties
  <2>. QED
    BY <2>1, <2>2
<1>4. PICK x \in Seq(Record) : x = WrittenBy(r)
  <2>1. <<>> \in Seq(Record)
    OBVIOUS
  <2>2. WrittenBy(r) \in Seq(Record)
    BY <1>2, <1>3, <2>1 DEF WrittenBy
  <2>. QED
    BY <2>2
<1>5. PICK b \in Seq(Record) : b = SubSeq(a, Len(x) + 1, Len(aof_file.buf) + 1)
  <2>1. Len(x) + 1 \in Int /\ Len(aof_file.buf) + 1 \in Int /\ Len(x) + 1 >= 1
    BY <1>2
  <2>2. \A i \in (Len(x) + 1)..(Len(aof_file.buf) + 1) : a[i] \in Record
    BY <1>2, <1>3, <2>1
  <2>3. SubSeq(a, Len(x) + 1, Len(aof_file.buf) + 1) \in Seq(Record)
    BY <2>1, <2>2, SubSeqProperties
  <2>. QED
    BY <2>3
<1>6. /\ written' = written \o x
      /\ UNCHANGED <<aof_file_index, rewriter, process, damaged>>
  BY <1>4 DEF PushLock
<1>7. CASE Rotates(r)
  <2>1. /\ files' = Open(WriteAt(files, aof_file.name, aof_file.off, x), aof_file_index + 1)
        /\ opening' = [opening EXCEPT !["push"] = aof_file_index + 1]
        /\ aof_file' = NoFile
    BY <1>4, <1>7 DEF PushLock
  <2>2. "push" \in Rotators /\ damaged' \in BOOLEAN
    BY <1>6 DEF Rotators, TypeOK
  <2>. QED
    BY <1>1, <1>6, <2>1, <2>2, BeginsNext
<1>8. CASE ~Rotates(r)
  <2>1. /\ files' = WriteAt(files, aof_file.name, aof_file.off, x)
        /\ aof_file' = [aof_file EXCEPT !.off = @ + Len(x), !.buf = b]
        /\ UNCHANGED opening
    BY <1>3, <1>4, <1>5, <1>8 DEF PushLock
  <2>. QED
    BY <1>1, <1>6, <2>1, StaysOpen
<1>. QED
  BY <1>7, <1>8

\* A lease that is locked or unlocked.
LEMMA PushStep ==
  ASSUME TypeOK, Good, NEW l \in Leases, Push(l) PROVE AofInv'
<1>1. [op |-> "lock", lease |-> l] \in Record /\ [op |-> "unlock", lease |-> l] \in Record
  BY DEF Record
<1>2. LeaseType' /\ UNCHANGED expired
  BY DEF Push, LeaseType, TypeOK
<1>3. PICK r \in Record : PushLock(r)
  BY <1>1 DEF Push
<1>. QED
  BY <1>2, <1>3, PushLockStep

\* Flush.
LEMMA FlushStep ==
  ASSUME TypeOK, Good, Flush PROVE AofInv'
<1>1. PICK x \in Seq(Record), b \in Seq(Record) : x = aof_file.buf /\ b = <<>>
  <2>1. aof_file.buf \in Seq(Record) /\ <<>> \in Seq(Record)
    BY DEF TypeOK
  <2>. QED
    BY <2>1
<1>2. /\ aof_file # NoFile
      /\ files' = WriteAt(files, aof_file.name, aof_file.off, x) /\ written' = written \o x
      /\ aof_file' = [aof_file EXCEPT !.off = @ + Len(x), !.buf = b]
      /\ UNCHANGED <<aof_file_index, opening, rewriter, process, damaged, expired>>
  BY <1>1 DEF Flush, HasFile, db
<1>3. LeaseType'
  BY DEF Flush, db, TypeOK, LeaseType
<1>. QED
  BY <1>2, <1>3, StaysOpen

\* The types after a REWRITEAOF that meets the rotation of a PushLock.
LEMMA AdminTypes ==
  ASSUME TypeOK, Good, AdminRewriteAof, aof_file = NoFile
  PROVE  TypeOK'
<1>1. Directory(files) /\ <<>> \in Seq(Record)
  BY DEF TypeOK, Directory
<1>2. PICK gs : gs = WriteAt(files, TmpFile, 0, <<>>)
  OBVIOUS
<1>3. NoFile.name = TmpFile /\ NoFile.off = 0 /\ NoFile.buf = <<>>
  BY DEF NoFile
<1>4. Directory(gs)
  <2>1. CASE TmpFile \in DOMAIN files
    <3>1. \E y \in Seq(Record) : Becomes(files, WriteAt(files, TmpFile, 0, <<>>), TmpFile, y, files[TmpFile].header)
      BY <1>1, <2>1, OverwriteBecomes
    <3>. QED
      BY <1>2, <3>1 DEF Becomes
  <2>2. CASE TmpFile \notin DOMAIN files
    BY <1>1, <1>2, <2>2 DEF WriteAt
  <2>. QED
    BY <2>1, <2>2
<1>5. aof_file_index + 1 \in Appends /\ aof_file_index + 1 \in Names
  BY AofConstants DEF AdminRewriteAof, Good, FilesInv, Appends, Names
<1>6. files' = Open(gs, aof_file_index + 1)
  BY <1>2, <1>3 DEF AdminRewriteAof
<1>7. Directory(files')
  <2>1. PICK f \in Names : f = aof_file_index + 1
    BY <1>5
  <2>2. Directory(Open(gs, f))
    BY <1>4, OpenBecomes DEF Becomes
  <2>. QED
    BY <1>6, <2>1, <2>2
<1>8. written' \in Seq(Record)
  <2>1. written' = written \o aof_file.buf /\ written \in Seq(Record) /\ aof_file.buf \in Seq(Record)
    BY DEF AdminRewriteAof, TypeOK
  <2>. QED
    BY <2>1, ConcatProperties
<1>9. NoFile \in [name : Names, off : Nat, buf : Seq(Record)]
  BY DEF NoFile, Names
<1>10. opening' \in [Rotators -> {0} \cup Appends]
  BY <1>5 DEF AdminRewriteAof, TypeOK
<1>11. damaged' \in BOOLEAN
  BY DEF AdminRewriteAof, TypeOK
<1>. QED
  BY <1>7, <1>8, <1>9, <1>10, <1>11 DEF AdminRewriteAof, TypeOK, Directory, rewriter, db, process

\* REWRITEAOF.
LEMMA AdminStep ==
  ASSUME TypeOK, Good, ~damaged, AdminRewriteAof PROVE AofInv'
<1>1. CASE aof_file # NoFile
  <2>1. PICK x \in Seq(Record) : x = aof_file.buf
    BY DEF TypeOK
  <2>2. /\ files' = Open(WriteAt(files, aof_file.name, aof_file.off, x), aof_file_index + 1)
        /\ written' = written \o x /\ aof_file' = NoFile /\ aof_file_index < MaxIndex
        /\ opening' = [opening EXCEPT !["admin"] = aof_file_index + 1]
        /\ UNCHANGED <<aof_file_index, rewriter, process, expired>>
    BY <2>1 DEF AdminRewriteAof, db
  <2>3. LeaseType' /\ damaged' \in BOOLEAN /\ "admin" \in Rotators
    BY DEF AdminRewriteAof, db, TypeOK, LeaseType, Rotators
  <2>. QED
    BY <1>1, <2>2, <2>3, BeginsNext
<1>2. CASE aof_file = NoFile
  <2>1. running /\ opening["admin"] = 0 /\ Rotators = {"push", "admin"}
    BY DEF AdminRewriteAof, Rotators
  <2>2. opening["push"] # 0
    BY <1>2, <2>1 DEF Good, OpenInv
  <2>3. damaged'
    BY <2>2 DEF AdminRewriteAof
  <2>. QED
    BY <1>2, <2>3, AdminTypes DEF AofInv
<1>. QED
  BY <1>1, <1>2

\* The end of a rotation.
LEMMA OpenStep ==
  ASSUME TypeOK, Good, ~damaged, NEW who \in Rotators, OpenAofFile(who) PROVE AofInv'
<1>1. PICK m \in 1..MaxIndex : m = opening[who] /\ m = aof_file_index + 1
  BY DEF OpenAofFile, Good, OpenInv, FilesInv
<1>2. /\ running /\ aof_file = NoFile /\ m \in DOMAIN files /\ files[m].recs = <<>>
      /\ \A other \in Rotators : opening[other] # 0 => other = who
  BY <1>1 DEF OpenAofFile, Good, OpenInv
<1>3. m \in 1..Top /\ m \in Names /\ m # TmpFile /\ m \in Int /\ aof_file_index \in Int
  BY <1>1, AofConstants DEF Names, Appends, TmpFile, Top, Good, FilesInv
<1>4. Directory(files) /\ Headed(files)
  BY DEF Good, TypeOK, Directory, Headed, FilesInv
<1>5. Becomes(files, files', m, <<>>, TRUE)
  BY <1>1, <1>2, <1>4, HeaderBecomes DEF OpenAofFile
<1>6. /\ DOMAIN files' = DOMAIN files /\ files'[m].recs = <<>> /\ files'[m].header = TRUE
      /\ \A n \in DOMAIN files : n # m => files'[n] = files[n]
  BY <1>2, <1>5 DEF Becomes
<1>7. /\ aof_file' = [name |-> m, off |-> 0, buf |-> <<>>] /\ aof_file_index' = m
      /\ opening' = [opening EXCEPT ![who] = 0] /\ waiting' = waiting + 1
      /\ UNCHANGED <<rewrite, lease, expired, running, restarts, written, damaged>>
  BY <1>1 DEF OpenAofFile, db, process
<1>8. \A other \in Rotators : opening'[other] = 0
  BY <1>2, <1>7 DEF TypeOK
<1>9. TypeOK'
  <2>1. opening' \in [Rotators -> {0} \cup Appends]
    BY <1>7 DEF TypeOK
  <2>2. aof_file' \in [name : Names, off : Nat, buf : Seq(Record)]
    BY <1>3, <1>7
  <2>3. Directory(files')
    BY <1>5 DEF Becomes
  <2>. QED
    BY <1>3, <1>7, <2>1, <2>2, <2>3 DEF TypeOK, Directory
<1>10. FilesInv'
  <2>1. \A n \in DOMAIN files' : ~files'[n].header => files'[n].recs = <<>>
    BY <1>4, <1>6 DEF Headed
  <2>2. \A n \in DOMAIN files : n <= aof_file_index \/ n = m \/ n = 0
    <3>1. \A n \in DOMAIN files : n <= aof_file_index \/ \E other \in Rotators : opening[other] = n
      BY <1>2 DEF Good, FilesInv
    <3>2. \A other \in Rotators : opening[other] = m \/ opening[other] = 0
      BY <1>1, <1>2
    <3>. QED
      BY <3>1, <3>2
  <2>3. \A n \in DOMAIN files : n \in Int
    BY <1>4, AofConstants DEF Directory, Names, Appends, TmpFile, RewriteFile
  <2>4. \A n \in DOMAIN files' : n <= aof_file_index'
    BY <1>1, <1>3, <1>6, <1>7, <2>2, <2>3
  <2>. QED
    BY <1>1, <1>7, <2>1, <2>4 DEF FilesInv
<1>11. OpenInv'
  <2>1. aof_file' # NoFile /\ aof_file'.name = m /\ aof_file'.off = 0
    BY <1>3, <1>7 DEF NoFile
  <2>2. Len(files'[m].recs) = 0
    BY <1>6
  <2>. QED
    BY <1>2, <1>6, <1>7, <1>8, <2>1, <2>2 DEF OpenInv
<1>12. RewriteInv'
  <2>1. TmpFile \in DOMAIN files => files'[TmpFile].header = files[TmpFile].header
    BY <1>3, <1>6
  <2>2. aof_file_index' \in Int /\ aof_file_index <= aof_file_index'
    BY <1>1, <1>3, <1>7
  <2>. QED
    BY <1>6, <1>7, <2>1, <2>2, RewriteKept
<1>13. LogIs(files', rewrite, expired, written)
  <2>1. \A n : Held(files', n) = Held(files, n)
    BY <1>2, <1>6 DEF Held
  <2>2. LogIs(files, rewrite, expired, written)
    BY DEF Good, LogInv
  <2>. QED
    BY <2>1, <2>2, LogKept
<1>14. StopInv' /\ LogInv'
  BY <1>2, <1>7, <1>13 DEF StopInv, LogInv
<1>. QED
  BY <1>9, <1>10, <1>11, <1>12, <1>14 DEF AofInv, Good
-----------------------------------------------------------------------------
(* The invariant is kept: RewriteAofFiles.                                   *)

\* The files RewriteAofFiles picks are older than every other.
LEMMA PicksOldest ==
  ASSUME Directory(files), aof_file_index \in 1..MaxIndex
  PROVE  /\ Found(FindRewriteAofFiles, ToSet(FindRewriteAofFiles))
         /\ \A m \in ToSet(FindRewriteAofFiles) :
              /\ m \in DOMAIN files /\ m < aof_file_index
              /\ \A n \in DOMAIN files : n = TmpFile \/ n \in ToSet(FindRewriteAofFiles) \/ m < n
<1>1. PICK S \in SUBSET Appends : S = {n \in DOMAIN files \cap Appends : n < aof_file_index}
  OBVIOUS
<1>2. PICK s : s = SortedByName(S)
  OBVIOUS
<1>3. PICK U : U = S \cup (DOMAIN files \cap {RewriteFile})
  OBVIOUS
<1>4. Found(FindRewriteAofFiles, U)
  <2>1. Enumerates(s, S)
    BY <1>2, SortedEnumerates
  <2>2. Found(WithRewriteFile(files, s), U)
    BY <1>3, <2>1, WithRewriteIs
  <2>. QED
    BY <1>1, <1>2, <2>2 DEF FindRewriteAofFiles
<1>5. ToSet(FindRewriteAofFiles) = U
  BY <1>4 DEF Found
<1>6. ASSUME NEW m \in U
      PROVE  /\ m \in DOMAIN files /\ m < aof_file_index
             /\ \A n \in DOMAIN files : n = TmpFile \/ n \in U \/ m < n
  <2>1. m \in DOMAIN files /\ m \in Int /\ m < aof_file_index
    BY <1>1, <1>3 DEF RewriteFile, Appends
  <2>2. ASSUME NEW n \in DOMAIN files, n # TmpFile, n \notin U PROVE m < n
    <3>1. n \in Appends
      BY <1>3, <2>2 DEF Directory, Names
    <3>2. n \in Int /\ ~(n < aof_file_index)
      BY <1>1, <1>3, <2>2, <3>1 DEF Appends
    <3>. QED
      BY <2>1, <3>2
  <2>. QED
    BY <2>1, <2>2
<1>. QED
  BY <1>4, <1>5, <1>6

\* RewriteAofFiles makes rewrite.aof.tmp, or leaves the log alone.
LEMMA RewriteStep ==
  ASSUME TypeOK, Good, ~damaged, RewriteAofFiles PROVE AofInv'
<1>1. /\ running /\ waiting > 0 /\ waiting' = waiting - 1
      /\ UNCHANGED <<aof_file, aof_file_index, opening, lease, expired, running, restarts, written, damaged>>
  BY DEF RewriteAofFiles, db, process
<1>2. Directory(files) /\ Headed(files) /\ aof_file_index \in 1..MaxIndex /\ waiting' \in Nat
  BY <1>1 DEF Good, TypeOK, Directory, Headed, FilesInv
<1>3. CASE UNCHANGED <<files, rewrite>>
  <2>1. TypeOK'
    BY <1>1, <1>2, <1>3 DEF TypeOK
  <2>2. FilesInv' /\ OpenInv' /\ RewriteInv' /\ StopInv' /\ LogInv'
    BY <1>1, <1>3 DEF Good, FilesInv, OpenInv, RewriteInv, StopInv, LogInv
  <2>. QED
    BY <2>1, <2>2 DEF AofInv, Good
<1>4. CASE /\ rewrite.at = "idle" /\ FindRewriteAofFiles # <<>>
           /\ rewrite' = [at |-> "load", names |-> FindRewriteAofFiles]
           /\ files' = WriteHeader(Open(files, TmpFile), TmpFile)
  <2>1. PICK names : names = FindRewriteAofFiles
    OBVIOUS
  <2>2. /\ Found(names, ToSet(names)) /\ names \in Seq(Names) /\ names # <<>>
        /\ \A m \in ToSet(names) :
             /\ m \in DOMAIN files /\ m < aof_file_index
             /\ \A n \in DOMAIN files : n = TmpFile \/ n \in ToSet(names) \/ m < n
    BY <1>2, <1>4, <2>1, PicksOldest DEF Found
  <2>3. rewrite' = [at |-> "load", names |-> names] /\ rewrite'.at = "load" /\ rewrite'.names = names
    BY <1>4, <2>1
  <2>4. PICK gs : gs = Open(files, TmpFile)
    OBVIOUS
  <2>5. TmpFile \in Names
    BY DEF Names
  <2>6. /\ Directory(gs) /\ DOMAIN gs = DOMAIN files \cup {TmpFile}
        /\ \A n \in DOMAIN files : gs[n] = files[n]
        /\ TmpFile \notin DOMAIN files => gs[TmpFile].recs = <<>>
    <3>1. CASE TmpFile \in DOMAIN files
      <4>1. gs = files
        BY <1>2, <2>4, <2>5, <3>1, OpenBecomes
      <4>. QED
        BY <1>2, <3>1, <4>1
    <3>2. CASE TmpFile \notin DOMAIN files
      <4>1. Becomes(files, gs, TmpFile, <<>>, FALSE)
        BY <1>2, <2>4, <2>5, <3>2, OpenBecomes
      <4>. QED
        BY <3>2, <4>1 DEF Becomes
    <3>. QED
      BY <3>1, <3>2
  <2>7. Becomes(gs, files', TmpFile, gs[TmpFile].recs, TRUE)
    <3>1. TmpFile \in DOMAIN gs
      BY <2>6
    <3>2. Becomes(gs, WriteHeader(gs, TmpFile), TmpFile, gs[TmpFile].recs, TRUE)
      BY <2>6, <3>1, HeaderBecomes
    <3>. QED
      BY <1>4, <2>4, <3>2
  <2>8. /\ Directory(files') /\ DOMAIN files' = DOMAIN files \cup {TmpFile}
        /\ files'[TmpFile].header = TRUE /\ files'[TmpFile].recs = gs[TmpFile].recs
        /\ \A n \in DOMAIN files : n # TmpFile => files'[n] = files[n]
        /\ \A n : Held(files', n) = Held(files, n)
    BY <2>6, <2>7 DEF Becomes, Held
  <2>9. TypeOK'
    <3>1. rewrite' \in [at : {"idle", "load", "clear", "cleared"}, names : Seq(Names)]
      BY <2>2, <2>3
    <3>. QED
      BY <1>1, <1>2, <2>8, <3>1 DEF TypeOK, Directory
  <2>10. TmpFile < 1 /\ TmpFile # 0 /\ TmpFile \in Int /\ aof_file_index \in Int /\ aof_file_index >= 1
    BY <1>2 DEF TmpFile
  <2>11. FilesInv'
    <3>1. \A n \in DOMAIN files' : ~files'[n].header => files'[n].recs = <<>>
      BY <1>2, <2>8 DEF Headed
    <3>2. \A n \in DOMAIN files' : n <= aof_file_index \/ \E who \in Rotators : opening[who] = n
      BY <1>1, <2>8, <2>10 DEF Good, FilesInv
    <3>. QED
      BY <1>1, <1>2, <3>1, <3>2 DEF FilesInv
  <2>12. OpenInv'
    <3>1. /\ aof_file_index # TmpFile /\ aof_file_index + 1 # TmpFile
          /\ \A n \in DOMAIN files : n # TmpFile => files'[n] = files[n]
          /\ DOMAIN files \subseteq DOMAIN files'
      BY <2>8, <2>10
    <3>2. OpenInv
      BY DEF Good
    <3>3. \A who \in Rotators : opening[who] # 0 =>
             opening[who] \in DOMAIN files' /\ files'[opening[who]].recs = <<>>
      BY <3>1, <3>2 DEF OpenInv
    <3>4. aof_file # NoFile => /\ aof_file_index \in DOMAIN files'
                               /\ files'[aof_file_index] = files[aof_file_index]
      BY <3>1, <3>2 DEF OpenInv
    <3>. QED
      BY <1>1, <3>2, <3>3, <3>4 DEF OpenInv
  <2>13. RewriteInv'
    <3>1. ASSUME NEW m \in ToSet(names)
          PROVE  /\ m \in DOMAIN files' /\ m < aof_file_index'
                 /\ \A n \in DOMAIN files' : n = TmpFile \/ n \in ToSet(names) \/ m < n
      BY <1>1, <2>2, <2>8
    <3>. QED
      BY <1>1, <2>2, <2>3, <2>8, <3>1 DEF RewriteInv
  <2>14. StopInv' /\ LogInv'
    <3>1. LogIs(files, rewrite, expired, written)
      BY DEF Good, LogInv
    <3>2. LogIs(files', rewrite, expired, written)
      BY <2>8, <3>1, LogKept
    <3>3. LogIs(files', rewrite', expired, written)
      BY <1>4, <2>3, <3>2 DEF LogIs
    <3>. QED
      BY <1>1, <3>3 DEF StopInv, LogInv
  <2>. QED
    BY <2>9, <2>11, <2>12, <2>13, <2>14 DEF AofInv, Good
<1>. QED
  BY <1>3, <1>4 DEF RewriteAofFiles

\* The types of what LoadAofFiles reads.
LEMMA LoadType ==
  ASSUME NEW fs, Directory(fs), NEW names, Found(names, ToSet(names)), ToSet(names) \subseteq DOMAIN fs
  PROVE  LoadAofFiles(fs, names) \in Seq(Record)
<1>1. names \in Seq(Names) /\ Len(names) \in Nat /\ DOMAIN names = 1..Len(names)
  BY DEF Found
<1>2. \A k \in 1..Len(names) : fs[names[k]].recs \in Seq(Record)
  BY <1>1 DEF Directory, File, ToSet
<1>3. PICK g : Loading(fs, names, g) /\ LoadAofFiles(fs, names) = g[Len(names)]
  BY <1>1, <1>2, LoadSteps DEF Listing
<1>4. Len(names) \in 0..Len(names)
  BY <1>1
<1>. QED
  BY <1>3, <1>4 DEF Loading

Oldest(fs, U) ==
  \A m \in U : m \in DOMAIN fs /\ \A n \in DOMAIN fs : n = TmpFile \/ n \in U \/ m < n

Replaces(fs, gs, names, x, over) ==
  /\ Directory(fs) /\ Found(names, ToSet(names)) /\ names # <<>> /\ Increasing(names)
  /\ Oldest(fs, ToSet(names)) /\ x \in Seq(Record) /\ x = Unexpired(Log(Listed(fs, ToSet(names))), over)
  /\ Directory(gs) /\ Held(gs, TmpFile) = x /\ \A n \in 0..Top : Held(gs, n) = Held(fs, n)

\* The records of the oldest files can be kept in rewrite.aof.tmp instead.
LEMMA LogReplaced ==
  ASSUME NEW fs, NEW gs, NEW names, NEW x, NEW over, Replaces(fs, gs, names, x, over)
  PROVE  Unexpired(Log(Rewritten(gs, names)), over) = Unexpired(Log(Loaded(fs)), over)
<1>0. PICK U : U = ToSet(names)
  OBVIOUS
<1>1. /\ Directory(fs) /\ Directory(gs) /\ Oldest(fs, U) /\ x \in Seq(Record) /\ names # <<>>
      /\ Held(gs, TmpFile) = x /\ \A n \in 0..Top : Held(gs, n) = Held(fs, n)
      /\ names \in Seq(Names) /\ U \subseteq 0..Top /\ x = Unexpired(Log(Listed(fs, U)), over)
  BY <1>0 DEF Replaces, Found
<1>2. PICK L \in 1..Len(names) : L = Len(names)
  BY <1>1, EmptySeq
<1>3. DOMAIN names = 1..L /\ \A k \in 1..L : names[k] \in U
  BY <1>0, <1>1, <1>2 DEF ToSet
<1>4. PICK z \in 0..Top : z = names[L] /\ z \in U
  BY <1>1, <1>2, <1>3
<1>5. \A n \in U : n <= z
  <2>. SUFFICES ASSUME NEW n \in U PROVE n <= z
    OBVIOUS
  <2>1. PICK k \in 1..L : n = names[k]
    BY <1>0, <1>3 DEF ToSet
  <2>2. n \in Int /\ z \in Int
    BY <1>1
  <2>3. k < L => names[k] < names[L]
    BY <1>2 DEF Replaces, Increasing
  <2>. QED
    BY <1>2, <1>4, <2>1, <2>2, <2>3
<1>6. PICK b \in 0..(Top + 1) : b = z + 1 /\ b > 0
  BY <1>4, TopNat
<1>7. \A n \in 0..Top : /\ n < b /\ n \notin U => Held(fs, n) = <<>>
                        /\ n >= b => n \notin U
  <2>1. ASSUME NEW n \in 0..Top, n < b, n \notin U PROVE n \notin DOMAIN fs
    <3>1. n # TmpFile /\ ~(z < n)
      BY <1>4, <1>6, <2>1 DEF TmpFile
    <3>. QED
      BY <1>1, <1>4, <2>1, <3>1 DEF Oldest
  <2>2. ASSUME NEW n \in 0..Top, n >= b PROVE n \notin U
    BY <1>4, <1>5, <1>6, <2>2
  <2>. QED
    BY <2>1, <2>2 DEF Held
<1>8. <<>> \in Seq(Record) /\ \A n : Held(fs, n) \in Seq(Record)
  BY <1>1, HeldType
<1>9. PICK c \in Parts, w \in Parts : c = Loaded(fs) /\ w = Rewritten(gs, names)
  BY <1>1, LogPartsType
<1>10. PICK d \in Parts : d = Listed(fs, U)
  BY <1>8 DEF Listed, Parts
<1>11. PICK e \in Parts : e = [n \in 0..Top |-> IF n \in U THEN <<>> ELSE Held(fs, n)]
  BY <1>8 DEF Parts
<1>12. PICK a \in Parts : a = [n \in 0..Top |-> IF n = 0 THEN x ELSE <<>>]
  BY <1>1, <1>8 DEF Parts
<1>13. \A n \in 0..Top : /\ c[n] = Held(fs, n)
                         /\ d[n] = IF n \in U THEN Held(fs, n) ELSE <<>>
                         /\ e[n] = IF n \in U THEN <<>> ELSE Held(fs, n)
                         /\ a[n] = IF n = 0 THEN x ELSE <<>>
                         /\ w[n] = IF n = 0 THEN x ELSE IF n \in U THEN <<>> ELSE Held(fs, n)
  BY <1>0, <1>1, <1>9, <1>10, <1>11, <1>12 DEF Loaded, Rewritten, Listed, RewriteFile
<1>14. Log(c) = Log(d) \o Log(e)
  <2>1. \A n \in 0..Top : n < b => d[n] = c[n] /\ e[n] = <<>>
    BY <1>7, <1>13
  <2>2. \A n \in 0..Top : n >= b => d[n] = <<>> /\ e[n] = c[n]
    BY <1>7, <1>13
  <2>3. Splits(c, d, e, b)
    BY <2>1, <2>2 DEF Splits
  <2>. QED
    BY <2>3, LogSplits
<1>15. Log(w) = Log(a) \o Log(e)
  <2>1. \A n \in 0..Top : n < 1 => a[n] = w[n] /\ e[n] = <<>>
    <3>. SUFFICES ASSUME NEW n \in 0..Top, n < 1 PROVE a[n] = w[n] /\ e[n] = <<>>
      OBVIOUS
    <3>1. n = 0 /\ n < b
      BY <1>6
    <3>. QED
      BY <1>7, <1>13, <3>1
  <2>2. \A n \in 0..Top : n >= 1 => a[n] = <<>> /\ e[n] = w[n]
    BY <1>13
  <2>3. 1 \in 0..(Top + 1)
    BY TopNat
  <2>4. Splits(w, a, e, 1)
    BY <2>1, <2>2, <2>3 DEF Splits
  <2>. QED
    BY <2>4, LogSplits
<1>16. Log(a) = x
  <2>1. \A n \in 0..Top : n > 0 => a[n] = <<>>
    BY <1>13
  <2>2. 0 \in 0..Top
    BY TopNat
  <2>. QED
    BY <1>13, <2>1, <2>2, LogAlone
<1>17. PICK p \in Seq(Record), q \in Seq(Record) : p = Log(d) /\ q = Log(e)
  BY LogType
<1>18. /\ Unexpired(p \o q, over) = Unexpired(p, over) \o Unexpired(q, over)
       /\ Unexpired(x \o q, over) = Unexpired(x, over) \o Unexpired(q, over)
  BY <1>1, UnexpiredConcat
<1>19. Unexpired(x, over) = Unexpired(p, over)
  <2>1. Unexpired(Unexpired(p, over), over) = Unexpired(p, over)
    BY UnexpiredTwice
  <2>. QED
    BY <1>1, <1>10, <1>17, <2>1
<1>. QED
  BY <1>9, <1>14, <1>15, <1>16, <1>17, <1>18, <1>19

\* LoadRewriteAofFiles: rewrite.aof.tmp holds what the oldest files hold.
LEMMA LoadStep ==
  ASSUME TypeOK, Good, ~damaged, LoadRewriteAofFiles PROVE AofInv'
<1>1. PICK names, recs : names = rewrite.names /\ recs = LoadAofFiles(files, names)
  OBVIOUS
<1>2. /\ running /\ rewrite.at = "load" /\ files' = WriteAt(files, TmpFile, 0, recs)
      /\ rewrite' = [rewrite EXCEPT !.at = "clear"]
      /\ damaged' = (\/ damaged \/ OutOfOrder(names) \/ StopsShort(files, names)
                     \/ Len(files[TmpFile].recs) > Len(recs))
      /\ UNCHANGED <<aof_file, aof_file_index, opening, waiting, lease, expired, running, restarts, written>>
  BY <1>1 DEF LoadRewriteAofFiles, db, process
<1>3. /\ Directory(files) /\ Headed(files) /\ aof_file_index \in 1..MaxIndex
      /\ TmpFile \in DOMAIN files /\ files[TmpFile].header
      /\ Found(names, ToSet(names)) /\ ToSet(names) \subseteq DOMAIN files /\ names # <<>>
      /\ Oldest(files, ToSet(names))
  BY <1>1, <1>2 DEF Good, TypeOK, Directory, Headed, FilesInv, RewriteInv, Oldest
<1>4. recs \in Seq(Record)
  BY <1>1, <1>3, LoadType
<1>5. rewrite'.at = "clear" /\ rewrite'.names = names
  BY <1>1, <1>2 DEF TypeOK
<1>6. TypeOK'
  <2>1. PICK y \in Seq(Record) : Becomes(files, WriteAt(files, TmpFile, 0, recs), TmpFile, y, files[TmpFile].header)
    BY <1>3, <1>4, OverwriteBecomes
  <2>2. Directory(files')
    BY <1>2, <2>1 DEF Becomes
  <2>3. damaged' \in BOOLEAN
    BY <1>2 DEF TypeOK
  <2>4. rewrite' \in [at : {"idle", "load", "clear", "cleared"}, names : Seq(Names)]
    BY <1>2 DEF TypeOK
  <2>. QED
    BY <1>2, <2>2, <2>3, <2>4 DEF TypeOK, Directory
<1>7. ASSUME ~damaged' PROVE Good'
  <2>1. ~OutOfOrder(names) /\ ~StopsShort(files, names) /\ ~(Len(files[TmpFile].recs) > Len(recs))
    BY <1>2, <1>7
  <2>2. Len(files[TmpFile].recs) <= Len(recs)
    <3>1. PICK r \in Seq(Record) : r = files[TmpFile].recs
      BY <1>3 DEF Directory, File
    <3>. QED
      BY <1>4, <2>1, <3>1
  <2>3. Becomes(files, files', TmpFile, recs, TRUE)
    <3>1. Becomes(files, WriteAt(files, TmpFile, 0, recs), TmpFile, recs, files[TmpFile].header)
      BY <1>3, <1>4, <2>2, OverwriteBecomes
    <3>2. files[TmpFile].header = TRUE
      BY <1>3 DEF Directory, File
    <3>. QED
      BY <1>2, <3>1, <3>2
  <2>4. /\ Directory(files') /\ DOMAIN files' = DOMAIN files
        /\ files'[TmpFile].header = TRUE /\ files'[TmpFile].recs = recs
        /\ \A n \in DOMAIN files : n # TmpFile => files'[n] = files[n]
        /\ Held(files', TmpFile) = recs /\ \A n : n # TmpFile => Held(files', n) = Held(files, n)
    BY <1>3, <2>3 DEF Becomes, Held
  <2>5. FilesInv'
    BY <1>2, <1>3, <2>4 DEF Good, FilesInv, Headed
  <2>6. OpenInv'
    <3>1. aof_file_index # TmpFile /\ aof_file_index + 1 # TmpFile
      BY <1>3 DEF TmpFile
    <3>2. OpenInv
      BY DEF Good
    <3>3. \A who \in Rotators : opening[who] # 0 =>
             opening[who] \in DOMAIN files' /\ files'[opening[who]].recs = <<>>
      BY <2>4, <3>1, <3>2 DEF OpenInv
    <3>4. aof_file # NoFile => /\ aof_file_index \in DOMAIN files'
                               /\ files'[aof_file_index] = files[aof_file_index]
      BY <2>4, <3>1, <3>2 DEF OpenInv
    <3>. QED
      BY <1>2, <3>2, <3>3, <3>4 DEF OpenInv
  <2>7. RewriteInv'
    BY <1>1, <1>2, <1>3, <1>5, <2>4 DEF Good, RewriteInv
  <2>8. Increasing(names)
    BY <1>3, <2>1, FoundInOrder
  <2>9. recs = Unexpired(Log(Listed(files, ToSet(names))), expired)
    BY <1>1, <1>3, <2>1, LoadsFound
  <2>10. \A n \in 0..Top : Held(files', n) = Held(files, n)
    <3>1. \A n \in 0..Top : n # TmpFile
      BY DEF TmpFile
    <3>. QED
      BY <2>4, <3>1
  <2>11. Replaces(files, files', names, recs, expired)
    BY <1>3, <1>4, <2>4, <2>8, <2>9, <2>10 DEF Replaces
  <2>12. Unexpired(Log(Rewritten(files', names)), expired) = Unexpired(Log(Loaded(files)), expired)
    BY <2>11, LogReplaced
  <2>13. Loaded(files') = Loaded(files)
    BY <2>10 DEF Loaded
  <2>14. Unexpired(Log(Loaded(files)), expired) = Unexpired(written, expired)
    BY <1>2 DEF Good, LogInv, LogIs
  <2>15. LogIs(files', rewrite', expired, written)
    BY <1>5, <2>12, <2>13, <2>14 DEF LogIs
  <2>16. StopInv' /\ LogInv'
    BY <1>2, <2>15 DEF StopInv, LogInv
  <2>. QED
    BY <2>5, <2>6, <2>7, <2>16 DEF Good
<1>. QED
  BY <1>6, <1>7 DEF AofInv

\* What is left of a list of files when the first is gone.
LEMMA TailFound ==
  ASSUME NEW names, Found(names, ToSet(names)), names # <<>>
  PROVE  /\ Found(Tail(names), ToSet(Tail(names)))
         /\ Head(names) \in ToSet(names) /\ ToSet(Tail(names)) = ToSet(names) \ {Head(names)}
<1>1. /\ names \in Seq(Names) /\ ToSet(names) \subseteq 0..Top
      /\ \A j, k \in 1..Len(names) : names[j] = names[k] => j = k
      /\ \A k \in 1..Len(names) : names[k] = RewriteFile => k = 1
  BY DEF Found
<1>2. PICK N \in Nat : Len(names) = N + 1
  <2>1. Len(names) \in Nat /\ Len(names) # 0
    BY <1>1, EmptySeq
  <2>. QED
    BY <2>1
<1>3. PICK t \in Seq(Names) : /\ t = Tail(names) /\ Len(t) = N
                              /\ \A k \in 1..N : t[k] = names[k + 1]
  <2>1. /\ Tail(names) \in Seq(Names) /\ Len(Tail(names)) = Len(names) - 1
        /\ \A k \in 1..Len(Tail(names)) : Tail(names)[k] = names[k + 1]
    BY <1>1, HeadTailProperties
  <2>2. Len(Tail(names)) = N
    BY <1>2, <2>1
  <2>3. \A k \in 1..N : Tail(names)[k] = names[k + 1]
    BY <2>1, <2>2, Zenon
  <2>. QED
    BY <2>1, <2>2, <2>3, Zenon
<1>4. Head(names) = names[1]
  BY <1>1, HeadTailProperties
<1>5. DOMAIN names = 1..(N + 1) /\ DOMAIN t = 1..N /\ 1 \in 1..(N + 1)
  BY <1>1, <1>2, <1>3
<1>6. ToSet(names) = {names[k] : k \in 1..(N + 1)} /\ ToSet(t) = {t[k] : k \in 1..N}
  BY <1>5 DEF ToSet
<1>7. names[1] \in ToSet(names)
  BY <1>5, <1>6
<1>8. ToSet(t) = ToSet(names) \ {names[1]}
  <2>1. ASSUME NEW n \in ToSet(t) PROVE n \in ToSet(names) \ {names[1]}
    <3>1. PICK k \in 1..N : n = t[k]
      BY <1>6
    <3>2. k + 1 \in 1..(N + 1) /\ n = names[k + 1] /\ k + 1 # 1
      BY <1>3, <3>1
    <3>. QED
      BY <1>1, <1>2, <1>5, <1>6, <3>2
  <2>2. ASSUME NEW n \in ToSet(names) \ {names[1]} PROVE n \in ToSet(t)
    <3>1. PICK k \in 1..(N + 1) : n = names[k] /\ k # 1
      BY <1>6
    <3>2. k - 1 \in 1..N /\ (k - 1) + 1 = k
      BY <3>1
    <3>. QED
      BY <1>3, <1>6, <3>1, <3>2
  <2>. QED
    BY <2>1, <2>2
<1>9. \A j, k \in 1..N : t[j] = t[k] => j = k
  <2>. SUFFICES ASSUME NEW j \in 1..N, NEW k \in 1..N, t[j] = t[k] PROVE j = k
    OBVIOUS
  <2>1. j + 1 \in 1..(N + 1) /\ k + 1 \in 1..(N + 1) /\ names[j + 1] = names[k + 1]
    BY <1>3
  <2>2. j + 1 = k + 1
    BY <1>1, <1>2, <2>1
  <2>. QED
    BY <2>2
<1>10. \A k \in 1..N : t[k] # RewriteFile
  <2>. SUFFICES ASSUME NEW k \in 1..N PROVE t[k] # RewriteFile
    OBVIOUS
  <2>1. k + 1 \in 1..(N + 1) /\ k + 1 # 1 /\ t[k] = names[k + 1]
    BY <1>3
  <2>. QED
    BY <1>1, <1>2, <2>1
<1>11. Found(t, ToSet(t))
  BY <1>1, <1>3, <1>8, <1>9, <1>10 DEF Found
<1>. QED
  BY <1>3, <1>4, <1>7, <1>8, <1>11

\* ClearRewriteAofFiles removes a file whose records rewrite.aof.tmp holds.
LEMMA ClearStep ==
  ASSUME TypeOK, Good, ~damaged, ClearRewriteAofFiles PROVE AofInv'
<1>1. PICK names, h, t : names = rewrite.names /\ h = Head(names) /\ t = Tail(names)
  OBVIOUS
<1>2. /\ running /\ rewrite.at \in {"clear", "cleared"} /\ names # <<>>
      /\ files' = RemoveFile(files, h) /\ rewrite' = [at |-> "cleared", names |-> t]
      /\ UNCHANGED <<aof_file, aof_file_index, opening, waiting, lease, expired, running, restarts, written, damaged>>
  BY <1>1 DEF ClearRewriteAofFiles, db, process
<1>3. /\ Directory(files) /\ Headed(files) /\ aof_file_index \in 1..MaxIndex
      /\ TmpFile \in DOMAIN files /\ files[TmpFile].header /\ Found(names, ToSet(names))
      /\ \A m \in ToSet(names) :
           /\ m \in DOMAIN files /\ m < aof_file_index
           /\ \A n \in DOMAIN files : n = TmpFile \/ n \in ToSet(names) \/ m < n
  BY <1>1, <1>2 DEF Good, TypeOK, Directory, Headed, FilesInv, RewriteInv
<1>4. Found(t, ToSet(t)) /\ h \in ToSet(names) /\ ToSet(t) = ToSet(names) \ {h} /\ t \in Seq(Names)
  <2>1. /\ Found(Tail(names), ToSet(Tail(names)))
        /\ Head(names) \in ToSet(names) /\ ToSet(Tail(names)) = ToSet(names) \ {Head(names)}
    BY <1>2, <1>3, TailFound
  <2>2. Found(t, ToSet(t)) /\ h \in ToSet(names) /\ ToSet(t) = ToSet(names) \ {h}
    BY <1>1, <2>1, Zenon
  <2>. QED
    BY <2>2 DEF Found
<1>5. h \in 0..Top /\ h \in Int /\ h # TmpFile /\ h < aof_file_index
  <2>1. h \in 0..Top /\ h < aof_file_index
    BY <1>3, <1>4 DEF Found
  <2>. QED
    BY <2>1 DEF TmpFile
<1>6. /\ Directory(files') /\ DOMAIN files' = DOMAIN files \ {h}
      /\ \A n \in DOMAIN files : n # h => files'[n] = files[n]
  BY <1>2, <1>3, RemoveIs
<1>7. rewrite'.at = "cleared" /\ rewrite'.names = t
  BY <1>2
<1>8. TypeOK'
  <2>1. rewrite' \in [at : {"idle", "load", "clear", "cleared"}, names : Seq(Names)]
    BY <1>2, <1>4
  <2>. QED
    BY <1>2, <1>6, <2>1 DEF TypeOK, Directory
<1>9. FilesInv'
  BY <1>2, <1>3, <1>6 DEF Good, FilesInv, Headed
<1>10. OpenInv'
  <2>1. aof_file_index # h /\ aof_file_index + 1 # h
    BY <1>3, <1>5
  <2>2. OpenInv
    BY DEF Good
  <2>3. \A who \in Rotators : opening[who] # 0 =>
           opening[who] \in DOMAIN files' /\ files'[opening[who]].recs = <<>>
    BY <1>6, <2>1, <2>2 DEF OpenInv
  <2>4. aof_file # NoFile => /\ aof_file_index \in DOMAIN files'
                             /\ files'[aof_file_index] = files[aof_file_index]
    BY <1>6, <2>1, <2>2 DEF OpenInv
  <2>. QED
    BY <1>2, <2>2, <2>3, <2>4 DEF OpenInv
<1>11. RewriteInv'
  <2>1. ASSUME NEW m \in ToSet(t)
        PROVE  /\ m \in DOMAIN files' /\ m < aof_file_index'
               /\ \A n \in DOMAIN files' : n = TmpFile \/ n \in ToSet(t) \/ m < n
    BY <1>2, <1>3, <1>4, <1>6
  <2>2. TmpFile \in DOMAIN files' /\ files'[TmpFile].header
    BY <1>3, <1>5, <1>6
  <2>. QED
    BY <1>2, <1>4, <1>7, <2>1, <2>2 DEF RewriteInv
<1>12. Rewritten(files', t) = Rewritten(files, names)
  <2>1. Held(files', h) = <<>> /\ \A n : n # h => Held(files', n) = Held(files, n)
    BY <1>6 DEF Held
  <2>2. ASSUME NEW n \in 0..Top
        PROVE  (IF n = RewriteFile THEN Held(files', TmpFile)
                ELSE IF n \in ToSet(t) THEN <<>> ELSE Held(files', n)) =
               (IF n = RewriteFile THEN Held(files, TmpFile)
                ELSE IF n \in ToSet(names) THEN <<>> ELSE Held(files, n))
    BY <1>4, <1>5, <2>1
  <2>. QED
    BY <2>2 DEF Rewritten
<1>13. LogIs(files', rewrite', expired, written)
  <2>1. Unexpired(Log(Rewritten(files, names)), expired) = Unexpired(written, expired)
    BY <1>1, <1>2 DEF Good, LogInv, LogIs
  <2>. QED
    BY <1>7, <1>12, <2>1 DEF LogIs
<1>14. StopInv' /\ LogInv'
  BY <1>2, <1>13 DEF StopInv, LogInv
<1>. QED
  BY <1>8, <1>9, <1>10, <1>11, <1>14 DEF AofInv, Good

\* RenameRewriteFile: rewrite.aof is now the first part of the log.
LEMMA RenameStep ==
  ASSUME TypeOK, Good, ~damaged, RenameRewriteFile PROVE AofInv'
<1>1. PICK fs : fs = [f \in DOMAIN files \cup {RewriteFile} |->
                        IF f = RewriteFile THEN files[TmpFile] ELSE files[f]]
  OBVIOUS
<1>2. /\ running /\ rewrite.at = "cleared" /\ rewrite.names = <<>>
      /\ files' = RemoveFile(fs, TmpFile) /\ rewrite' = Idle
      /\ UNCHANGED <<aof_file, aof_file_index, opening, waiting, lease, expired, running, restarts, written, damaged>>
  BY <1>1 DEF RenameRewriteFile, db, process
<1>3. /\ Directory(files) /\ Headed(files) /\ aof_file_index \in 1..MaxIndex
      /\ TmpFile \in DOMAIN files /\ files[TmpFile].header
  BY <1>2 DEF Good, TypeOK, Directory, Headed, FilesInv, RewriteInv
<1>4. /\ DOMAIN fs = DOMAIN files \cup {0} /\ fs[0] = files[TmpFile]
      /\ \A n \in DOMAIN files : n # 0 => fs[n] = files[n]
  BY <1>1 DEF RewriteFile
<1>5. Directory(fs)
  <2>1. \A n \in DOMAIN files \cup {0} : fs[n] \in File
    BY <1>3, <1>4 DEF Directory
  <2>2. fs \in [DOMAIN fs -> File]
    BY <1>1, <1>4, <2>1
  <2>. QED
    BY <1>3, <1>4, <2>2 DEF Directory, Names, RewriteFile
<1>6. TmpFile # 0 /\ TmpFile \in Int
  BY DEF TmpFile
<1>7. /\ Directory(files') /\ DOMAIN files' = (DOMAIN files \cup {0}) \ {TmpFile}
      /\ files'[0] = files[TmpFile]
      /\ \A n \in DOMAIN files : n # 0 /\ n # TmpFile => files'[n] = files[n]
  <2>1. /\ Directory(files') /\ DOMAIN files' = DOMAIN fs \ {TmpFile}
        /\ \A n \in DOMAIN fs : n # TmpFile => files'[n] = fs[n]
    BY <1>2, <1>5, RemoveIs
  <2>. QED
    BY <1>4, <1>6, <2>1
<1>8. rewrite'.at = "idle"
  BY <1>2 DEF Idle
<1>9. TypeOK'
  <2>0. <<>> \in Seq(Names)
    OBVIOUS
  <2>1. rewrite' \in [at : {"idle", "load", "clear", "cleared"}, names : Seq(Names)]
    BY <1>2, <2>0 DEF Idle
  <2>. QED
    BY <1>2, <1>7, <2>1 DEF TypeOK, Directory
<1>10. FilesInv'
  <2>1. \A n \in DOMAIN files' : ~files'[n].header => files'[n].recs = <<>>
    BY <1>3, <1>7 DEF Headed
  <2>2. \A n \in DOMAIN files' : n <= aof_file_index \/ \E who \in Rotators : opening[who] = n
    <3>1. 0 <= aof_file_index
      BY <1>3
    <3>. QED
      BY <1>2, <1>7, <3>1 DEF Good, FilesInv
  <2>. QED
    BY <1>2, <1>3, <2>1, <2>2 DEF FilesInv
<1>11. OpenInv'
  <2>1. /\ aof_file_index # 0 /\ aof_file_index + 1 # 0
        /\ aof_file_index # TmpFile /\ aof_file_index + 1 # TmpFile
    BY <1>3 DEF TmpFile
  <2>2. OpenInv
    BY DEF Good
  <2>3. \A who \in Rotators : opening[who] # 0 =>
           opening[who] \in DOMAIN files' /\ files'[opening[who]].recs = <<>>
    BY <1>7, <2>1, <2>2 DEF OpenInv
  <2>4. aof_file # NoFile => /\ aof_file_index \in DOMAIN files'
                             /\ files'[aof_file_index] = files[aof_file_index]
    BY <1>7, <2>1, <2>2 DEF OpenInv
  <2>. QED
    BY <1>2, <2>2, <2>3, <2>4 DEF OpenInv
<1>12. Loaded(files') = Rewritten(files, <<>>)
  <2>1. ToSet(<<>>) = {}
    BY DEF ToSet
  <2>2. ASSUME NEW n \in 0..Top
        PROVE  Held(files', n) = (IF n = RewriteFile THEN Held(files, TmpFile)
                                  ELSE IF n \in {} THEN <<>> ELSE Held(files, n))
    <3>1. n # TmpFile
      BY DEF TmpFile
    <3>. QED
      BY <1>3, <1>6, <1>7, <3>1 DEF Held, RewriteFile
  <2>. QED
    BY <2>1, <2>2 DEF Loaded, Rewritten
<1>13. LogIs(files', rewrite', expired, written)
  <2>1. Unexpired(Log(Rewritten(files, <<>>)), expired) = Unexpired(written, expired)
    BY <1>2 DEF Good, LogInv, LogIs
  <2>. QED
    BY <1>8, <1>12, <2>1 DEF LogIs
<1>14. RewriteInv' /\ StopInv' /\ LogInv'
  BY <1>2, <1>8, <1>13 DEF RewriteInv, StopInv, LogInv
<1>. QED
  BY <1>9, <1>10, <1>11, <1>14 DEF AofInv, Good
-----------------------------------------------------------------------------
(* The invariant is kept: the end of the process, LoadAndInit and time.      *)

\* The process ends at any moment.
LEMMA StopStep ==
  ASSUME TypeOK, Good, ~damaged, Stop PROVE AofInv'
<1>1. /\ running' = FALSE /\ restarts' = restarts + 1 /\ restarts < MaxRestarts
      /\ aof_file' = NoFile /\ opening' = [who \in Rotators |-> 0]
      /\ waiting' = 0 /\ rewrite' = Idle /\ damaged' = (damaged \/ Exposed)
      /\ UNCHANGED <<files, aof_file_index, lease, expired, written>>
  BY DEF Stop, db
<1>2. rewrite'.at = "idle"
  BY <1>1 DEF Idle
<1>3. TypeOK'
  <2>1. <<>> \in Seq(Names) /\ <<>> \in Seq(Record)
    OBVIOUS
  <2>2. rewrite' \in [at : {"idle", "load", "clear", "cleared"}, names : Seq(Names)]
    BY <1>1, <2>1 DEF Idle
  <2>3. aof_file' \in [name : Names, off : Nat, buf : Seq(Record)]
    BY <1>1, <2>1 DEF NoFile, Names
  <2>4. restarts' \in 0..MaxRestarts
    BY <1>1, AofConstants DEF TypeOK
  <2>5. opening' \in [Rotators -> {0} \cup Appends] /\ waiting' \in Nat /\ damaged' \in BOOLEAN
    BY <1>1 DEF TypeOK
  <2>. QED
    BY <1>1, <2>2, <2>3, <2>4, <2>5 DEF TypeOK
<1>4. ASSUME ~damaged' PROVE Good'
  <2>1. ~Exposed
    BY <1>1, <1>4
  <2>2. rewrite.at # "cleared" /\ ~OutOfOrder(AllAofFiles(files)) /\ ~StopsShort(files, AllAofFiles(files))
    BY <2>1 DEF Exposed, BetweenRemoveAndRename
  <2>3. StopInv'
    BY <1>1, <2>2 DEF StopInv
  <2>4. FilesInv' /\ OpenInv' /\ RewriteInv'
    BY <1>1, <1>2 DEF Good, FilesInv, OpenInv, RewriteInv
  <2>5. LogIs(files, rewrite', expired, written)
    BY <1>2, <2>2 DEF Good, LogInv, LogIs
  <2>6. LogInv'
    BY <1>1, <2>5 DEF LogInv
  <2>. QED
    BY <2>3, <2>4, <2>6 DEF Good
<1>. QED
  BY <1>3, <1>4 DEF AofInv

\* The index a restart chooses is that of no file, and newer than every file.
LEMMA NextIsNewest ==
  ASSUME NEW fs, Directory(fs), ~OutOfOrder(AllAofFiles(fs))
  PROVE  /\ NextIndex(FindAofFiles(fs)) \in 1..(Top + 1)
         /\ \A n \in DOMAIN fs : n < NextIndex(FindAofFiles(fs))
<1>1. PICK s, S : s = FindAofFiles(fs) /\ S = DOMAIN fs \cap Appends
  OBVIOUS
<1>2. Enumerates(s, S) /\ Increasing(s)
  BY <1>1, AllFound
<1>3. /\ s \in Seq(S) /\ ToSet(s) = S /\ Len(s) \in Nat /\ DOMAIN s = 1..Len(s)
      /\ S = {s[k] : k \in 1..Len(s)}
  BY <1>2 DEF Enumerates, ToSet
<1>4. \A n \in DOMAIN fs : n \in S \/ n < 1
  BY <1>1 DEF Directory, Names, TmpFile, RewriteFile
<1>5. \A n \in S : n \in 1..Top /\ n \in Int
  BY <1>1 DEF Appends, Top
<1>6. CASE s = <<>>
  <2>1. S = {} /\ NextIndex(s) = 1
    BY <1>3, <1>6 DEF NextIndex
  <2>. QED
    BY <1>1, <1>4, <2>1, TopNat
<1>7. CASE s # <<>>
  <2>1. PICK L \in Nat : L = Len(s) /\ L \in 1..L
    <3>1. Len(s) # 0 /\ Len(s) \in Nat
      BY <1>3, <1>7, EmptySeq
    <3>. QED
      BY <3>1
  <2>2. PICK z \in S : z = s[L] /\ NextIndex(s) = z + 1
    BY <1>3, <1>7, <2>1 DEF NextIndex, Last
  <2>3. \A n \in S : n <= z
    <3>. SUFFICES ASSUME NEW n \in S PROVE n <= z
      OBVIOUS
    <3>1. PICK k \in 1..L : n = s[k]
      BY <1>3, <2>1
    <3>2. k < L => s[k] < s[L]
      BY <1>2, <2>1 DEF Increasing
    <3>. QED
      BY <1>5, <2>1, <2>2, <3>1, <3>2
  <2>4. z \in 1..Top /\ z + 1 \in 1..(Top + 1)
    BY <1>5, TopNat
  <2>5. \A n \in DOMAIN fs : n < z + 1
    <3>. SUFFICES ASSUME NEW n \in DOMAIN fs PROVE n < z + 1
      OBVIOUS
    <3>1. n \in Int
      BY <1>4, <1>5 DEF Directory, Names, TmpFile, RewriteFile, Appends
    <3>. QED
      BY <1>4, <2>3, <2>4, <3>1
  <2>. QED
    BY <1>1, <2>2, <2>4, <2>5
<1>. QED
  BY <1>6, <1>7

\* LoadAndInit opens a new file.
LEMMA RestartStep ==
  ASSUME TypeOK, Good, ~damaged, LoadAndInit PROVE AofInv'
<1>1. PICK index : index = NextIndex(FindAofFiles(files))
  OBVIOUS
<1>2. /\ ~running /\ index <= MaxIndex /\ running' = TRUE
      /\ files' = WriteHeader(Open(files, index), index)
      /\ aof_file' = [name |-> index, off |-> 0, buf |-> <<>>] /\ aof_file_index' = index
      /\ waiting' \in {0, 1} /\ LeaseType'
      /\ UNCHANGED <<opening, rewrite, expired, restarts, written, damaged>>
  <2>1. /\ ~running /\ index <= MaxIndex /\ running' = TRUE
        /\ files' = WriteHeader(Open(files, index), index)
        /\ aof_file' = [name |-> index, off |-> 0, buf |-> <<>>] /\ aof_file_index' = index
        /\ UNCHANGED <<opening, rewrite, expired, restarts, written, damaged>>
    BY <1>1 DEF LoadAndInit
  <2>2. waiting' \in {0, 1}
    BY DEF LoadAndInit
  <2>3. PICK held : lease' = [l \in Leases |-> IF l \in held THEN "held"
                                               ELSE IF lease[l] = "new" THEN "new" ELSE "gone"]
    BY DEF LoadAndInit
  <2>4. LeaseType'
    BY <2>3 DEF LeaseType
  <2>. QED
    BY <2>1, <2>2, <2>4
<1>3. /\ Directory(files) /\ Headed(files) /\ ~OutOfOrder(AllAofFiles(files))
      /\ rewrite.at = "idle" /\ \A who \in Rotators : opening[who] = 0
  BY <1>2 DEF Good, TypeOK, Directory, Headed, FilesInv, OpenInv, RewriteInv, StopInv
<1>4. index \in 1..MaxIndex /\ index \in Int /\ \A n \in DOMAIN files : n < index
  <2>1. index \in 1..(Top + 1) /\ \A n \in DOMAIN files : n < index
    BY <1>1, <1>3, NextIsNewest
  <2>. QED
    BY <1>2, <2>1, TopNat, AofConstants DEF Top
<1>5. index \in Names /\ index \in Appends /\ index \notin DOMAIN files /\ index # TmpFile
  BY <1>4, AofConstants DEF Names, Appends, TmpFile
<1>6. PICK gs : gs = Open(files, index)
  OBVIOUS
<1>7. Becomes(files, gs, index, <<>>, FALSE)
  BY <1>3, <1>5, <1>6, OpenBecomes
<1>8. Becomes(gs, files', index, <<>>, TRUE)
  <2>1. Directory(gs) /\ index \in DOMAIN gs /\ gs[index].recs = <<>>
    BY <1>7 DEF Becomes
  <2>2. Becomes(gs, WriteHeader(gs, index), index, gs[index].recs, TRUE)
    BY <2>1, HeaderBecomes
  <2>. QED
    BY <1>2, <1>6, <2>1, <2>2
<1>9. /\ Directory(files') /\ DOMAIN files' = DOMAIN files \cup {index}
      /\ files'[index].recs = <<>> /\ files'[index].header = TRUE
      /\ \A n \in DOMAIN files : files'[n] = files[n]
  BY <1>5, <1>7, <1>8 DEF Becomes
<1>10. TypeOK'
  <2>1. <<>> \in Seq(Record)
    OBVIOUS
  <2>2. aof_file' \in [name : Names, off : Nat, buf : Seq(Record)]
    BY <1>2, <1>5, <2>1
  <2>3. aof_file_index' \in Nat /\ waiting' \in Nat
    BY <1>2, <1>4
  <2>. QED
    BY <1>2, <1>9, <2>2, <2>3 DEF TypeOK, LeaseType, Directory
<1>11. FilesInv'
  <2>1. \A n \in DOMAIN files' : ~files'[n].header => files'[n].recs = <<>>
    BY <1>3, <1>9 DEF Headed
  <2>2. \A n \in DOMAIN files : n \in Int
    BY <1>3 DEF Directory, Names, TmpFile, RewriteFile, Appends
  <2>3. \A n \in DOMAIN files' : n <= index
    BY <1>4, <1>9, <2>2
  <2>. QED
    BY <1>2, <1>4, <2>1, <2>3 DEF FilesInv
<1>12. OpenInv'
  <2>1. aof_file'.name = index /\ aof_file'.off = 0 /\ aof_file' # NoFile
    BY <1>2, <1>5 DEF NoFile
  <2>2. Len(files'[index].recs) = 0
    BY <1>9
  <2>. QED
    BY <1>2, <1>3, <1>9, <2>1, <2>2 DEF OpenInv
<1>13. LogIs(files', rewrite, expired, written)
  <2>1. \A n : Held(files', n) = Held(files, n)
    BY <1>5, <1>9 DEF Held
  <2>2. LogIs(files, rewrite, expired, written)
    BY DEF Good, LogInv
  <2>. QED
    BY <2>1, <2>2, LogKept
<1>14. RewriteInv' /\ StopInv' /\ LogInv'
  BY <1>2, <1>3, <1>13 DEF RewriteInv, StopInv, LogInv
<1>. QED
  BY <1>10, <1>11, <1>12, <1>14 DEF AofInv, Good

\* The time of a lease is over.
LEMMA ExpireStep ==
  ASSUME TypeOK, Good, ~damaged, NEW l \in Leases, Expire(l) PROVE AofInv'
<1>1. /\ expired' = expired \cup {l}
      /\ UNCHANGED <<files, aof_file, aof_file_index, opening, waiting, rewrite, lease,
                     running, restarts, written, damaged>>
  BY DEF Expire, disk, rewriter, process
<1>2. TypeOK'
  BY <1>1 DEF TypeOK
<1>3. FilesInv' /\ OpenInv' /\ RewriteInv' /\ StopInv'
  BY <1>1 DEF Good, FilesInv, OpenInv, RewriteInv, StopInv
<1>4. LogIs(files, rewrite, expired', written)
  <2>1. Directory(files) /\ written \in Seq(Record) /\ LogIs(files, rewrite, expired, written)
    BY DEF TypeOK, Directory, Good, LogInv
  <2>2. PICK more : more = expired' /\ expired \subseteq more
    BY <1>1
  <2>3. LogIs(files, rewrite, more, written)
    BY <2>1, <2>2, LogShrinks
  <2>. QED
    BY <2>2, <2>3
<1>5. LogInv'
  BY <1>1, <1>4 DEF LogInv
<1>. QED
  BY <1>2, <1>3, <1>5 DEF AofInv, Good
-----------------------------------------------------------------------------
(* The theorems.                                                             *)

\* At first the log is empty.
LEMMA AofInit == Init => AofInv
<1>. SUFFICES ASSUME Init PROVE AofInv
  OBVIOUS
<1>1. <<>> \in Seq(Record) /\ <<>> \in Seq(Names)
  OBVIOUS
<1>2. FirstIndex \in 1..MaxIndex /\ FirstIndex \in Nat /\ FirstIndex \in Names /\ FirstIndex # TmpFile /\ FirstIndex # 0
  BY AofConstants DEF Names, Appends, TmpFile
<1>3. DOMAIN files = {FirstIndex} /\ files[FirstIndex] = [header |-> TRUE, recs |-> <<>>]
  BY DEF Init
<1>4. TypeOK
  <2>1. files \in [DOMAIN files -> File]
    BY <1>1 DEF Init, File
  <2>2. aof_file \in [name : Names, off : Nat, buf : Seq(Record)]
    BY <1>1, <1>2 DEF Init
  <2>3. rewrite \in [at : {"idle", "load", "clear", "cleared"}, names : Seq(Names)]
    BY <1>1 DEF Init, Idle
  <2>4. restarts \in 0..MaxRestarts /\ waiting \in Nat /\ aof_file_index \in Nat
    BY <1>2, AofConstants DEF Init
  <2>5. /\ lease \in [Leases -> {"new", "held", "gone"}] /\ expired \subseteq Leases
        /\ opening \in [Rotators -> {0} \cup Appends]
        /\ running \in BOOLEAN /\ damaged \in BOOLEAN /\ written \in Seq(Record)
    BY <1>1 DEF Init
  <2>. QED
    BY <1>2, <1>3, <2>1, <2>2, <2>3, <2>4, <2>5 DEF TypeOK
<1>5. FilesInv
  BY <1>2, <1>3 DEF Init, FilesInv
<1>6. OpenInv
  <2>1. aof_file # NoFile /\ aof_file.name = FirstIndex /\ aof_file.off = 0
    BY <1>2 DEF Init, NoFile
  <2>2. Len(files[FirstIndex].recs) = 0
    BY <1>3
  <2>. QED
    BY <1>3, <2>1, <2>2 DEF Init, OpenInv
<1>7. RewriteInv /\ StopInv
  BY DEF Init, Idle, RewriteInv, StopInv
<1>8. LogInv
  <2>1. Directory(files)
    BY <1>4 DEF TypeOK, Directory
  <2>2. PICK c \in Parts : c = Loaded(files)
    BY <2>1, LogPartsType
  <2>3. \A n \in 0..Top : c[n] = <<>>
    BY <1>3, <2>2 DEF Loaded, Held
  <2>4. Log(c) = <<>>
    <3>1. 0 \in 0..Top
      BY TopNat
    <3>2. Log(c) = c[0]
      BY <2>3, LogAlone
    <3>. QED
      BY <2>3, <3>1, <3>2
  <2>5. rewrite.at = "idle" /\ written = <<>>
    BY DEF Init, Idle
  <2>. QED
    BY <2>2, <2>4, <2>5 DEF LogInv, LogIs
<1>. QED
  BY <1>4, <1>5, <1>6, <1>7, <1>8 DEF AofInv, Good

\* Every step of the log keeps it.
LEMMA AofStep == AofInv /\ [Next]_vars => AofInv'
<1>. SUFFICES ASSUME AofInv, [Next]_vars PROVE AofInv'
  OBVIOUS
<1>1. CASE UNCHANGED vars
  <2>1. UNCHANGED <<files, aof_file, aof_file_index, opening, waiting, rewrite, lease, expired,
                    running, restarts, written, damaged>>
    BY <1>1 DEF vars, disk, rewriter, db, process
  <2>2. TypeOK' = TypeOK
    BY <2>1 DEF TypeOK
  <2>3. FilesInv' = FilesInv /\ OpenInv' = OpenInv /\ RewriteInv' = RewriteInv /\ StopInv' = StopInv /\ LogInv' = LogInv
    BY <2>1 DEF FilesInv, OpenInv, RewriteInv, StopInv, LogInv
  <2>. QED
    BY <2>1, <2>2, <2>3 DEF AofInv, Good
<1>2. CASE Next
  <2>1. TypeOK /\ Good /\ ~damaged /\ Step
    BY <1>2 DEF Next, AofInv
  <2>. QED
    BY <2>1, PushStep, ExpireStep, FlushStep, AdminStep, OpenStep, RewriteStep, LoadStep, ClearStep,
       RenameStep, StopStep, RestartStep DEF Step
<1>. QED
  BY <1>1, <1>2

\* Whatever the sizes of the files and of the buffer, and however often the
\* process ends: until one of the named hazards hits the log, a restart reads
\* back the records that LoadAndInit, RewriteAofFile and RewriteAofFiles were
\* given, none lost, doubled or out of order.
THEOREM RestartReadsTheLog == Spec => []LoadReturnsWritten
<1>1. Spec => []AofInv
  BY AofInit, AofStep, PTL DEF Spec
<1>. QED
  BY <1>1, ReadBack, PTL

\* RewriteAofFiles never removes the file that PushLock is appending to, nor the
\* one that RewriteAofFile has just made.
THEOREM RewriteSparesOpenFile == Spec => []OpenFileNotRewritten
<1>1. Spec => []AofInv
  BY AofInit, AofStep, PTL DEF Spec
<1>. QED
  BY <1>1, OpenNotRewritten, PTL

\* A write never falls on records that a file already holds: the offset of the
\* open file is its length, after rotations and after LoadAndInit.
THEOREM FreshFile == Spec => []AppendsToFreshFile
<1>1. Spec => []AofInv
  BY AofInit, AofStep, PTL DEF Spec
<1>. QED
  BY <1>1, FileFresh, PTL
=============================================================================
