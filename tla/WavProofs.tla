----------------------------- MODULE WavProofs ------------------------------
(***************************************************************************)
(* Theorems about Wav: a file is laid out as its headers say, and what is  *)
(* in it is found again, for pieces, labels, files and foreign chunks of   *)
(* every number and size, and wherever the file is cut.                    *)
(***************************************************************************)
EXTENDS Wav, WellFoundedInduction, TLAPS

-----------------------------------------------------------------------------
(* Sums.                                                                   *)

LEMMA LeastNat ==
  ASSUME NEW T, T \subseteq Nat, T # {}
  PROVE  \E x \in T : \A y \in T : x <= y
<1> DEFINE Less == {p \in Nat \X Nat : p[1] < p[2]}
<1>1. IsWellFoundedOn(Less, Nat)
  BY NatLessThanWellFounded, Zenon DEF OpToRel
<1>2. PICK x \in T : \A y \in T : ~ (<<y, x>> \in Less)
  BY <1>1, WFMin, Zenon
<1>3. ASSUME NEW y \in T
      PROVE  x <= y
  <2>1. ~(y < x)
    BY <1>2
  <2>2. QED
    BY <2>1
<1>4. QED
  BY <1>3

(* The sums of the first n sizes, in the form of a recursive definition.   *)
AreSums(f, sizes, n) ==
  /\ DOMAIN f = 0 .. n /\ f = [i \in 0 .. n |-> f[i]]
  /\ f[0] = 0
  /\ \A i \in 1 .. n : f[i] = f[i - 1] + sizes[i]

LEMMA SomeSums ==
  ASSUME NEW sizes, NEW m \in Nat
  PROVE  \E f : AreSums(f, sizes, m)
<1> DEFINE T == {n \in Nat : ~ \E f : AreSums(f, sizes, n)}
<1> SUFFICES ASSUME T # {}
             PROVE  FALSE
  OBVIOUS
<1>1. T \subseteq Nat
  OBVIOUS
<1> HIDE DEF T
<1>2. PICK n \in T : \A k \in T : n <= k
  BY <1>1, LeastNat
<1>3. n \in Nat /\ ~ \E f : AreSums(f, sizes, n)
  BY <1>2 DEF T
<1>4. n # 0
  <2>1. AreSums([i \in 0 .. 0 |-> 0], sizes, 0)
    BY DEF AreSums
  <2>2. QED
    BY <1>3, <2>1
<1>5. n - 1 \in Nat /\ n - 1 \notin T
  BY <1>2, <1>3, <1>4
<1>6. PICK f : AreSums(f, sizes, n - 1)
  BY <1>5 DEF T
<1> DEFINE g == [i \in 0 .. n |-> IF i = n THEN f[n - 1] + sizes[n] ELSE f[i]]
<1>7. AreSums(g, sizes, n)
  <2>1. g[n] = f[n - 1] + sizes[n] /\ \A i \in 0 .. n - 1 : g[i] = f[i]
    BY <1>3
  <2>2. DOMAIN g = 0 .. n /\ g = [i \in 0 .. n |-> g[i]]
    OBVIOUS
  <2> HIDE DEF g
  <2>3. g[0] = 0
    BY <1>5, <1>6, <2>1 DEF AreSums
  <2>4. ASSUME NEW i \in 1 .. n
        PROVE  g[i] = g[i - 1] + sizes[i]
    <3>1. CASE i = n
      <4>1. g[i - 1] = f[n - 1]
        BY <1>5, <2>1, <3>1
      <4>2. QED
        BY <2>1, <3>1, <4>1
    <3>2. CASE i # n
      <4>1. i \in 1 .. n - 1 /\ i \in 0 .. n - 1 /\ i - 1 \in 0 .. n - 1
        BY <1>3, <3>2
      <4>2. QED
        BY <1>6, <2>1, <4>1 DEF AreSums
    <3>3. QED
      BY <3>1, <3>2
  <2>5. QED
    BY <2>2, <2>3, <2>4 DEF AreSums
<1>8. QED
  BY <1>3, <1>7

LEMMA SumsAre ==
  ASSUME NEW sizes \in Seq(Nat)
  PROVE  AreSums(Sums(sizes), sizes, Len(sizes))
<1> DEFINE n == Len(sizes)
           body(f) == [i \in 0 .. n |-> IF i = 0 THEN 0 ELSE f[i - 1] + sizes[i]]
<1>0. n \in Nat
  OBVIOUS
<1>1. Sums(sizes) = CHOOSE f : f = body(f)
  BY DEF Sums
<1> HIDE DEF n
<1>2. PICK f : AreSums(f, sizes, n)
  BY <1>0, SomeSums
<1> DEFINE entry(g, i) == IF i = 0 THEN 0 ELSE g[i - 1] + sizes[i]
<1>3. f = body(f)
  <2>1. ASSUME NEW i \in 0 .. n
        PROVE  f[i] = entry(f, i)
    <3>1. CASE i = 0
      BY <1>2, <3>1 DEF AreSums
    <3>2. CASE i # 0
      <4>1. i \in 1 .. n
        BY <1>0, <3>2
      <4>2. QED
        BY <1>2, <3>2, <4>1 DEF AreSums
    <3>3. QED
      BY <3>1, <3>2
  <2>2. f = [i \in 0 .. n |-> f[i]]
    BY <1>2 DEF AreSums
  <2> HIDE DEF entry
  <2>3. f = [i \in 0 .. n |-> entry(f, i)]
    BY <2>1, <2>2
  <2>4. QED
    BY <2>3 DEF entry
<1> DEFINE s == Sums(sizes)
<1> HIDE DEF body
<1>4. s = body(s)
  BY <1>1, <1>3
<1> HIDE DEF s
<1>5. s = [i \in 0 .. n |-> IF i = 0 THEN 0 ELSE s[i - 1] + sizes[i]]
  BY <1>4 DEF body
<1>6. DOMAIN s = 0 .. n /\ \A i \in 0 .. n : s[i] = IF i = 0 THEN 0 ELSE s[i - 1] + sizes[i]
  BY <1>5
<1>7. s = [i \in 0 .. n |-> s[i]]
  BY <1>5
<1>8. AreSums(s, sizes, n)
  BY <1>0, <1>6, <1>7, SMTT(30) DEF AreSums
<1>9. QED
  BY <1>8 DEF s, n

(* A sum grows by the size that is added.                                  *)
LEMMA SumsStep ==
  ASSUME NEW sizes \in Seq(Nat)
  PROVE  /\ Len(sizes) \in Nat /\ DOMAIN sizes = 1 .. Len(sizes)
         /\ Sums(sizes)[0] = 0
         /\ \A i \in 0 .. Len(sizes) : Sums(sizes)[i] \in Nat
         /\ \A i \in 1 .. Len(sizes) :
              sizes[i] \in Nat /\ Sums(sizes)[i] = Sums(sizes)[i - 1] + sizes[i]
<1> DEFINE s == Sums(sizes)
           n == Len(sizes)
<1>1. n \in Nat /\ DOMAIN sizes = 1 .. n /\ \A i \in 1 .. n : sizes[i] \in Nat
  OBVIOUS
<1>2. s[0] = 0 /\ \A i \in 1 .. n : s[i] = s[i - 1] + sizes[i]
  BY SumsAre DEF AreSums
<1> HIDE DEF s, n
<1>3. \A i \in 0 .. n : s[i] \in Nat
  <2> DEFINE T == {i \in 0 .. n : s[i] \notin Nat}
  <2> SUFFICES ASSUME T # {}
               PROVE  FALSE
    OBVIOUS
  <2>1. T \subseteq Nat
    BY <1>1
  <2> HIDE DEF T
  <2>2. PICK i \in T : \A k \in T : i <= k
    BY <2>1, LeastNat
  <2>3. i \in 0 .. n /\ s[i] \notin Nat
    BY <2>2 DEF T
  <2>4. i # 0
    BY <1>2, <2>3
  <2>5. i - 1 \in 0 .. n /\ i \in 1 .. n
    BY <1>1, <2>3, <2>4
  <2>6. i - 1 \notin T
    BY <2>2, <2>5
  <2>7. s[i - 1] \in Nat
    BY <2>5, <2>6 DEF T
  <2>8. QED
    BY <1>1, <1>2, <2>3, <2>5, <2>7
<1>4. QED
  BY <1>1, <1>2, <1>3 DEF s, n

(* What is added later comes on top.                                       *)
LEMMA SumsGrow ==
  ASSUME NEW sizes \in Seq(Nat), NEW i \in 0 .. Len(sizes), NEW j \in i .. Len(sizes)
  PROVE  Sums(sizes)[i] <= Sums(sizes)[j]
<1> DEFINE s == Sums(sizes)
           n == Len(sizes)
           T == {k \in i .. n : s[k] < s[i]}
<1>1. n \in Nat /\ (\A k \in 0 .. n : s[k] \in Nat)
      /\ \A k \in 1 .. n : sizes[k] \in Nat /\ s[k] = s[k - 1] + sizes[k]
  BY SumsStep
<1> HIDE DEF s, n
<1> SUFFICES ASSUME T # {}
             PROVE  FALSE
  <2>1. i \in 0 .. n /\ j \in i .. n /\ j \in 0 .. n
    BY <1>1 DEF n
  <2>2. s[i] \in Nat /\ s[j] \in Nat
    BY <1>1, <2>1
  <2>3. j \in T \/ s[i] <= s[j]
    BY <2>1, <2>2
  <2>4. QED
    BY <2>3 DEF s
<1>2. i \in 0 .. n
  BY DEF n
<1>3. T \subseteq Nat
  BY <1>1, <1>2
<1> HIDE DEF T
<1>4. PICK k \in T : \A m \in T : k <= m
  BY <1>3, LeastNat
<1>5. k \in i .. n /\ s[k] < s[i]
  BY <1>4 DEF T
<1>6. k # i
  BY <1>1, <1>2, <1>5
<1>7. k - 1 \in i .. n /\ k \in 1 .. n /\ k - 1 \in 0 .. n
  BY <1>1, <1>2, <1>5, <1>6
<1>8. s[k - 1] >= s[i]
  <2>1. k - 1 \notin T
    BY <1>4, <1>7
  <2>2. QED
    BY <1>1, <1>2, <1>7, <2>1 DEF T
<1>9. s[k] = s[k - 1] + sizes[k] /\ sizes[k] \in Nat /\ s[k - 1] \in Nat /\ s[i] \in Nat
  BY <1>1, <1>2, <1>7
<1>10. QED
  BY <1>5, <1>8, <1>9

(* So many times a length.                                                 *)
Times(q, len) == q * len

Divides(len, a) == \E q \in Nat : a = Times(q, len)

LEMMA TimesNat ==
  ASSUME NEW q \in Nat, NEW len \in Nat
  PROVE  Times(q, len) \in Nat
BY DEF Times

LEMMA TimesAdds ==
  ASSUME NEW p \in Nat, NEW q \in Nat, NEW len \in Nat
  PROVE  Times(p + q, len) = Times(p, len) + Times(q, len) /\ Times(0, len) = 0 /\ Times(1, len) = len
BY DEF Times

LEMMA TimesOrder ==
  ASSUME NEW p \in Nat, NEW q \in Nat, NEW len \in Nat, p < q
  PROVE  Times(p, len) + len <= Times(q, len)
<1>1. PICK d \in Nat : q = p + 1 + d
  <2>1. q - p - 1 \in Nat /\ q = p + 1 + (q - p - 1)
    OBVIOUS
  <2>2. QED
    BY <2>1
<1>2. Times(q, len) = Times(p, len) + len + Times(d, len)
  BY <1>1, TimesAdds, SMTT(30)
<1>3. QED
  BY <1>2, TimesNat

LEMMA TimesQuotient ==
  ASSUME NEW len \in Nat \ {0}, NEW q \in Nat, NEW a \in Nat,
         Times(q, len) <= a, a < Times(q, len) + len
  PROVE  a \div len = q
<1>1. a \div len \in Nat /\ a = len * (a \div len) + (a % len) /\ a % len \in 0 .. len - 1
  OBVIOUS
<1> DEFINE d == a \div len
<1>2. d \in Nat /\ a % len \in 0 .. len - 1 /\ a = Times(d, len) + (a % len)
  BY <1>1 DEF Times
<1> HIDE DEF d
<1>3. Times(d, len) \in Nat /\ Times(q, len) \in Nat
  BY <1>2, TimesNat
<1>4. ~(d < q)
  <2> SUFFICES ASSUME d < q
               PROVE  FALSE
    OBVIOUS
  <2>1. Times(d, len) + len <= Times(q, len)
    BY <1>2, TimesOrder
  <2>2. QED
    BY <1>2, <1>3, <2>1
<1>5. ~(q < d)
  <2> SUFFICES ASSUME q < d
               PROVE  FALSE
    OBVIOUS
  <2>1. Times(q, len) + len <= Times(d, len)
    BY <1>2, TimesOrder
  <2>2. a >= Times(d, len)
    BY <1>2, <1>3
  <2>3. QED
    BY <1>3, <2>1, <2>2
<1>6. d = q
  BY <1>2, <1>4, <1>5
<1>7. QED
  BY <1>6 DEF d

LEMMA ModuloDivides ==
  ASSUME NEW len \in Nat \ {0}, NEW a \in Nat, a % len = 0
  PROVE  Divides(len, a)
<1>1. a \div len \in Nat /\ a = len * (a \div len) + (a % len)
  OBVIOUS
<1>2. a = Times(a \div len, len)
  BY <1>1 DEF Times
<1>3. QED
  BY <1>1, <1>2 DEF Divides

LEMMA DividesSum ==
  ASSUME NEW len \in Nat \ {0}, NEW a \in Nat, NEW b \in Nat, Divides(len, a), Divides(len, b)
  PROVE  Divides(len, a + b)
<1>1. PICK p \in Nat, q \in Nat : a = Times(p, len) /\ b = Times(q, len)
  BY DEF Divides
<1>2. a + b = Times(p + q, len) /\ p + q \in Nat
  BY <1>1, TimesAdds
<1>3. QED
  BY <1>2 DEF Divides

LEMMA DividesDifference ==
  ASSUME NEW len \in Nat \ {0}, NEW a \in Nat, NEW b \in Nat, b <= a,
         Divides(len, a), Divides(len, b)
  PROVE  Divides(len, a - b)
<1>1. PICK p \in Nat, q \in Nat : a = Times(p, len) /\ b = Times(q, len)
  BY DEF Divides
<1>2. ~(p < q)
  <2> SUFFICES ASSUME p < q
               PROVE  FALSE
    OBVIOUS
  <2>1. Times(p, len) + len <= Times(q, len)
    BY TimesOrder
  <2>2. QED
    BY <1>1, <2>1
<1>3. PICK d \in Nat : p = q + d
  <2>1. p - q \in Nat /\ p = q + (p - q)
    BY <1>2
  <2>2. QED
    BY <2>1
<1>4. a = b + Times(d, len) /\ Times(d, len) \in Nat
  <2>1. Times(q + d, len) = Times(q, len) + Times(d, len)
    BY TimesAdds
  <2>2. QED
    BY <1>1, <1>3, <2>1, TimesNat
<1>5. a - b = Times(d, len)
  BY <1>4
<1>6. QED
  BY <1>5 DEF Divides

(* The next multiple is a whole length on.                                 *)
LEMMA DividesRoom ==
  ASSUME NEW len \in Nat \ {0}, NEW a \in Nat, NEW b \in Nat, a < b,
         Divides(len, a), Divides(len, b)
  PROVE  a + len <= b
<1>1. PICK p \in Nat, q \in Nat : a = Times(p, len) /\ b = Times(q, len)
  BY DEF Divides
<1>2. p < q
  <2> SUFFICES ASSUME ~(p < q)
               PROVE  FALSE
    OBVIOUS
  <2>1. p = q \/ q < p
    OBVIOUS
  <2>2. CASE p = q
    BY <1>1, <2>2
  <2>3. CASE q < p
    <3>1. Times(q, len) + len <= Times(p, len)
      BY <2>3, TimesOrder
    <3>2. QED
      BY <1>1, <3>1
  <2>4. QED
    BY <2>1, <2>2, <2>3
<1>3. QED
  BY <1>1, <1>2, TimesOrder

LEMMA SumsDivide ==
  ASSUME NEW sizes \in Seq(Nat), NEW len \in Nat \ {0},
         \A i \in DOMAIN sizes : Divides(len, sizes[i])
  PROVE  \A i \in 0 .. Len(sizes) : Divides(len, Sums(sizes)[i])
<1> DEFINE s == Sums(sizes)
           n == Len(sizes)
           T == {k \in 0 .. n : ~Divides(len, s[k])}
<1>1. n \in Nat /\ s[0] = 0 /\ (\A k \in 0 .. n : s[k] \in Nat)
      /\ \A k \in 1 .. n : sizes[k] \in Nat /\ s[k] = s[k - 1] + sizes[k] /\ Divides(len, sizes[k])
  BY SumsStep
<1> HIDE DEF s, n
<1> SUFFICES ASSUME T # {}
             PROVE  FALSE
  BY DEF s, n
<1>2. T \subseteq Nat
  BY <1>1
<1> HIDE DEF T
<1>3. PICK k \in T : \A m \in T : k <= m
  BY <1>2, LeastNat
<1>4. k \in 0 .. n /\ ~Divides(len, s[k])
  BY <1>3 DEF T
<1>5. k # 0
  <2>1. Divides(len, 0)
    BY TimesAdds DEF Divides
  <2>2. QED
    BY <1>1, <1>4, <2>1
<1>6. k - 1 \in 0 .. n /\ k \in 1 .. n
  BY <1>1, <1>4, <1>5
<1>7. Divides(len, s[k - 1])
  <2>1. k - 1 \notin T
    BY <1>3, <1>6
  <2>2. QED
    BY <1>6, <2>1 DEF T
<1>8. s[k] = s[k - 1] + sizes[k] /\ s[k - 1] \in Nat /\ sizes[k] \in Nat /\ Divides(len, sizes[k])
  BY <1>1, <1>6
<1>9. Divides(len, s[k])
  BY <1>7, <1>8, DividesSum
<1>10. QED
  BY <1>4, <1>9

-----------------------------------------------------------------------------
(* Sizes of the samples.                                                   *)

LEMMA FormatIs ==
  ASSUME NEW f \in Formats
  PROVE  /\ f.channels \in Nat \ {0} /\ f.bits \in Nat \ {0} /\ f.factor \in Nat \ {0}
         /\ f.rows \in BOOLEAN
         /\ SampleLength(f) \in Nat \ {0} /\ SampleLength(f) % 2 = 0
BY FormatsAssumption DEF SampleLength

LEMMA RowLengthIs ==
  ASSUME NEW f \in Formats
  PROVE  RowLength(f) \in Nat \ {0} /\ RowLength(f) % 2 = 0
<1> DEFINE bytes == (f.bits + 7) \div 8
           row == bytes * 8 * f.channels
<1>1. bytes \in Nat \ {0}
  BY FormatIs
<1> HIDE DEF bytes
<1>2. row \in Nat \ {0}
  BY <1>1, FormatIs
<1> HIDE DEF row
<1>3. (row + 31) \div 32 \in Nat \ {0}
  BY <1>2
<1>4. RowLength(f) = ((row + 31) \div 32) * 4
  BY DEF RowLength, row, bytes
<1>5. QED
  BY <1>3, <1>4

(* What is left of a size that is cut to rows.                             *)
LEMMA CutToRows ==
  ASSUME NEW kept \in Nat, NEW r \in Nat \ {0}, r % 2 = 0
  PROVE  /\ (kept \div r) * r \in Nat
         /\ (kept \div r) * r <= kept
         /\ ((kept \div r) * r) % 2 = 0
<1>1. kept \div r \in Nat /\ kept = r * (kept \div r) + (kept % r) /\ kept % r \in 0 .. r - 1
  OBVIOUS
<1>2. PICK h \in Nat : r = 2 * h
  <2>1. r \div 2 \in Nat /\ r = 2 * (r \div 2)
    OBVIOUS
  <2>2. QED
    BY <2>1
<1> DEFINE d == kept \div r
<1> HIDE DEF d
<1>3. d \in Nat /\ d * r \in Nat /\ d * h \in Nat /\ d * r = 2 * (d * h)
  BY <1>1, <1>2 DEF d
<1>4. d * r <= kept
  <2>1. kept = r * d + (kept % r) /\ kept % r \in Nat
    BY <1>1 DEF d
  <2>2. r * d = d * r
    BY <1>3
  <2>3. QED
    BY <1>3, <2>1, <2>2
<1>5. (d * r) % 2 = 0
  <2>1. \A m \in Nat : (2 * m) % 2 = 0
    OBVIOUS
  <2> DEFINE m == d * h
  <2>2. m \in Nat /\ d * r = 2 * m
    BY <1>3
  <2> HIDE DEF m
  <2>3. QED
    BY <2>1, <2>2
<1>6. QED
  BY <1>3, <1>4, <1>5 DEF d

LEMMA ReducedSizeIs ==
  ASSUME NEW f \in Formats, NEW total \in Nat
  PROVE  ReducedSize(f, total) \in Nat /\ ReducedSize(f, total) % 2 = 0
<1>1. CASE total = 0
  BY <1>1 DEF ReducedSize
<1>2. CASE total # 0
  <2> DEFINE t == (total - 1) \div f.factor + 1
  <2>1. t \in Nat
    <3>1. total - 1 \in Nat /\ f.factor \in Nat \ {0}
      BY <1>2, FormatIs
    <3>2. QED
      BY <3>1
  <2> HIDE DEF t
  <2>2. PICK h \in Nat : SampleLength(f) = 2 * h
    BY FormatIs DEF SampleLength
  <2>3. t * SampleLength(f) = 2 * (t * h) /\ t * h \in Nat
    BY <2>1, <2>2
  <2>4. ReducedSize(f, total) = t * SampleLength(f)
    BY <1>2 DEF ReducedSize, t
  <2>5. QED
    BY <2>3, <2>4
<1>3. QED
  BY <1>1, <1>2

(* How many samples a piece holds.                                         *)
Samples(f, sizes) == SumOf(sizes) \div SampleLength(f)

LEMMA DataSizeIs ==
  ASSUME NEW f \in Formats, NEW sizes \in Seq(Nat)
  PROVE  /\ SumOf(sizes) \in Nat /\ Samples(f, sizes) \in Nat
         /\ DataSize(f, sizes) \in Nat
         /\ f.factor = 1 => /\ DataSize(f, sizes) <= SumOf(sizes)
                            /\ ~f.rows => DataSize(f, sizes) = SumOf(sizes)
         /\ f.factor > 1 => /\ DataSize(f, sizes) <= ReducedSize(f, Samples(f, sizes))
                            /\ DataSize(f, sizes) % 2 = 0
         /\ SumOf(sizes) = 0 => DataSize(f, sizes) = 0
<1> DEFINE raw == SumOf(sizes)
           kept == IF f.factor > 1 THEN ReducedSize(f, Samples(f, sizes)) ELSE raw
           row == RowLength(f)
<1>1. raw \in Nat
  BY SumsStep DEF SumOf
<1>2. Samples(f, sizes) \in Nat /\ (raw = 0 => Samples(f, sizes) = 0)
  <2>1. SampleLength(f) \in Nat \ {0}
    BY FormatIs
  <2>2. QED
    BY <1>1, <2>1 DEF Samples
<1>3. f.factor \in Nat \ {0} /\ f.rows \in BOOLEAN
  BY FormatIs
<1>4. /\ kept \in Nat /\ (raw = 0 => kept = 0)
      /\ f.factor > 1 => kept = ReducedSize(f, Samples(f, sizes)) /\ kept % 2 = 0
      /\ f.factor = 1 => kept = raw
  <2>1. CASE f.factor > 1
    <3>1. raw = 0 => kept = 0
      BY <1>2, <2>1 DEF ReducedSize
    <3>2. kept = ReducedSize(f, Samples(f, sizes))
      BY <2>1
    <3>3. kept \in Nat /\ kept % 2 = 0
      BY <1>2, <3>2, ReducedSizeIs
    <3> HIDE DEF kept, raw
    <3>4. QED
      BY <1>3, <2>1, <3>1, <3>2, <3>3
  <2>2. CASE f.factor = 1
    BY <1>1, <2>2
  <2>3. QED
    BY <1>3, <2>1, <2>2
<1>5. DataSize(f, sizes) = IF f.rows THEN (kept \div row) * row ELSE kept
  BY DEF DataSize, Samples
<1> DEFINE cut == (kept \div row) * row
<1>6. row \in Nat \ {0} /\ row % 2 = 0
  BY RowLengthIs
<1> HIDE DEF kept, row, raw
<1>7. cut \in Nat /\ cut <= kept /\ cut % 2 = 0
  BY <1>4, <1>6, CutToRows
<1> HIDE DEF cut
<1>8. DataSize(f, sizes) = cut \/ (~f.rows /\ DataSize(f, sizes) = kept)
  BY <1>3, <1>5 DEF cut
<1>9. f.rows \/ DataSize(f, sizes) = kept
  BY <1>3, <1>5
<1>10. QED
  BY <1>1, <1>2, <1>4, <1>7, <1>8, <1>9 DEF raw

-----------------------------------------------------------------------------
(* What the write loop takes.                                              *)

(* The names that labels and files are given.                              *)
Keys == {Fourcc[name] : name \in Names}

WriterTypes ==
  /\ stage \in {"build", "sampling", "written", "crashed"}
  /\ format \in Formats
  /\ points \in Nat
  /\ assoc \in Seq([id : {"labl", "file"}, data : Nat \ {0}, name : Keys])
  /\ pieces \in Seq(Nat)
  /\ it # Invalid => stage # "build" /\ it \in [junk : DOMAIN pieces, offset : Nat]
  /\ sampled \in Seq(Nat)

(* Each buffer divides exactly with the length of a sample.                *)
PiecesDivide ==
  format.factor > 1 => \A i \in DOMAIN pieces : Divides(SampleLength(format), pieces[i])

(* Something is taken at all.                                              *)
Reduces == format.factor > 1 /\ DataSize(format, pieces) > 0 /\ pieces[1] > 0

Multiples == \A i \in DOMAIN sampled : sampled[i] = (i - 1) * format.factor

(* So many bytes are in the pieces before the next sample that is taken.   *)
Taken(n) == Times(n * format.factor, SampleLength(format))

(* The iterator is at the next sample, which is whole in its piece.        *)
OnNext ==
  /\ Divides(SampleLength(format), it.offset)
  /\ it.offset + SampleLength(format) <= pieces[it.junk]
  /\ Before(pieces, it.junk) + it.offset = Taken(Len(sampled))

(* The last sample was one of the pieces, and the next one is not.         *)
PastLast ==
  /\ Len(sampled) # 0
  /\ Taken(Len(sampled) - 1) < SumOf(pieces)
  /\ SumOf(pieces) <= Taken(Len(sampled))

SamplingFollows ==
  /\ stage = "build" => sampled = <<>>
  /\ stage = "sampling" => format.factor > 1 /\ DataSize(format, pieces) > 0
  /\ (stage = "sampling" /\ Reduces) => Multiples /\ IF it = Invalid THEN PastLast ELSE OnNext
  /\ (stage = "written" /\ Reduces) => Multiples /\ PastLast

WriterInvariant == WriterTypes /\ PiecesDivide /\ SamplingFollows

(* What a step of the whole does to the writer.                            *)
LEMMA WriterStep ==
  ASSUME [Next]_vars
  PROVE  UNCHANGED wavVars \/ (source = "WavFileSimplePcm" /\ WavNext)
BY DEF Next, Simple, writeFormatFile, OtherWrites, CutShort, Disk, readHeader, vars

LEMMA EmptyPcm ==
  ASSUME NEW f \in Formats, NEW sizes \in Seq(Nat)
  PROVE  getSize([id |-> "data", data |-> DataSize(f, sizes), name |-> 0])
           = IF DataSize(f, sizes) = 0 THEN 0 ELSE ChunkHeader + DataSize(f, sizes)
<1> DEFINE d == DataSize(f, sizes)
<1>1. d \in Nat
  BY DataSizeIs
<1> HIDE DEF d
<1>2. getSize([id |-> "data", data |-> d, name |-> 0]) = IF d = 0 THEN 0 ELSE ChunkHeader + d
  BY <1>1 DEF getSize, HeaderSize, MinSize, ChunkHeader
<1>3. QED
  BY <1>2 DEF d

LEMMA MinIs ==
  ASSUME NEW S, S \subseteq Nat, S # {}
  PROVE  Min(S) \in S /\ \A x \in S : Min(S) <= x
<1>1. \E x \in S : \A y \in S : x <= y
  BY LeastNat
<1>2. QED
  BY <1>1 DEF Min

LEMMA StartIs ==
  ASSUME NEW sizes \in Seq(Nat), NEW len \in Nat
  PROVE  /\ SetPos(sizes, 0, len) # Invalid => SetPos(sizes, 0, len) \in [junk : DOMAIN sizes, offset : Nat]
         /\ (sizes # <<>> /\ len <= sizes[1]) => SetPos(sizes, 0, len) = [junk |-> 1, offset |-> 0]
<1> DEFINE start == 0 * len
           reach == {i \in DOMAIN sizes : Before(sizes, i) + sizes[i] >= start}
           i == Min(reach)
           offset == start - Before(sizes, i)
<1>1. start = 0
  OBVIOUS
<1>2. SetPos(sizes, 0, len) = IF reach = {} THEN Invalid
        ELSE IF offset + len <= sizes[i] THEN [junk |-> i, offset |-> offset] ELSE Invalid
  BY DEF SetPos
<1>3. CASE sizes = <<>>
  <2>1. reach = {}
    BY <1>3
  <2>2. QED
    BY <1>2, <1>3, <2>1
<1>4. CASE sizes # <<>>
  <2>1. Len(sizes) \in Nat /\ DOMAIN sizes = 1 .. Len(sizes) /\ 1 \in DOMAIN sizes
    BY <1>4
  <2>2. Before(sizes, 1) = 0 /\ sizes[1] \in Nat
    BY <2>1, SumsStep DEF Before
  <2>3. 1 \in reach
    BY <1>1, <2>1, <2>2
  <2>4. reach \subseteq Nat
    BY <2>1
  <2>5. i \in DOMAIN sizes /\ i <= 1
    BY <2>3, <2>4, MinIs
  <2>6. i = 1
    BY <2>1, <2>5
  <2>7. offset = 0
    BY <1>1, <2>2, <2>6
  <2> HIDE DEF reach, offset, i, start
  <2>8. SetPos(sizes, 0, len) = IF len <= sizes[1] THEN [junk |-> 1, offset |-> 0] ELSE Invalid
    BY <1>2, <2>3, <2>6, <2>7
  <2>9. QED
    BY <2>1, <2>8
<1>5. QED
  BY <1>3, <1>4

(* A position is where so many bytes of whole samples have gone before.    *)
FoundAt(sizes, p, len, target) ==
  IF SumOf(sizes) <= target THEN p = Invalid
  ELSE /\ p # Invalid
       /\ Divides(len, p.offset) /\ p.offset + len <= sizes[p.junk]
       /\ Before(sizes, p.junk) + p.offset = target

(* The iterator goes on to the piece in which the target lies.             *)
LEMMA NextPosIs ==
  ASSUME NEW sizes \in Seq(Nat), NEW p \in [junk : DOMAIN sizes, offset : Nat],
         NEW step \in Nat, NEW len \in Nat \ {0}
  PROVE  /\ NextPos(sizes, p, step, len) # Invalid
              => NextPos(sizes, p, step, len) \in [junk : DOMAIN sizes, offset : Nat]
         /\ (\A i \in DOMAIN sizes : Divides(len, sizes[i]))
              /\ Divides(len, Before(sizes, p.junk) + p.offset + len * step)
            => FoundAt(sizes, NextPos(sizes, p, step, len), len,
                       Before(sizes, p.junk) + p.offset + len * step)
<1> DEFINE next1 == NextPos(sizes, p, step, len)
           target == Before(sizes, p.junk) + p.offset + len * step
           n == Len(sizes)
           reach == {i \in p.junk .. n : target < Before(sizes, i) + sizes[i]}
           i == Min(reach)
           offset == target - Before(sizes, i)
<1>1. next1 = IF reach = {} THEN Invalid
              ELSE IF offset + len <= sizes[i] THEN [junk |-> i, offset |-> offset]
              ELSE IF i < n THEN [junk |-> i + 1, offset |-> 0]
              ELSE Invalid
  BY DEF NextPos
<1>2. n \in Nat /\ DOMAIN sizes = 1 .. n /\ p.junk \in 1 .. n /\ p.offset \in Nat
  BY SumsStep
<1>3. /\ \A k \in 1 .. n : /\ Before(sizes, k) \in Nat /\ sizes[k] \in Nat
                           /\ Sums(sizes)[k] = Before(sizes, k) + sizes[k]
      /\ \A k \in 0 .. n : Sums(sizes)[k] \in Nat
  BY <1>2, SumsStep, SMTT(30) DEF Before
<1>4. target \in Nat /\ target >= Before(sizes, p.junk)
  <2>1. len * step \in Nat
    OBVIOUS
  <2>2. Before(sizes, p.junk) \in Nat /\ p.offset \in Nat
    BY <1>2, <1>3
  <2> HIDE DEF next1, n, reach, i, offset
  <2>3. QED
    BY <2>1, <2>2, SMTT(30)
<1>5. reach \subseteq Nat /\ reach \subseteq 1 .. n
  BY <1>2
<1> HIDE DEF target, next1, n
<1>6. ASSUME reach # {}
      PROVE  i \in 1 .. n /\ i \in reach /\ target < Before(sizes, i) + sizes[i] /\ offset \in Nat
  <2>1. i \in reach /\ \A k \in reach : i <= k
    BY <1>5, <1>6, MinIs
  <2>2. i \in 1 .. n /\ i \in p.junk .. n /\ target < Before(sizes, i) + sizes[i]
    BY <1>5, <2>1
  <2>3. target >= Before(sizes, i)
    <3>1. CASE i = p.junk
      BY <1>4, <3>1
    <3>2. CASE i # p.junk
      <4>1. i - 1 \in p.junk .. n /\ i - 1 \in 1 .. n
        BY <1>2, <2>2, <3>2
      <4>2. i - 1 \notin reach
        BY <1>2, <2>1, <4>1
      <4>3. ~(target < Before(sizes, i - 1) + sizes[i - 1])
        BY <4>1, <4>2
      <4>4. Before(sizes, i) = Before(sizes, i - 1) + sizes[i - 1]
        BY <1>3, <4>1 DEF Before
      <4>5. QED
        BY <1>3, <1>4, <2>2, <4>1, <4>3, <4>4
    <3>3. QED
      BY <3>1, <3>2
  <2>4. offset \in Nat
    BY <1>3, <1>4, <2>2, <2>3
  <2>5. QED
    BY <2>1, <2>2, <2>4
<1> HIDE DEF reach, i, offset
<1>7. next1 # Invalid => next1 \in [junk : DOMAIN sizes, offset : Nat]
  <2>1. CASE reach = {}
    BY <1>1, <2>1
  <2>2. CASE reach # {}
    <3>1. i \in 1 .. n /\ offset \in Nat /\ i + 1 \in Nat /\ (i < n => i + 1 \in 1 .. n)
      BY <1>2, <1>6, <2>2
    <3>2. \/ next1 = Invalid
          \/ next1 = [junk |-> i, offset |-> offset]
          \/ i < n /\ next1 = [junk |-> i + 1, offset |-> 0]
      BY <1>1, <2>2
    <3>3. QED
      BY <1>2, <3>1, <3>2
  <2>3. QED
    BY <2>1, <2>2
<1>8. ASSUME \A k \in DOMAIN sizes : Divides(len, sizes[k]), Divides(len, target)
      PROVE  FoundAt(sizes, next1, len, target)
  <2>1. \A k \in 0 .. n : Divides(len, Sums(sizes)[k])
    BY <1>8, SumsDivide DEF n
  <2>2. CASE reach = {}
    <3>1. n \notin reach /\ n \in p.junk .. n /\ n \in 1 .. n
      BY <1>2, <2>2
    <3>2. ~(target < Before(sizes, n) + sizes[n])
      BY <3>1 DEF reach
    <3>3. SumOf(sizes) = Sums(sizes)[n] /\ SumOf(sizes) = Before(sizes, n) + sizes[n]
      BY <1>3, <3>1 DEF SumOf, n
    <3>4. SumOf(sizes) <= target
      BY <1>3, <1>4, <3>1, <3>2, <3>3, SMTT(30)
    <3>5. QED
      BY <1>1, <2>2, <3>4 DEF FoundAt
  <2>3. CASE reach # {}
    <3>1. i \in 1 .. n /\ target < Before(sizes, i) + sizes[i] /\ offset \in Nat
      BY <1>6, <2>3
    <3>2. i \in 0 .. n /\ i - 1 \in 0 .. n /\ i \in DOMAIN sizes /\ i \in i .. n
      BY <1>2, <3>1
    <3>3. offset = target - Before(sizes, i) /\ Before(sizes, i) <= target /\ Before(sizes, i) + offset = target
      BY <1>3, <1>4, <3>1, SMTT(30) DEF offset
    <3>4. Divides(len, offset)
      <4>1. Divides(len, Before(sizes, i))
        BY <2>1, <3>2 DEF Before
      <4>2. QED
        BY <1>3, <1>4, <1>8, <3>1, <3>3, <4>1, DividesDifference
    <3>5. offset + len <= sizes[i]
      <4>1. offset < sizes[i] /\ sizes[i] \in Nat /\ Divides(len, sizes[i])
        BY <1>3, <1>4, <1>8, <3>1, <3>2, <3>3
      <4>2. QED
        BY <3>1, <3>4, <4>1, DividesRoom
    <3>6. next1 = [junk |-> i, offset |-> offset]
      BY <1>1, <2>3, <3>5
    <3>7. next1 # Invalid
      BY <3>1, <3>6, InvalidAssumption, <1>2
    <3>8. ~(SumOf(sizes) <= target)
      <4>1. Sums(sizes)[i] <= Sums(sizes)[n]
        BY <1>2, <3>1, <3>2, SumsGrow DEF n
      <4>2. Sums(sizes)[i] > target /\ Sums(sizes)[i] \in Nat /\ Sums(sizes)[n] \in Nat
        <5>1. n \in 0 .. n
          BY <1>2
        <5>2. Sums(sizes)[i] = Before(sizes, i) + sizes[i]
          BY <1>3, <3>1
        <5>3. Sums(sizes)[i] \in Nat /\ Sums(sizes)[n] \in Nat
          BY <1>3, <3>2, <5>1
        <5>4. QED
          BY <1>4, <3>1, <5>2, <5>3
      <4>3. QED
        BY <1>4, <4>1, <4>2 DEF SumOf, n
    <3>9. QED
      BY <3>3, <3>4, <3>5, <3>6, <3>7, <3>8 DEF FoundAt
  <2>4. QED
    BY <2>2, <2>3
<1>9. QED
  BY <1>7, <1>8 DEF next1, target

LEMMA WriterTypesStep ==
  ASSUME WriterTypes, WavNext
  PROVE  WriterTypes' /\ format' = format
<1>1. CASE \E name \in Names : addCuePoint(name)
  <2>1. PICK name \in Names : addCuePoint(name)
    BY <1>1
  <2>2. CASE UNCHANGED assoc
    BY <2>1, <2>2 DEF addCuePoint, WriterTypes
  <2>3. CASE ~UNCHANGED assoc
    <3>1. PICK size \in LabelSizes : AddAssoc([id |-> "labl", data |-> size, name |-> Fourcc[name]])
      BY <2>1, <2>3 DEF addCuePoint
    <3>2. size \in Nat \ {0} /\ Fourcc[name] \in Keys
      BY SizesAssumption DEF Keys
    <3>3. assoc' \in Seq([id : {"labl", "file"}, data : Nat \ {0}, name : Keys])
      BY <3>1, <3>2 DEF AddAssoc, WriterTypes
    <3>4. QED
      BY <2>1, <3>3 DEF addCuePoint, WriterTypes
  <2>4. QED
    BY <2>2, <2>3
<1>2. CASE \E name \in Names : addAssocFile(name)
  <2>1. PICK name \in Names : addAssocFile(name)
    BY <1>2
  <2>2. PICK size \in AssocSizes : AddAssoc([id |-> "file", data |-> size, name |-> Fourcc[name]])
    BY <2>1 DEF addAssocFile
  <2>3. size \in Nat \ {0} /\ Fourcc[name] \in Keys
    BY SizesAssumption DEF Keys
  <2>4. assoc' \in Seq([id : {"labl", "file"}, data : Nat \ {0}, name : Keys])
    BY <2>2, <2>3 DEF AddAssoc, WriterTypes
  <2>5. QED
    BY <2>1, <2>4 DEF addAssocFile, WriterTypes
<1>3. CASE \E size \in PieceSizes : addData(size)
  <2>1. PICK size \in PieceSizes : addData(size)
    BY <1>3
  <2>2. size \in Nat
    BY SizesAssumption
  <2>3. QED
    BY <2>1, <2>2 DEF addData, WriterTypes
<1>4. CASE writeFile \/ fillBuffer \/ endSampling
  BY <1>4 DEF writeFile, fillBuffer, endSampling, WriteFile, WriterTypes
<1>5. CASE startSampling
  <2>1. SampleLength(format) \in Nat
    BY FormatIs DEF WriterTypes
  <2>2. it' # Invalid => it' \in [junk : DOMAIN pieces, offset : Nat]
    BY <1>5, <2>1, StartIs DEF startSampling, WriterTypes
  <2>3. QED
    BY <1>5, <2>2 DEF startSampling, WriterTypes
<1>6. CASE writeSample
  <2>1. it \in [junk : DOMAIN pieces, offset : Nat] /\ pieces \in Seq(Nat)
    BY <1>6 DEF writeSample, WriterTypes
  <2>2. SampleLength(format) \in Nat \ {0} /\ format.factor \in Nat
    BY FormatIs DEF WriterTypes
  <2>3. it' # Invalid => it' \in [junk : DOMAIN pieces, offset : Nat]
    <3>1. CASE it' = NextPos(pieces, it, format.factor, SampleLength(format))
      BY <2>1, <2>2, <3>1, NextPosIs
    <3>2. CASE UNCHANGED it
      BY <2>1, <3>2
    <3>3. QED
      BY <1>6, <3>1, <3>2 DEF writeSample
  <2>4. SampleAt(pieces, it, SampleLength(format)) \in Nat
    <3>1. Before(pieces, it.junk) \in Nat
      BY <2>1, SumsStep DEF Before
    <3>2. \A a \in Nat, len \in Nat \ {0} : a \div len \in Nat
      OBVIOUS
    <3>3. Before(pieces, it.junk) + it.offset \in Nat
      BY <2>1, <3>1
    <3>4. QED
      BY <2>2, <3>2, <3>3 DEF SampleAt
  <2>5. sampled' \in Seq(Nat)
    <3>1. sampled \in Seq(Nat)
      BY DEF WriterTypes
    <3>2. sampled' = Append(sampled, SampleAt(pieces, it, SampleLength(format))) \/ sampled' = sampled
      BY <1>6 DEF writeSample
    <3>3. QED
      BY <2>4, <3>1, <3>2
  <2>6. /\ stage' \in {"sampling", "crashed"}
        /\ UNCHANGED <<format, points, assoc, pieces>>
    BY <1>6 DEF writeSample
  <2>7. QED
    BY <2>3, <2>5, <2>6 DEF WriterTypes
<1>7. QED
  BY <1>1, <1>2, <1>3, <1>4, <1>5, <1>6 DEF WavNext

LEMMA TakenIs ==
  ASSUME NEW n \in Nat, format \in Formats
  PROVE  /\ Taken(n) \in Nat /\ Taken(0) = 0
         /\ Taken(n + 1) = Taken(n) + SampleLength(format) * format.factor
         /\ Divides(SampleLength(format), Taken(n))
         /\ Taken(n) \div SampleLength(format) = n * format.factor
<1> DEFINE len == SampleLength(format)
           factor == format.factor
<1>1. len \in Nat \ {0} /\ factor \in Nat \ {0}
  BY FormatIs
<1> HIDE DEF len, factor
<1>2. n * factor \in Nat /\ 0 * factor = 0 /\ (n + 1) * factor = n * factor + factor
  BY <1>1
<1> DEFINE m == n * factor
<1>3. m \in Nat /\ (n + 1) * factor = m + factor
  BY <1>2
<1>4. Taken(n) = Times(m, len) /\ Taken(n + 1) = Times(m + factor, len) /\ Taken(0) = Times(0, len)
  BY <1>2, <1>3 DEF Taken, len, factor
<1> HIDE DEF m
<1>5. Times(m, len) \in Nat /\ Times(0, len) = 0
  BY <1>1, <1>3, TimesNat, TimesAdds
<1>6. Times(m + factor, len) = Times(m, len) + len * factor
  <2>1. Times(m + factor, len) = Times(m, len) + Times(factor, len)
    BY <1>1, <1>3, TimesAdds
  <2>2. Times(factor, len) = len * factor
    BY <1>1 DEF Times
  <2>3. QED
    BY <2>1, <2>2
<1>7. Times(m, len) \div len = m
  <2>1. Times(m, len) < Times(m, len) + len
    BY <1>1, <1>5
  <2>2. QED
    BY <1>1, <1>3, <1>5, <2>1, TimesQuotient
<1>8. QED
  BY <1>3, <1>4, <1>5, <1>6, <1>7 DEF Divides, m, len, factor

LEMMA PiecesDivideStep ==
  ASSUME WriterInvariant, WavNext
  PROVE  PiecesDivide'
<1>1. CASE \E size \in PieceSizes : addData(size)
  <2>1. PICK size \in PieceSizes : addData(size)
    BY <1>1
  <2>2. size \in Nat /\ pieces \in Seq(Nat) /\ format' = format
    BY <2>1, SizesAssumption DEF WriterInvariant, WriterTypes, addData
  <2>3. pieces' = Append(pieces, size)
    BY <2>1 DEF addData
  <2> SUFFICES ASSUME format.factor > 1, NEW i \in DOMAIN pieces'
               PROVE  Divides(SampleLength(format), pieces'[i])
    BY <2>2 DEF PiecesDivide
  <2>4. SampleLength(format) \in Nat \ {0}
    BY FormatIs DEF WriterInvariant, WriterTypes
  <2>5. size % SampleLength(format) = 0
    BY <2>1 DEF addData
  <2>6. Divides(SampleLength(format), size)
    BY <2>2, <2>4, <2>5, ModuloDivides
  <2>7. i \in 1 .. Len(pieces) + 1 /\ (i = Len(pieces) + 1 \/ i \in DOMAIN pieces)
    BY <2>2, <2>3
  <2>8. CASE i = Len(pieces) + 1
    <3>1. pieces'[i] = size
      BY <2>2, <2>3, <2>8
    <3>2. QED
      BY <2>6, <3>1
  <2>9. CASE i \in DOMAIN pieces
    <3>1. pieces'[i] = pieces[i]
      BY <2>2, <2>3, <2>9
    <3>2. QED
      BY <2>9, <3>1 DEF WriterInvariant, PiecesDivide
  <2>10. QED
    BY <2>7, <2>8, <2>9
<1>2. CASE ~ \E size \in PieceSizes : addData(size)
  <2>1. UNCHANGED <<format, pieces>>
    BY <1>2 DEF WavNext, addCuePoint, addAssocFile, writeFile, fillBuffer, startSampling, writeSample,
       endSampling
  <2>2. QED
    BY <2>1 DEF WriterInvariant, PiecesDivide
<1>3. QED
  BY <1>1, <1>2

LEMMA PiecesThere ==
  ASSUME WriterTypes, DataSize(format, pieces) > 0
  PROVE  pieces # <<>> /\ SumOf(pieces) > 0
<1>1. SumOf(pieces) \in Nat /\ SumOf(pieces) # 0
  BY DataSizeIs DEF WriterTypes
<1>2. pieces # <<>>
  <2> SUFFICES ASSUME pieces = <<>>
               PROVE  FALSE
    OBVIOUS
  <2>1. Len(pieces) = 0
    OBVIOUS
  <2>2. SumOf(pieces) = 0
    BY <2>1, SumsStep DEF SumOf, WriterTypes
  <2>3. QED
    BY <1>1, <2>2
<1>3. QED
  BY <1>1, <1>2

LEMMA StartsOnNext ==
  ASSUME WriterInvariant, startSampling, Reduces
  PROVE  it' # Invalid /\ OnNext' /\ Multiples'
<1> DEFINE len == SampleLength(format)
<1>1. pieces \in Seq(Nat) /\ format \in Formats /\ len \in Nat \ {0}
  BY FormatIs DEF WriterInvariant, WriterTypes
<1>2. sampled = <<>> /\ UNCHANGED <<sampled, pieces, format>> /\ it' = SetPos(pieces, 0, len)
  BY DEF startSampling, WriterInvariant, SamplingFollows
<1>3. pieces # <<>> /\ 1 \in DOMAIN pieces /\ pieces[1] \in Nat
  <2>1. pieces # <<>>
    BY PiecesThere DEF Reduces, WriterInvariant
  <2>2. QED
    BY <1>1, <2>1
<1>4. Divides(len, pieces[1])
  BY <1>3 DEF Reduces, WriterInvariant, PiecesDivide
<1>5. Divides(len, 0)
  BY <1>1, TimesAdds DEF Divides
<1>6. len <= pieces[1]
  <2>1. 0 + len <= pieces[1]
    BY <1>1, <1>3, <1>4, <1>5, DividesRoom DEF Reduces
  <2>2. QED
    BY <1>1, <2>1
<1> HIDE DEF len
<1>7. it' = [junk |-> 1, offset |-> 0]
  BY <1>1, <1>2, <1>3, <1>6, StartIs
<1>8. it' # Invalid
  BY <1>7, InvalidAssumption
<1>9. Before(pieces, 1) = 0
  BY <1>1, SumsStep DEF Before
<1>10. Taken(0) = 0
  BY <1>1, TakenIs
<1>11. OnNext'
  <2>1. it'.junk = 1 /\ it'.offset = 0
    BY <1>7
  <2>2. Before(pieces, it'.junk) + it'.offset = Taken(0) /\ Len(sampled) = 0
    BY <1>2, <1>9, <1>10, <2>1
  <2>3. Divides(len, it'.offset) /\ it'.offset + len <= pieces[it'.junk]
    BY <1>1, <1>5, <1>6, <2>1
  <2>4. QED
    BY <1>2, <2>2, <2>3 DEF OnNext, Taken, len
<1>12. QED
  BY <1>2, <1>8, <1>11 DEF Multiples

LEMMA StaysOnNext ==
  ASSUME WriterInvariant, writeSample, Reduces, stage' # "crashed"
  PROVE  Multiples' /\ IF it' = Invalid THEN PastLast' ELSE OnNext'
<1> DEFINE len == SampleLength(format)
           L == Len(sampled)
           target == Before(pieces, it.junk) + it.offset + len * format.factor
<1>1. /\ pieces \in Seq(Nat) /\ format \in Formats /\ sampled \in Seq(Nat) /\ L \in Nat
      /\ len \in Nat \ {0} /\ format.factor \in Nat
      /\ it # Invalid /\ it \in [junk : DOMAIN pieces, offset : Nat]
  BY FormatIs DEF WriterInvariant, WriterTypes, writeSample
<1>2. Multiples /\ OnNext
  BY <1>1 DEF WriterInvariant, SamplingFollows, writeSample
<1>3. /\ sampled' = Append(sampled, SampleAt(pieces, it, len))
      /\ it' = NextPos(pieces, it, format.factor, len)
      /\ UNCHANGED <<pieces, format>>
  BY DEF writeSample
<1>4. SampleAt(pieces, it, len) = L * format.factor
  BY <1>1, <1>2, TakenIs DEF SampleAt, OnNext
<1>5. Len(sampled') = L + 1 /\ Len(sampled') \in Nat
  BY <1>1, <1>3, <1>4
<1>6. Multiples'
  <2> SUFFICES ASSUME NEW i \in DOMAIN sampled'
               PROVE  sampled'[i] = (i - 1) * format.factor
    BY <1>3 DEF Multiples
  <2>1. L * format.factor \in Nat
    BY <1>1
  <2>2. i \in 1 .. L + 1
    BY <1>1, <1>3, <1>4, <2>1
  <2>3. CASE i = L + 1
    <3>1. sampled'[i] = L * format.factor /\ i - 1 = L
      BY <1>1, <1>3, <1>4, <2>1, <2>3
    <3>2. QED
      BY <3>1
  <2>4. CASE i # L + 1
    <3>1. i \in DOMAIN sampled /\ sampled'[i] = sampled[i]
      BY <1>1, <1>3, <1>4, <2>1, <2>2, <2>4
    <3>2. QED
      BY <1>2, <3>1 DEF Multiples
  <2>5. QED
    BY <2>3, <2>4
<1>7. target = Taken(L + 1) /\ Taken(L) \in Nat /\ Taken(L + 1) \in Nat
  <2>1. Taken(L + 1) = Taken(L) + len * format.factor /\ Taken(L) \in Nat
    BY <1>1, TakenIs
  <2>2. Taken(L + 1) \in Nat
    BY <1>1, TakenIs
  <2>3. Before(pieces, it.junk) + it.offset = Taken(L)
    BY <1>2 DEF OnNext
  <2>4. QED
    BY <2>1, <2>2, <2>3
<1>8. Divides(len, target) /\ \A i \in DOMAIN pieces : Divides(len, pieces[i])
  <2>1. Divides(len, Taken(L + 1))
    BY <1>1, TakenIs
  <2>2. QED
    BY <1>7, <2>1 DEF Reduces, WriterInvariant, PiecesDivide
<1> HIDE DEF len, L
<1>9. FoundAt(pieces, it', len, target)
  BY <1>1, <1>3, <1>8, NextPosIs
<1>10. Taken(L) < SumOf(pieces)
  <2>1. it.junk \in 1 .. Len(pieces) /\ Len(pieces) \in Nat
    BY <1>1, SumsStep
  <2>2. /\ Sums(pieces)[it.junk] = Before(pieces, it.junk) + pieces[it.junk]
        /\ Before(pieces, it.junk) \in Nat /\ pieces[it.junk] \in Nat
        /\ Sums(pieces)[it.junk] \in Nat /\ SumOf(pieces) \in Nat
    BY <1>1, <2>1, SumsStep DEF Before, SumOf
  <2>3. Sums(pieces)[it.junk] <= SumOf(pieces)
    BY <1>1, <2>1, SumsGrow DEF SumOf
  <2>4. it.offset + len <= pieces[it.junk] /\ Before(pieces, it.junk) + it.offset = Taken(L)
    BY <1>2 DEF OnNext, len, L
  <2>5. QED
    BY <1>1, <2>2, <2>3, <2>4
<1> HIDE DEF target
<1>11. CASE it' = Invalid
  <2>1. SumOf(pieces) <= Taken(L + 1)
    BY <1>7, <1>9, <1>11 DEF FoundAt
  <2>2. Len(sampled') - 1 = L /\ Len(sampled') # 0
    BY <1>1, <1>5 DEF L
  <2>3. PastLast'
    BY <1>3, <1>5, <1>10, <2>1, <2>2 DEF PastLast, Taken, L
  <2>4. QED
    BY <1>6, <1>11, <2>3
<1>12. CASE it' # Invalid
  <2>1. /\ Divides(len, it'.offset) /\ it'.offset + len <= pieces[it'.junk]
        /\ Before(pieces, it'.junk) + it'.offset = Taken(L + 1)
    BY <1>7, <1>9, <1>12 DEF FoundAt
  <2>2. OnNext'
    BY <1>3, <1>5, <2>1 DEF OnNext, Taken, len, L
  <2>3. QED
    BY <1>6, <1>12, <2>2
<1>13. QED
  BY <1>11, <1>12

LEMMA WriterInvariantStep ==
  ASSUME WriterInvariant, WavNext
  PROVE  WriterInvariant'
<1>1. WriterTypes' /\ format' = format /\ PiecesDivide'
  BY WriterTypesStep, PiecesDivideStep DEF WriterInvariant
<1>2. SamplingFollows'
  <2>1. CASE \E name \in Names : addCuePoint(name) \/ addAssocFile(name)
    BY <2>1 DEF addCuePoint, addAssocFile, WriterInvariant, SamplingFollows
  <2>2. CASE \E size \in PieceSizes : addData(size)
    BY <2>2 DEF addData, WriterInvariant, SamplingFollows
  <2>3. CASE writeFile \/ fillBuffer
    <3>1. stage' = "written" /\ UNCHANGED <<format, pieces, it, sampled>>
      BY <2>3 DEF writeFile, fillBuffer, WriteFile
    <3>2. ~Reduces
      <4>1. format \in Formats /\ pieces \in Seq(Nat)
        BY DEF WriterInvariant, WriterTypes
      <4>2. CASE format.factor = 1
        BY <4>2 DEF Reduces
      <4>3. CASE getSize(PcmDataChunk) = 0
        <5>1. DataSize(format, pieces) \in Nat
          BY <4>1, DataSizeIs
        <5>2. DataSize(format, pieces) = 0
          BY <4>1, <4>3, <5>1, EmptyPcm DEF PcmDataChunk, ChunkHeader
        <5>3. QED
          BY <5>2 DEF Reduces
      <4>4. QED
        BY <2>3, <4>2, <4>3 DEF writeFile, fillBuffer
    <3>3. ~Reduces'
      BY <3>1, <3>2 DEF Reduces
    <3>4. QED
      BY <3>1, <3>3 DEF SamplingFollows
  <2>4. CASE startSampling
    <3>1. stage' = "sampling" /\ UNCHANGED <<format, pieces, sampled>>
      BY <2>4 DEF startSampling
    <3>2. format.factor > 1 /\ DataSize(format, pieces) > 0
      <4>1. format \in Formats /\ pieces \in Seq(Nat)
        BY DEF WriterInvariant, WriterTypes
      <4>2. DataSize(format, pieces) \in Nat
        BY <4>1, DataSizeIs
      <4>3. DataSize(format, pieces) # 0
        BY <2>4, <4>1, <4>2, EmptyPcm DEF startSampling, PcmDataChunk
      <4>4. QED
        BY <2>4, <4>2, <4>3 DEF startSampling
    <3>3. Reduces' => Reduces
      BY <3>1 DEF Reduces
    <3>4. QED
      BY <2>4, <3>1, <3>2, <3>3, StartsOnNext DEF SamplingFollows
  <2>5. CASE writeSample
    <3>1. stage' \in {"sampling", "crashed"} /\ stage = "sampling" /\ UNCHANGED <<format, pieces>>
      BY <2>5 DEF writeSample
    <3>2. Reduces' => Reduces
      BY <3>1 DEF Reduces
    <3>3. CASE stage' = "crashed"
      BY <3>3 DEF SamplingFollows
    <3>4. CASE stage' # "crashed"
      BY <2>5, <3>1, <3>2, <3>4, StaysOnNext DEF SamplingFollows, WriterInvariant
    <3>5. QED
      BY <3>3, <3>4
  <2>6. CASE endSampling
    <3>1. stage = "sampling" /\ stage' = "written" /\ it = Invalid /\ UNCHANGED <<format, pieces, sampled>>
      BY <2>6 DEF endSampling, WriteFile
    <3>2. Reduces' => Reduces /\ Multiples /\ PastLast
      BY <3>1 DEF Reduces, WriterInvariant, SamplingFollows
    <3>3. Reduces' => Multiples' /\ PastLast'
      BY <3>1, <3>2 DEF Multiples, PastLast, Taken
    <3>4. QED
      BY <3>1, <3>3 DEF SamplingFollows
  <2>7. QED
    BY <2>1, <2>2, <2>3, <2>4, <2>5, <2>6 DEF WavNext
<1>3. QED
  BY <1>1, <1>2 DEF WriterInvariant

(* What is written and taken fits together: see SamplesEveryFactor.        *)
LEMMA WriterInvariantHolds == Spec => []WriterInvariant
<1>1. Init => WriterInvariant
  <2> SUFFICES ASSUME Init
               PROVE  WriterInvariant
    OBVIOUS
  <2>1. /\ stage = "build" /\ format \in Formats /\ points = 0 /\ assoc = <<>> /\ pieces = <<>>
        /\ it = Invalid /\ sampled = <<>>
    BY DEF Init, WavInit
  <2>2. WriterTypes /\ SamplingFollows
    BY <2>1 DEF WriterTypes, SamplingFollows
  <2>3. PiecesDivide
    BY <2>1 DEF PiecesDivide
  <2>4. QED
    BY <2>2, <2>3 DEF WriterInvariant
<1>2. WriterInvariant /\ [Next]_vars => WriterInvariant'
  <2> SUFFICES ASSUME WriterInvariant, [Next]_vars
               PROVE  WriterInvariant'
    OBVIOUS
  <2>1. CASE UNCHANGED wavVars
    <3>1. UNCHANGED <<stage, format, points, assoc, pieces, it, sampled>>
      BY <2>1 DEF wavVars
    <3>2. WriterTypes' /\ PiecesDivide'
      BY <3>1 DEF WriterInvariant, WriterTypes, PiecesDivide
    <3>3. SamplingFollows'
      BY <3>1 DEF WriterInvariant, SamplingFollows, Reduces, Multiples, PastLast, OnNext, Taken
    <3>4. QED
      BY <3>2, <3>3 DEF WriterInvariant
  <2>2. QED
    BY <2>1, WriterStep, WriterInvariantStep
<1>3. QED
  BY <1>1, <1>2, PTL DEF Spec

(* As many samples as the header counts.                                   *)
LEMMA TakesAll ==
  ASSUME WriterInvariant, stage = "written", Reduces
  PROVE  Len(sampled) * SampleLength(format) = ReducedSize(format, Samples(format, pieces))
<1> DEFINE len == SampleLength(format)
           factor == format.factor
           L == Len(sampled)
           total == Samples(format, pieces)
<1>1. pieces \in Seq(Nat) /\ format \in Formats /\ len \in Nat \ {0} /\ factor \in Nat \ {0} /\ L \in Nat
  BY FormatIs DEF WriterInvariant, WriterTypes
<1>2. PastLast
  BY DEF WriterInvariant, SamplingFollows
<1>3. L # 0 /\ L - 1 \in Nat
  BY <1>1, <1>2 DEF PastLast
<1>4. SumOf(pieces) \in Nat /\ total \in Nat /\ Divides(len, SumOf(pieces)) /\ SumOf(pieces) > 0
  <2>1. Len(pieces) \in 0 .. Len(pieces)
    BY <1>1, SumsStep
  <2>2. \A i \in DOMAIN pieces : Divides(len, pieces[i])
    BY DEF WriterInvariant, PiecesDivide, Reduces
  <2>3. Divides(len, SumOf(pieces))
    BY <1>1, <2>1, <2>2, SumsDivide DEF SumOf
  <2>4. QED
    BY <1>1, <2>3, DataSizeIs, PiecesThere DEF Reduces, WriterInvariant
<1>5. PICK t \in Nat : SumOf(pieces) = Times(t, len)
  BY <1>4 DEF Divides
<1>6. Times((L - 1) * factor, len) < Times(t, len) /\ Times(t, len) <= Times(L * factor, len)
  BY <1>2, <1>5 DEF PastLast, Taken
<1> HIDE DEF len, factor, L
<1>7. L * factor \in Nat /\ (L - 1) * factor \in Nat /\ L * factor = (L - 1) * factor + factor
  BY <1>1, <1>3
<1>8. (L - 1) * factor < t
  <2> SUFFICES ASSUME ~((L - 1) * factor < t)
               PROVE  FALSE
    OBVIOUS
  <2>1. t = (L - 1) * factor \/ t < (L - 1) * factor
    BY <1>7
  <2>2. t # (L - 1) * factor
    <3>1. Times(t, len) \in Nat
      BY <1>1, TimesNat
    <3>2. Times(t, len) # Times((L - 1) * factor, len)
      BY <1>6, <3>1
    <3>3. QED
      BY <3>2
  <2>3. Times(t, len) + len <= Times((L - 1) * factor, len)
    BY <1>1, <1>7, <2>1, <2>2, TimesOrder
  <2>4. Times(t, len) \in Nat /\ Times((L - 1) * factor, len) \in Nat
    BY <1>1, <1>7, TimesNat
  <2>5. QED
    BY <1>1, <1>6, <2>3, <2>4
<1>9. t <= L * factor
  <2> SUFFICES ASSUME L * factor < t
               PROVE  FALSE
    BY <1>7
  <2>1. Times(L * factor, len) + len <= Times(t, len)
    BY <1>1, <1>7, TimesOrder
  <2>2. Times(t, len) \in Nat /\ Times(L * factor, len) \in Nat
    BY <1>1, <1>7, TimesNat
  <2>3. QED
    BY <1>1, <1>6, <2>1, <2>2
<1>10. total = t
  <2>1. Times(t, len) \div len = t
    <3>1. Times(t, len) \in Nat
      BY <1>1, TimesNat
    <3>2. QED
      BY <1>1, <3>1, TimesQuotient
  <2>2. QED
    BY <1>5, <2>1 DEF Samples, len
<1> DEFINE q == (t - 1) \div factor
<1>11. q = L - 1
  <2>1. t - 1 \in Nat
    BY <1>7, <1>8
  <2>2. Times(L - 1, factor) <= t - 1 /\ t - 1 < Times(L - 1, factor) + factor
    BY <1>1, <1>7, <1>8, <1>9 DEF Times
  <2>3. QED
    BY <1>1, <1>3, <2>1, <2>2, TimesQuotient
<1>12. ReducedSize(format, t) = (q + 1) * len
  BY <1>7, <1>8 DEF ReducedSize, len, factor
<1> HIDE DEF q
<1>13. q + 1 = L
  BY <1>1, <1>11
<1>14. QED
  BY <1>10, <1>12, <1>13 DEF len, L

(* The write loop takes the samples 0, factor, 2 * factor, ... over all    *)
(* the pieces, as many as the header counts, whatever their number and     *)
(* sizes, for every factor and number of channels.                         *)
THEOREM SamplesEveryFactorAlways == Spec => []SamplesEveryFactor
<1>1. WriterInvariant => SamplesEveryFactor
  <2> SUFFICES ASSUME WriterInvariant, stage = "written", Reduces
               PROVE  /\ \A i \in DOMAIN sampled : sampled[i] = (i - 1) * format.factor
                      /\ Len(sampled) * SampleLength(format)
                           = ReducedSize(format, SumOf(pieces) \div SampleLength(format))
    BY DEF SamplesEveryFactor, Simply, Reduces
  <2>1. Multiples
    BY DEF WriterInvariant, SamplingFollows
  <2>2. QED
    BY <2>1, TakesAll DEF Multiples, Samples
<1>2. QED
  BY <1>1, WriterInvariantHolds, PTL

-----------------------------------------------------------------------------
(* Where chunks are.                                                       *)

(* A list of chunks; those that are empty are not written.                 *)
IsList(list) ==
  /\ Len(list) \in Nat /\ DOMAIN list = 1 .. Len(list)
  /\ \A i \in DOMAIN list : list[i].bytes \in Nat /\ (list[i].bytes # 0 => list[i].size \in Nat)

LEMMA PaddedIs ==
  ASSUME NEW size \in Nat
  PROVE  /\ Padded(size) \in Nat /\ size <= Padded(size) /\ Padded(size) <= size + 1
         /\ Padded(size) % 2 = 0 /\ (size % 2 = 0 => Padded(size) = size)
         /\ Padded(ChunkHeader + size) = ChunkHeader + Padded(size)
<1>1. size % 2 \in {0, 1} /\ (size + (size % 2)) % 2 = 0
  OBVIOUS
<1>2. (8 + size) % 2 = size % 2
  OBVIOUS
<1>3. QED
  BY <1>1, <1>2 DEF Padded, ChunkHeader

LEMMA Places ==
  ASSUME NEW list, IsList(list), NEW start \in Nat
  PROVE  /\ Begin(list, start, 1) = start
         /\ \A i \in 1 .. Len(list) + 1 : Begin(list, start, i) \in Nat
         /\ \A i \in 1 .. Len(list) :
              Begin(list, start, i + 1) = Begin(list, start, i) + Padded(list[i].bytes)
         /\ \A i \in 1 .. Len(list) + 1 : \A j \in i .. Len(list) + 1 :
              Begin(list, start, i) <= Begin(list, start, j)
<1> DEFINE n == Len(list)
           sizes == [j \in DOMAIN list |-> Padded(list[j].bytes)]
<1>1. n \in Nat /\ DOMAIN list = 1 .. n /\ \A i \in 1 .. n : Padded(list[i].bytes) \in Nat
  BY PaddedIs DEF IsList
<1> HIDE DEF n
<1>2. sizes \in Seq(Nat) /\ Len(sizes) = n
  BY <1>1
<1>3. \A i \in 1 .. n : sizes[i] = Padded(list[i].bytes)
  BY <1>1
<1>4. \A i \in 1 .. n + 1 : Begin(list, start, i) = start + Sums(sizes)[i - 1]
  BY DEF Begin
<1> HIDE DEF sizes
<1>5. /\ Sums(sizes)[0] = 0
      /\ \A i \in 0 .. n : Sums(sizes)[i] \in Nat
      /\ \A i \in 1 .. n : sizes[i] \in Nat /\ Sums(sizes)[i] = Sums(sizes)[i - 1] + sizes[i]
  BY <1>2, SumsStep
<1>6. Begin(list, start, 1) = start
  <2>1. 1 \in 1 .. n + 1 /\ 1 - 1 = 0
    BY <1>1
  <2>2. QED
    BY <1>4, <1>5, <2>1
<1>7. ASSUME NEW i \in 1 .. n + 1
      PROVE  Begin(list, start, i) \in Nat /\ i - 1 \in 0 .. n /\ Sums(sizes)[i - 1] \in Nat
  <2>1. i - 1 \in 0 .. n
    BY <1>1
  <2>2. QED
    BY <1>4, <1>5, <2>1
<1>8. ASSUME NEW i \in 1 .. n
      PROVE  Begin(list, start, i + 1) = Begin(list, start, i) + Padded(list[i].bytes)
  <2>1. i \in 1 .. n + 1 /\ i + 1 \in 1 .. n + 1 /\ (i + 1) - 1 = i /\ i \in 0 .. n /\ i - 1 \in 0 .. n
    BY <1>1
  <2>2. Begin(list, start, i) = start + Sums(sizes)[i - 1] /\ Begin(list, start, i + 1) = start + Sums(sizes)[i]
    BY <1>4, <2>1
  <2>3. Sums(sizes)[i] = Sums(sizes)[i - 1] + Padded(list[i].bytes) /\ Padded(list[i].bytes) \in Nat
        /\ Sums(sizes)[i - 1] \in Nat
    BY <1>1, <1>3, <1>5, <2>1
  <2>4. QED
    BY <2>2, <2>3
<1>9. ASSUME NEW i \in 1 .. n + 1, NEW j \in i .. n + 1
      PROVE  Begin(list, start, i) <= Begin(list, start, j)
  <2>1. j \in 1 .. n + 1 /\ i - 1 \in 0 .. n /\ j - 1 \in i - 1 .. n
    BY <1>1
  <2>2. Sums(sizes)[i - 1] <= Sums(sizes)[j - 1]
    BY <1>2, <2>1, SumsGrow
  <2>3. QED
    BY <1>4, <1>7, <2>1, <2>2
<1>10. QED
  BY <1>6, <1>7, <1>8, <1>9 DEF n

(* A chunk of a list is one of its entries that is not empty.              *)
LEMMA PlacedIs ==
  ASSUME NEW list, IsList(list), NEW start \in Nat, NEW parent, NEW c \in Placed(list, start, parent)
  PROVE  \E i \in 1 .. Len(list) :
           /\ list[i].bytes \in Nat \ {0} /\ list[i].size \in Nat
           /\ c = [at |-> Begin(list, start, i), id |-> list[i].id, size |-> list[i].size,
                   name |-> list[i].name, parent |-> parent]
           /\ c.at = Begin(list, start, i) /\ c.at \in Nat
           /\ c.size = list[i].size /\ c.id = list[i].id /\ c.name = list[i].name /\ c.parent = parent
           /\ start <= c.at /\ Begin(list, start, i + 1) = c.at + Padded(list[i].bytes)
           /\ Begin(list, start, i + 1) <= Begin(list, start, Len(list) + 1)
           /\ Begin(list, start, i + 1) \in Nat
<1>1. PICK i \in {j \in DOMAIN list : list[j].bytes > 0} :
        c = [at |-> Begin(list, start, i), id |-> list[i].id, size |-> list[i].size,
             name |-> list[i].name, parent |-> parent]
  BY DEF Placed
<1>2. i \in 1 .. Len(list) /\ Len(list) \in Nat /\ list[i].bytes \in Nat \ {0} /\ list[i].size \in Nat
  BY DEF IsList
<1>3. i \in 1 .. Len(list) + 1 /\ i + 1 \in 1 .. Len(list) + 1 /\ Len(list) + 1 \in i + 1 .. Len(list) + 1
      /\ 1 \in 1 .. Len(list) + 1 /\ i \in 1 .. Len(list) + 1
  BY <1>2
<1>4. Begin(list, start, i) \in Nat /\ start <= Begin(list, start, i)
      /\ Begin(list, start, i + 1) = Begin(list, start, i) + Padded(list[i].bytes)
      /\ Begin(list, start, i + 1) <= Begin(list, start, Len(list) + 1)
      /\ Begin(list, start, i + 1) \in Nat
  <2>1. Begin(list, start, i) \in Nat /\ Begin(list, start, i + 1) \in Nat
    BY <1>3, Places, Zenon
  <2>2. Begin(list, start, i + 1) = Begin(list, start, i) + Padded(list[i].bytes)
    BY <1>2, Places, Zenon
  <2>3. Begin(list, start, i + 1) <= Begin(list, start, Len(list) + 1)
    BY <1>3, Places, Zenon
  <2>4. start <= Begin(list, start, i)
    <3>1. Begin(list, start, 1) = start /\ i \in 1 .. Len(list) + 1
      BY <1>3, Places, Zenon
    <3>2. Begin(list, start, 1) <= Begin(list, start, i)
      BY <1>3, Places, Zenon
    <3>3. QED
      BY <3>1, <3>2
  <2>5. QED
    BY <2>1, <2>2, <2>3, <2>4
<1>5. QED
  BY <1>1, <1>2, <1>4

LEMMA PlacedThere ==
  ASSUME NEW list, IsList(list), NEW start \in Nat, NEW parent, NEW i \in 1 .. Len(list),
         list[i].bytes > 0
  PROVE  [at |-> Begin(list, start, i), id |-> list[i].id, size |-> list[i].size,
          name |-> list[i].name, parent |-> parent] \in Placed(list, start, parent)
BY DEF Placed, IsList

(* Wherever a chunk ends there is another one, or the end of them all.     *)
LEMMA PlacedFollow ==
  ASSUME NEW list, IsList(list), NEW start \in Nat, NEW parent, NEW i \in 1 .. Len(list) + 1
  PROVE  \/ Begin(list, start, i) = Begin(list, start, Len(list) + 1)
         \/ \E d \in Placed(list, start, parent) : d.at = Begin(list, start, i)
<1> DEFINE n == Len(list)
           P(j) == Begin(list, start, j)
           There(j) == \E d \in Placed(list, start, parent) : d.at = P(j)
           T == {k \in 0 .. n : ~(P(n + 1 - k) = P(n + 1) \/ There(n + 1 - k))}
<1>1. n \in Nat
  BY DEF IsList
<1>2. ASSUME NEW j \in 1 .. n, list[j].bytes > 0
      PROVE  There(j)
  <2> DEFINE d == [at |-> Begin(list, start, j), id |-> list[j].id, size |-> list[j].size,
                   name |-> list[j].name, parent |-> parent]
  <2>1. d \in Placed(list, start, parent)
    BY <1>2, PlacedThere
  <2>2. d.at = P(j)
    OBVIOUS
  <2> HIDE DEF d
  <2>3. QED
    BY <2>1, <2>2
<1>3. ASSUME NEW j \in 1 .. n, ~(list[j].bytes > 0)
      PROVE  P(j + 1) = P(j)
  <2>1. list[j].bytes = 0
    BY <1>3 DEF IsList
  <2>2. Padded(0) = 0
    BY DEF Padded
  <2>3. P(j + 1) = P(j) + 0 /\ P(j) \in Nat
    <3>1. j \in 1 .. n + 1
      BY <1>1
    <3>2. Begin(list, start, j + 1) = Begin(list, start, j) + Padded(list[j].bytes)
          /\ Begin(list, start, j) \in Nat
      BY <3>1, Places
    <3>3. QED
      BY <2>1, <2>2, <3>2
  <2>4. QED
    BY <2>3
<1> SUFFICES ASSUME T # {}
             PROVE  FALSE
  <2>1. n + 1 - i \in 0 .. n /\ n + 1 - (n + 1 - i) = i
    BY <1>1
  <2>2. QED
    BY <2>1
<1>4. T \subseteq Nat
  BY <1>1
<1> HIDE DEF T
<1>5. PICK k \in T : \A m \in T : k <= m
  BY <1>4, LeastNat
<1>6. k \in 0 .. n /\ P(n + 1 - k) # P(n + 1) /\ ~There(n + 1 - k)
  BY <1>5 DEF T
<1> HIDE DEF P, There
<1>7. k # 0
  <2>1. n + 1 - 0 = n + 1
    BY <1>1
  <2>2. QED
    BY <1>6, <2>1
<1>8. k - 1 \in 0 .. n /\ n + 1 - k \in 1 .. n /\ n + 1 - (k - 1) = (n + 1 - k) + 1
  BY <1>1, <1>6, <1>7
<1>9. k - 1 \notin T
  BY <1>1, <1>5, <1>6, <1>8
<1>10. P(n + 1 - (k - 1)) = P(n + 1) \/ There(n + 1 - (k - 1))
  BY <1>8, <1>9 DEF T
<1>11. P((n + 1 - k) + 1) = P(n + 1 - k)
  BY <1>2, <1>3, <1>6, <1>8
<1>12. There((n + 1 - k) + 1) => There(n + 1 - k)
  BY <1>11 DEF There
<1>13. QED
  BY <1>6, <1>8, <1>10, <1>11, <1>12

(* Chunks of a list are apart.                                             *)
LEMMA PlacedApart ==
  ASSUME NEW list, IsList(list), NEW start \in Nat, NEW i \in 1 .. Len(list), NEW j \in 1 .. Len(list),
         list[i].bytes > 0, list[j].bytes > 0
  PROVE  /\ i < j => Begin(list, start, i + 1) <= Begin(list, start, j)
         /\ Begin(list, start, i) = Begin(list, start, j) => i = j
         /\ Begin(list, start, i) < Begin(list, start, j) => i < j
<1>1. ASSUME NEW a \in 1 .. Len(list), NEW b \in 1 .. Len(list), a < b, list[a].bytes > 0
      PROVE  /\ Begin(list, start, a + 1) <= Begin(list, start, b)
             /\ Begin(list, start, a) < Begin(list, start, b)
  <2>1. /\ Len(list) \in Nat /\ a \in 1 .. Len(list) + 1 /\ a + 1 \in 1 .. Len(list) + 1
        /\ b \in a + 1 .. Len(list) + 1 /\ b \in 1 .. Len(list) + 1
    BY <1>1 DEF IsList
  <2>2. /\ Begin(list, start, a + 1) <= Begin(list, start, b)
        /\ Begin(list, start, a) \in Nat /\ Begin(list, start, b) \in Nat
        /\ Begin(list, start, a + 1) = Begin(list, start, a) + Padded(list[a].bytes)
    BY <2>1, Places
  <2>3. list[a].bytes \in Nat \ {0}
    BY <1>1 DEF IsList
  <2> DEFINE bytes == list[a].bytes
  <2>4. Padded(bytes) >= bytes /\ Padded(bytes) \in Nat
    BY <2>3, PaddedIs
  <2>5. QED
    BY <2>2, <2>3, <2>4, SMTT(30)
<1>2. Begin(list, start, i) \in Nat /\ Begin(list, start, j) \in Nat
  <2>1. i \in 1 .. Len(list) + 1 /\ j \in 1 .. Len(list) + 1
    BY DEF IsList
  <2>2. QED
    BY <2>1, Places
<1>3. i < j => Begin(list, start, i + 1) <= Begin(list, start, j) /\ Begin(list, start, i) < Begin(list, start, j)
  BY <1>1
<1>4. j < i => Begin(list, start, j) < Begin(list, start, i)
  BY <1>1
<1>5. i < j \/ i = j \/ j < i
  OBVIOUS
<1>6. QED
  BY <1>2, <1>3, <1>4, <1>5

-----------------------------------------------------------------------------
(* How a file is laid out.                                                 *)

TopAt(f, p) == \E d \in f.chunks : d.parent = 0 /\ d.at = p

(* There is a chunk at this position, or the file has ended.               *)
Follow(f, p) == TopAt(f, p) \/ f.length <= p

InnerAt(f, c, p) == \E d \in f.chunks : d.parent = c.at /\ d.at = p

FollowIn(f, c, p) == p = SeekEnd(c) \/ (p < SeekEnd(c) /\ (InnerAt(f, c, p) \/ f.length <= p))

RiffEnd(f) == ChunkHeader + Padded(f.riff)

LayoutTypes(f) ==
  /\ f = [length |-> f.length, riff |-> f.riff, chunks |-> f.chunks]
  /\ f.length \in Nat /\ f.length >= HeaderSize.RIFF
  /\ f.riff \in Nat /\ HeaderSize.RIFF < RiffEnd(f)
  /\ \A c \in f.chunks :
       c.at \in Nat /\ c.size \in Nat /\ HeaderSize.RIFF <= c.at /\ c.at < f.length

(* No two chunks are in one place, and one ends before the next begins.    *)
Apart(f) ==
  \A c, d \in f.chunks :
    /\ c.at = d.at => c = d
    /\ (c.parent = d.parent /\ c.at < d.at) => SeekEnd(c) <= d.at

(* Only samples may be shorter or longer than their header says.           *)
TopsFollow(f) ==
  /\ Follow(f, HeaderSize.RIFF)
  /\ \A c \in f.chunks :
       c.parent = 0 => Follow(f, SeekEnd(c)) \/ (c.id = "data" /\ RiffEnd(f) <= SeekEnd(c))

InnersFollow(f) ==
  \A c \in f.chunks :
    /\ (c.parent = 0 /\ c.id = "LIST") => FollowIn(f, c, c.at + HeaderSize.LIST)
    /\ \A d \in f.chunks : d.parent = c.at => FollowIn(f, c, SeekEnd(d)) /\ c.at < d.at

Layout(f) == LayoutTypes(f) /\ Apart(f) /\ TopsFollow(f) /\ InnersFollow(f)

(* The chunks that a file is written from, and the size in its header.     *)
Sound(chunks, riff) ==
  /\ IsList(chunks) /\ riff \in Nat /\ HeaderSize.RIFF < ChunkHeader + Padded(riff)
  /\ \A i \in DOMAIN chunks :
       /\ IsList(chunks[i].list)
       /\ \/ Padded(chunks[i].bytes) = ChunkHeader + Padded(chunks[i].size)
          \/ chunks[i].bytes = 0
          \/ /\ i = Len(chunks) /\ chunks[i].id = "data"
             /\ ChunkHeader + Padded(riff)
                  <= Begin(chunks, HeaderSize.RIFF, i) + ChunkHeader + Padded(chunks[i].size)
       /\ IF chunks[i].id = "LIST" /\ chunks[i].bytes > 0
          THEN /\ Begin(chunks[i].list, HeaderSize.LIST, Len(chunks[i].list) + 1)
                    = ChunkHeader + Padded(chunks[i].size)
               /\ \A k \in DOMAIN chunks[i].list :
                    \/ chunks[i].list[k].bytes = 0
                    \/ Padded(chunks[i].list[k].bytes) = ChunkHeader + Padded(chunks[i].list[k].size)
          ELSE \A k \in DOMAIN chunks[i].list : chunks[i].list[k].bytes = 0

TopPlace(chunks, i) == Begin(chunks, HeaderSize.RIFF, i)

Tops(chunks) == Placed(chunks, HeaderSize.RIFF, 0)

Inners(chunks, i) ==
  Placed(chunks[i].list, TopPlace(chunks, i) + HeaderSize.LIST, TopPlace(chunks, i))

LEMMA FileHas ==
  ASSUME NEW chunks, NEW riff
  PROVE  /\ FileOf(chunks, riff).length = TopPlace(chunks, Len(chunks) + 1)
         /\ FileOf(chunks, riff).riff = riff
         /\ \A c : c \in FileOf(chunks, riff).chunks
                     <=> c \in Tops(chunks) \/ \E i \in DOMAIN chunks : c \in Inners(chunks, i)
BY DEF FileOf, TopPlace, Tops, Inners

LEMMA BeginShift ==
  ASSUME NEW list, IsList(list), NEW start \in Nat, NEW further \in Nat, NEW i \in 1 .. Len(list) + 1
  PROVE  Begin(list, start + further, i) = start + Begin(list, further, i)
<1> DEFINE sum == Sums([j \in DOMAIN list |-> Padded(list[j].bytes)])[i - 1]
<1>1. Begin(list, start + further, i) = (start + further) + sum /\ Begin(list, further, i) = further + sum
      /\ Begin(list, 0, i) = 0 + sum
  BY DEF Begin
<1>2. \A s \in Nat : Begin(list, s, i) \in Nat
  BY Places
<1> HIDE DEF sum
<1>3. 0 + sum \in Nat /\ further + sum \in Nat
  BY <1>1, <1>2
<1>4. sum \in Nat
  <2> DEFINE sizes == [j \in DOMAIN list |-> Padded(list[j].bytes)]
  <2>1. sizes \in Seq(Nat) /\ Len(sizes) = Len(list)
    <3>1. Len(list) \in Nat /\ DOMAIN list = 1 .. Len(list)
          /\ \A j \in DOMAIN list : Padded(list[j].bytes) \in Nat
      BY PaddedIs DEF IsList
    <3>2. QED
      BY <3>1
  <2>2. i - 1 \in 0 .. Len(list)
    BY DEF IsList
  <2> HIDE DEF sizes
  <2>3. Sums(sizes)[i - 1] \in Nat
    BY <2>1, <2>2, SumsStep
  <2>4. QED
    BY <2>3 DEF sum, sizes
<1>5. QED
  BY <1>1, <1>4

(* A chunk of the file itself, and where it ends.                          *)
IsTop(chunks, riff, i, c) ==
  /\ chunks[i].bytes \in Nat \ {0}
  /\ c = [at |-> TopPlace(chunks, i), id |-> chunks[i].id, size |-> chunks[i].size,
          name |-> chunks[i].name, parent |-> 0]
  /\ c.at = TopPlace(chunks, i) /\ c.at \in Nat /\ HeaderSize.RIFF <= c.at
  /\ c.size = chunks[i].size /\ c.size \in Nat /\ c.id = chunks[i].id
  /\ c.name = chunks[i].name /\ c.parent = 0
  /\ TopPlace(chunks, i + 1) \in Nat /\ c.at < TopPlace(chunks, i + 1)
  /\ TopPlace(chunks, i + 1) <= TopPlace(chunks, Len(chunks) + 1)
  /\ \/ SeekEnd(c) = TopPlace(chunks, i + 1)
     \/ i = Len(chunks) /\ c.id = "data" /\ ChunkHeader + Padded(riff) <= SeekEnd(c)

LEMMA TopIs ==
  ASSUME NEW chunks, NEW riff, Sound(chunks, riff), NEW c \in Tops(chunks)
  PROVE  \E i \in 1 .. Len(chunks) : IsTop(chunks, riff, i, c)
<1>1. IsList(chunks) /\ HeaderSize.RIFF \in Nat
  BY DEF Sound, HeaderSize
<1>2. PICK i \in 1 .. Len(chunks) :
           /\ chunks[i].bytes \in Nat \ {0} /\ chunks[i].size \in Nat
           /\ c = [at |-> TopPlace(chunks, i), id |-> chunks[i].id, size |-> chunks[i].size,
                   name |-> chunks[i].name, parent |-> 0]
           /\ c.at = TopPlace(chunks, i) /\ c.at \in Nat
           /\ c.size = chunks[i].size /\ c.id = chunks[i].id /\ c.name = chunks[i].name /\ c.parent = 0
           /\ HeaderSize.RIFF <= c.at /\ TopPlace(chunks, i + 1) = c.at + Padded(chunks[i].bytes)
           /\ TopPlace(chunks, i + 1) <= TopPlace(chunks, Len(chunks) + 1)
           /\ TopPlace(chunks, i + 1) \in Nat
  BY <1>1, PlacedIs DEF Tops, TopPlace
<1>3. i \in DOMAIN chunks
  BY <1>1 DEF IsList
<1>4. Padded(chunks[i].bytes) \in Nat /\ chunks[i].bytes <= Padded(chunks[i].bytes)
  BY <1>2, PaddedIs
<1>5. c.at < TopPlace(chunks, i + 1)
  BY <1>2, <1>4
<1>6. SeekEnd(c) = c.at + ChunkHeader + Padded(chunks[i].size) /\ Padded(chunks[i].size) \in Nat
  BY <1>2, PaddedIs DEF SeekEnd
<1>7. \/ Padded(chunks[i].bytes) = ChunkHeader + Padded(chunks[i].size)
      \/ /\ i = Len(chunks) /\ chunks[i].id = "data"
         /\ ChunkHeader + Padded(riff) <= TopPlace(chunks, i) + ChunkHeader + Padded(chunks[i].size)
  BY <1>2, <1>3 DEF Sound, TopPlace
<1>8. \/ SeekEnd(c) = TopPlace(chunks, i + 1)
      \/ i = Len(chunks) /\ c.id = "data" /\ ChunkHeader + Padded(riff) <= SeekEnd(c)
  BY <1>2, <1>6, <1>7 DEF ChunkHeader
<1>9. c.size \in Nat
  BY <1>2
<1>10. IsTop(chunks, riff, i, c)
  BY <1>2, <1>5, <1>8, <1>9 DEF IsTop
<1>11. QED
  BY <1>10

(* A chunk inside a list, which ends where the list does or before.        *)
IsInner(chunks, i, list, start, k, c) ==
  /\ list = chunks[i].list /\ start = TopPlace(chunks, i) + HeaderSize.LIST
  /\ list[k].bytes \in Nat \ {0}
  /\ c = [at |-> Begin(list, start, k), id |-> list[k].id, size |-> list[k].size,
          name |-> list[k].name, parent |-> TopPlace(chunks, i)]
  /\ c.at = Begin(list, start, k) /\ c.at \in Nat /\ start <= c.at
  /\ c.size = list[k].size /\ c.size \in Nat /\ c.id = list[k].id
  /\ c.name = list[k].name /\ c.parent = TopPlace(chunks, i)
  /\ SeekEnd(c) = Begin(list, start, k + 1) /\ SeekEnd(c) \in Nat
  /\ c.at < SeekEnd(c) /\ SeekEnd(c) <= TopPlace(chunks, i + 1)

(* A list with chunks inside ends with them.                               *)
IsListChunk(chunks, i, list, start) ==
  /\ chunks[i].id = "LIST" /\ chunks[i].bytes \in Nat \ {0}
  /\ list = chunks[i].list /\ start = TopPlace(chunks, i) + HeaderSize.LIST
  /\ IsList(list) /\ start \in Nat /\ TopPlace(chunks, i) \in Nat
  /\ Begin(list, start, Len(list) + 1) = TopPlace(chunks, i + 1)
  /\ TopPlace(chunks, i + 1) = TopPlace(chunks, i) + ChunkHeader + Padded(chunks[i].size)

LEMMA ListIs ==
  ASSUME NEW chunks, NEW riff, Sound(chunks, riff), NEW i \in DOMAIN chunks,
         chunks[i].id = "LIST", chunks[i].bytes > 0
  PROVE  IsListChunk(chunks, i, chunks[i].list, TopPlace(chunks, i) + HeaderSize.LIST)
<1> DEFINE list == chunks[i].list
           P == TopPlace(chunks, i)
           start == P + HeaderSize.LIST
<1>1. IsList(chunks) /\ IsList(list) /\ HeaderSize.RIFF \in Nat /\ HeaderSize.LIST \in Nat
  BY DEF Sound, HeaderSize
<1>2. i \in 1 .. Len(chunks) /\ Len(chunks) \in Nat /\ i \in 1 .. Len(chunks) + 1
  BY <1>1 DEF IsList
<1>3. P \in Nat /\ start \in Nat
  <2>1. P \in Nat
    BY <1>1, <1>2, Places DEF TopPlace
  <2>2. QED
    BY <1>1, <2>1
<1> HIDE DEF P, list
<1>4. chunks[i].bytes \in Nat \ {0} /\ chunks[i].size \in Nat
  BY <1>1 DEF IsList
<1>5. Begin(list, HeaderSize.LIST, Len(list) + 1) = ChunkHeader + Padded(chunks[i].size)
  BY DEF Sound, list
<1>6. Padded(chunks[i].bytes) = ChunkHeader + Padded(chunks[i].size)
  <2>1. chunks[i].id # "data"
    OBVIOUS
  <2>2. QED
    BY <1>4, <2>1 DEF Sound
<1>7. TopPlace(chunks, i + 1) = P + ChunkHeader + Padded(chunks[i].size)
  <2>1. TopPlace(chunks, i + 1) = P + Padded(chunks[i].bytes)
    BY <1>1, <1>2, Places DEF TopPlace, P
  <2>2. Padded(chunks[i].size) \in Nat
    BY <1>4, PaddedIs
  <2>3. QED
    BY <1>3, <1>6, <2>1, <2>2 DEF ChunkHeader
<1>8. Begin(list, start, Len(list) + 1) = TopPlace(chunks, i + 1)
  <2>1. Len(list) + 1 \in 1 .. Len(list) + 1
    BY <1>1 DEF IsList
  <2>2. Begin(list, start, Len(list) + 1) = P + Begin(list, HeaderSize.LIST, Len(list) + 1)
    BY <1>1, <1>3, <2>1, BeginShift
  <2>3. Padded(chunks[i].size) \in Nat
    BY <1>4, PaddedIs
  <2>4. QED
    BY <1>3, <1>5, <1>7, <2>2, <2>3 DEF ChunkHeader
<1>9. QED
  BY <1>1, <1>3, <1>4, <1>7, <1>8 DEF list, P, IsListChunk

LEMMA InnerIs ==
  ASSUME NEW chunks, NEW riff, Sound(chunks, riff), NEW i \in DOMAIN chunks, NEW c \in Inners(chunks, i)
  PROVE  /\ IsListChunk(chunks, i, chunks[i].list, TopPlace(chunks, i) + HeaderSize.LIST)
         /\ \E k \in 1 .. Len(chunks[i].list) :
              IsInner(chunks, i, chunks[i].list, TopPlace(chunks, i) + HeaderSize.LIST, k, c)
<1> DEFINE list == chunks[i].list
           P == TopPlace(chunks, i)
           start == P + HeaderSize.LIST
<1>1. IsList(chunks) /\ IsList(list) /\ HeaderSize.RIFF \in Nat /\ HeaderSize.LIST \in Nat
  BY DEF Sound, HeaderSize
<1>2. i \in 1 .. Len(chunks) /\ Len(chunks) \in Nat /\ i \in 1 .. Len(chunks) + 1
  BY <1>1 DEF IsList
<1>3. P \in Nat /\ start \in Nat
  <2>1. P \in Nat
    BY <1>1, <1>2, Places DEF TopPlace
  <2>2. QED
    BY <1>1, <2>1
<1> HIDE DEF P, list
<1>4. PICK k \in 1 .. Len(list) :
        /\ list[k].bytes \in Nat \ {0} /\ list[k].size \in Nat
        /\ c = [at |-> Begin(list, start, k), id |-> list[k].id, size |-> list[k].size,
                name |-> list[k].name, parent |-> P]
        /\ c.at = Begin(list, start, k) /\ c.at \in Nat
        /\ c.size = list[k].size /\ c.id = list[k].id /\ c.name = list[k].name /\ c.parent = P
        /\ start <= c.at /\ Begin(list, start, k + 1) = c.at + Padded(list[k].bytes)
        /\ Begin(list, start, k + 1) <= Begin(list, start, Len(list) + 1)
        /\ Begin(list, start, k + 1) \in Nat
  <2>1. c \in Placed(list, start, P)
    BY DEF Inners, list, P
  <2> HIDE DEF start
  <2>2. QED
    BY <1>1, <1>3, <2>1, PlacedIs
<1>5. k \in DOMAIN list /\ list[k].bytes # 0
  BY <1>1, <1>4 DEF IsList
<1>6. chunks[i].id = "LIST" /\ chunks[i].bytes > 0
  BY <1>5 DEF Sound, list
<1>7. IsListChunk(chunks, i, list, start)
  BY <1>6, ListIs DEF list, P
<1>8. Padded(list[k].bytes) = ChunkHeader + Padded(list[k].size)
  BY <1>5, <1>6 DEF Sound, list
<1>9. Begin(list, start, Len(list) + 1) = TopPlace(chunks, i + 1)
  BY <1>7 DEF IsListChunk
<1>10. SeekEnd(c) = Begin(list, start, k + 1) /\ SeekEnd(c) \in Nat /\ c.at < SeekEnd(c)
  <2>1. SeekEnd(c) = c.at + ChunkHeader + Padded(list[k].size) /\ Padded(list[k].size) \in Nat
    BY <1>4, PaddedIs DEF SeekEnd
  <2>2. QED
    BY <1>4, <1>8, <2>1 DEF ChunkHeader
<1>11. SeekEnd(c) <= TopPlace(chunks, i + 1) /\ c.size \in Nat
  BY <1>4, <1>9, <1>10
<1>12. IsInner(chunks, i, list, start, k, c)
  BY <1>4, <1>10, <1>11 DEF IsInner, list, P
<1>13. QED
  BY <1>7, <1>12 DEF list, P
(* Chunks follow each other in the order they have in the list.            *)
LEMMA TopOrder ==
  ASSUME NEW chunks, IsList(chunks), NEW i \in 1 .. Len(chunks), NEW j \in 1 .. Len(chunks)
  PROVE  /\ TopPlace(chunks, i) \in Nat /\ HeaderSize.RIFF <= TopPlace(chunks, i)
         /\ TopPlace(chunks, i + 1) \in Nat
         /\ TopPlace(chunks, i + 1) <= TopPlace(chunks, Len(chunks) + 1)
         /\ i < j => TopPlace(chunks, i + 1) <= TopPlace(chunks, j)
         /\ TopPlace(chunks, i) <= TopPlace(chunks, i + 1)
<1>1. Len(chunks) \in Nat /\ HeaderSize.RIFF \in Nat
  BY DEF IsList, HeaderSize
<1>2. /\ i \in 1 .. Len(chunks) + 1 /\ i + 1 \in 1 .. Len(chunks) + 1 /\ 1 \in 1 .. Len(chunks) + 1
      /\ i \in 1 .. Len(chunks) + 1 /\ i + 1 \in i .. Len(chunks) + 1
      /\ Len(chunks) + 1 \in i + 1 .. Len(chunks) + 1
      /\ i < j => j \in i + 1 .. Len(chunks) + 1
  BY <1>1
<1>3. \A a \in 1 .. Len(chunks) + 1 : \A b \in a .. Len(chunks) + 1 : TopPlace(chunks, a) <= TopPlace(chunks, b)
  BY <1>1, Places DEF TopPlace
<1>4. TopPlace(chunks, 1) = HeaderSize.RIFF
      /\ \A a \in 1 .. Len(chunks) + 1 : TopPlace(chunks, a) \in Nat
  BY <1>1, Places DEF TopPlace
<1>5. QED
  BY <1>2, <1>3, <1>4

(* The two kinds of chunks of a file, by where they are.                   *)
LEMMA FileChunk ==
  ASSUME NEW chunks, NEW riff, Sound(chunks, riff), NEW c \in FileOf(chunks, riff).chunks
  PROVE  \/ \E i \in 1 .. Len(chunks) : IsTop(chunks, riff, i, c)
         \/ \E i \in 1 .. Len(chunks) :
              /\ IsListChunk(chunks, i, chunks[i].list, TopPlace(chunks, i) + HeaderSize.LIST)
              /\ \E k \in 1 .. Len(chunks[i].list) :
                   IsInner(chunks, i, chunks[i].list, TopPlace(chunks, i) + HeaderSize.LIST, k, c)
<1>1. c \in Tops(chunks) \/ \E i \in DOMAIN chunks : c \in Inners(chunks, i)
  BY FileHas
<1>2. DOMAIN chunks = 1 .. Len(chunks)
  BY DEF Sound, IsList
<1>3. QED
  BY <1>1, <1>2, TopIs, InnerIs

(* What the position of a chunk says about it.                             *)
LEMMA ChunkBounds ==
  ASSUME NEW chunks, NEW riff, Sound(chunks, riff), NEW i \in 1 .. Len(chunks), NEW c,
         \/ IsTop(chunks, riff, i, c)
         \/ /\ IsListChunk(chunks, i, chunks[i].list, TopPlace(chunks, i) + HeaderSize.LIST)
            /\ \E k \in 1 .. Len(chunks[i].list) :
                 IsInner(chunks, i, chunks[i].list, TopPlace(chunks, i) + HeaderSize.LIST, k, c)
  PROVE  /\ c.at \in Nat /\ c.size \in Nat /\ TopPlace(chunks, i) <= c.at
         /\ HeaderSize.RIFF <= c.at
         /\ c.at < TopPlace(chunks, i + 1) /\ TopPlace(chunks, i + 1) \in Nat
         /\ TopPlace(chunks, i + 1) <= TopPlace(chunks, Len(chunks) + 1)
         /\ chunks[i].bytes \in Nat \ {0}
<1>1. IsList(chunks)
  BY DEF Sound
<1>2. /\ TopPlace(chunks, i) \in Nat /\ HeaderSize.RIFF <= TopPlace(chunks, i)
      /\ TopPlace(chunks, i + 1) \in Nat
      /\ TopPlace(chunks, i + 1) <= TopPlace(chunks, Len(chunks) + 1)
  BY <1>1, TopOrder
<1>3. CASE IsTop(chunks, riff, i, c)
  BY <1>2, <1>3 DEF IsTop
<1>4. CASE ~IsTop(chunks, riff, i, c)
  <2> DEFINE list == chunks[i].list
             start == TopPlace(chunks, i) + HeaderSize.LIST
  <2>1. IsListChunk(chunks, i, list, start)
    BY <1>4
  <2>2. PICK k \in 1 .. Len(list) : IsInner(chunks, i, list, start, k, c)
    BY <1>4
  <2>3. start \in Nat /\ TopPlace(chunks, i) <= start
    BY <1>2 DEF HeaderSize
  <2> HIDE DEF list, start
  <2>4. /\ c.at \in Nat /\ start <= c.at /\ c.size \in Nat /\ SeekEnd(c) \in Nat
        /\ c.at < SeekEnd(c) /\ SeekEnd(c) <= TopPlace(chunks, i + 1)
    BY <2>2 DEF IsInner
  <2>5. chunks[i].bytes \in Nat \ {0}
    BY <2>1 DEF IsListChunk
  <2>6. HeaderSize.RIFF \in Nat
    BY DEF HeaderSize
  <2>7. QED
    BY <1>2, <2>3, <2>4, <2>5, <2>6, SMTT(30)
<1>5. QED
  BY <1>3, <1>4

LEMMA FileTypes ==
  ASSUME NEW chunks, NEW riff, Sound(chunks, riff)
  PROVE  LayoutTypes(FileOf(chunks, riff))
<1> DEFINE f == FileOf(chunks, riff)
<1>1. f.length = TopPlace(chunks, Len(chunks) + 1) /\ f.riff = riff
  BY FileHas
<1>2. f.length \in Nat /\ f.length >= HeaderSize.RIFF
  <2>1. IsList(chunks) /\ HeaderSize.RIFF \in Nat
    BY DEF Sound, HeaderSize
  <2>2. Len(chunks) + 1 \in 1 .. Len(chunks) + 1 /\ 1 \in 1 .. Len(chunks) + 1
    BY <2>1 DEF IsList
  <2>3. TopPlace(chunks, 1) = HeaderSize.RIFF /\ TopPlace(chunks, Len(chunks) + 1) \in Nat
        /\ TopPlace(chunks, 1) <= TopPlace(chunks, Len(chunks) + 1)
    BY <2>1, <2>2, Places DEF TopPlace
  <2>4. QED
    BY <1>1, <2>1, <2>3
<1>3. f.riff \in Nat /\ HeaderSize.RIFF < RiffEnd(f)
  BY <1>1 DEF Sound, RiffEnd
<1>4. ASSUME NEW c \in f.chunks
      PROVE  c.at \in Nat /\ c.size \in Nat /\ HeaderSize.RIFF <= c.at /\ c.at < f.length
  <2>1. PICK i \in 1 .. Len(chunks) :
          /\ c.at \in Nat /\ c.size \in Nat /\ HeaderSize.RIFF <= c.at
          /\ c.at < TopPlace(chunks, i + 1) /\ TopPlace(chunks, i + 1) \in Nat
          /\ TopPlace(chunks, i + 1) <= TopPlace(chunks, Len(chunks) + 1)
    BY FileChunk, ChunkBounds
  <2>2. QED
    BY <1>1, <1>2, <2>1
<1>5. f = [length |-> f.length, riff |-> f.riff, chunks |-> f.chunks]
  BY DEF FileOf
<1> HIDE DEF f
<1>6. LayoutTypes(f)
  BY <1>2, <1>3, <1>4, <1>5 DEF LayoutTypes
<1>7. QED
  BY <1>6 DEF f

(* Two chunks of the file itself, or of one list.                          *)
LEMMA TopsApart ==
  ASSUME NEW chunks, NEW riff, Sound(chunks, riff), NEW c, NEW d,
         NEW i \in 1 .. Len(chunks), NEW j \in 1 .. Len(chunks),
         IsTop(chunks, riff, i, c), IsTop(chunks, riff, j, d)
  PROVE  /\ c.at = d.at => c = d
         /\ c.at < d.at => SeekEnd(c) <= d.at
<1>1. IsList(chunks) /\ HeaderSize.RIFF \in Nat /\ Len(chunks) \in Nat
  BY DEF Sound, HeaderSize, IsList
<1>2. chunks[i].bytes > 0 /\ chunks[j].bytes > 0
  <2>1. chunks[i].bytes \in Nat \ {0} /\ chunks[j].bytes \in Nat \ {0}
    BY Zenon DEF IsTop
  <2>2. QED
    BY <2>1
<1>3. /\ i < j => TopPlace(chunks, i + 1) <= TopPlace(chunks, j)
      /\ TopPlace(chunks, i) = TopPlace(chunks, j) => i = j
      /\ TopPlace(chunks, i) < TopPlace(chunks, j) => i < j
  BY <1>1, <1>2, PlacedApart DEF TopPlace
<1>4. c.at = TopPlace(chunks, i) /\ d.at = TopPlace(chunks, j)
  BY DEF IsTop
<1>5. c.at = d.at => c = d
  BY <1>3, <1>4 DEF IsTop
<1>6. ASSUME c.at < d.at
      PROVE  SeekEnd(c) <= d.at
  <2>1. i < j
    BY <1>3, <1>4, <1>6
  <2>2. i # Len(chunks)
    BY <1>1, <2>1
  <2>3. SeekEnd(c) = TopPlace(chunks, i + 1)
    BY <2>2 DEF IsTop
  <2>4. QED
    BY <1>3, <1>4, <2>1, <2>3
<1>7. QED
  BY <1>5, <1>6

LEMMA InnersApart ==
  ASSUME NEW chunks, NEW i, NEW c, NEW d, NEW list, NEW start, IsListChunk(chunks, i, list, start),
         NEW k \in 1 .. Len(list), NEW m \in 1 .. Len(list),
         IsInner(chunks, i, list, start, k, c), IsInner(chunks, i, list, start, m, d)
  PROVE  /\ c.at = d.at => c = d
         /\ c.at < d.at => SeekEnd(c) <= d.at
<1>1. IsList(list) /\ start \in Nat
  BY DEF IsListChunk
<1>2. list[k].bytes > 0 /\ list[m].bytes > 0
  <2>1. list[k].bytes \in Nat \ {0} /\ list[m].bytes \in Nat \ {0}
    BY Zenon DEF IsInner
  <2>2. QED
    BY <2>1
<1>3. /\ k < m => Begin(list, start, k + 1) <= Begin(list, start, m)
      /\ Begin(list, start, k) = Begin(list, start, m) => k = m
      /\ Begin(list, start, k) < Begin(list, start, m) => k < m
  BY <1>1, <1>2, PlacedApart
<1>4. c.at = Begin(list, start, k) /\ d.at = Begin(list, start, m) /\ SeekEnd(c) = Begin(list, start, k + 1)
  BY DEF IsInner
<1>5. c.at = d.at => c = d
  BY <1>3, <1>4 DEF IsInner
<1>6. QED
  BY <1>3, <1>4, <1>5

(* A chunk that begins a list is not inside one.                           *)
LEMMA TopNotInner ==
  ASSUME NEW chunks, NEW riff, Sound(chunks, riff), NEW c, NEW d,
         NEW i \in 1 .. Len(chunks), NEW j \in 1 .. Len(chunks),
         IsTop(chunks, riff, i, c), NEW list, NEW start, IsListChunk(chunks, j, list, start),
         NEW k \in 1 .. Len(list), IsInner(chunks, j, list, start, k, d)
  PROVE  c.at # d.at /\ c.parent # d.parent
<1>1. IsList(chunks) /\ HeaderSize.RIFF = 12 /\ HeaderSize.LIST = 12 /\ Len(chunks) \in Nat
  BY DEF Sound, HeaderSize, IsList
<1>2. c.at = TopPlace(chunks, i) /\ c.at \in Nat /\ c.parent = 0
  BY DEF IsTop
<1>3. d.at \in Nat /\ start <= d.at /\ d.parent = TopPlace(chunks, j) /\ SeekEnd(d) \in Nat
      /\ d.at < SeekEnd(d) /\ SeekEnd(d) <= TopPlace(chunks, j + 1)
  BY DEF IsInner
<1>4. start = TopPlace(chunks, j) + 12
  BY <1>1 DEF IsListChunk
<1>5. /\ TopPlace(chunks, j) \in Nat /\ 12 <= TopPlace(chunks, j) /\ TopPlace(chunks, j + 1) \in Nat
      /\ i < j => TopPlace(chunks, i + 1) <= TopPlace(chunks, j)
      /\ j < i => TopPlace(chunks, j + 1) <= TopPlace(chunks, i)
      /\ TopPlace(chunks, i) <= TopPlace(chunks, i + 1) /\ TopPlace(chunks, i) \in Nat
      /\ TopPlace(chunks, i + 1) \in Nat
  BY <1>1, TopOrder
<1>6. c.parent # d.parent
  BY <1>2, <1>3, <1>5
<1>7. i < j \/ i = j \/ j < i
  OBVIOUS
<1>8. c.at # d.at
  BY <1>2, <1>3, <1>4, <1>5, <1>7
<1>9. QED
  BY <1>6, <1>8

(* Chunks inside different lists.                                          *)
LEMMA ListsApart ==
  ASSUME NEW chunks, NEW riff, Sound(chunks, riff), NEW c, NEW d,
         NEW i \in 1 .. Len(chunks), NEW j \in 1 .. Len(chunks), i < j,
         NEW list, NEW start, IsListChunk(chunks, i, list, start),
         NEW other, NEW begin, IsListChunk(chunks, j, other, begin),
         NEW k \in 1 .. Len(list), IsInner(chunks, i, list, start, k, c),
         NEW m \in 1 .. Len(other), IsInner(chunks, j, other, begin, m, d)
  PROVE  c.at < d.at /\ c.parent # d.parent
<1>1. IsList(chunks) /\ HeaderSize.RIFF = 12 /\ HeaderSize.LIST = 12 /\ Len(chunks) \in Nat
  BY DEF Sound, HeaderSize, IsList
<1>2. /\ c.at \in Nat /\ SeekEnd(c) \in Nat /\ c.at < SeekEnd(c)
      /\ SeekEnd(c) <= TopPlace(chunks, i + 1) /\ c.parent = TopPlace(chunks, i) /\ start <= c.at
  BY DEF IsInner
<1>3. d.at \in Nat /\ begin <= d.at /\ d.parent = TopPlace(chunks, j)
  BY DEF IsInner
<1>4. begin = TopPlace(chunks, j) + 12 /\ start = TopPlace(chunks, i) + 12
  BY <1>1 DEF IsListChunk
<1>5. /\ TopPlace(chunks, i) \in Nat /\ TopPlace(chunks, i + 1) \in Nat /\ TopPlace(chunks, j) \in Nat
      /\ TopPlace(chunks, i + 1) <= TopPlace(chunks, j)
  BY <1>1, TopOrder
<1> DEFINE P == TopPlace(chunks, i)
           Q == TopPlace(chunks, j)
           R == TopPlace(chunks, i + 1)
           e == SeekEnd(c)
<1>6. c.at < e /\ e <= R /\ start <= c.at /\ start = P + 12 /\ R <= Q /\ begin <= d.at /\ begin = Q + 12
      /\ P \in Nat /\ Q \in Nat /\ R \in Nat /\ e \in Nat /\ c.at \in Nat /\ d.at \in Nat
      /\ c.parent = P /\ d.parent = Q
  BY <1>2, <1>3, <1>4, <1>5
<1> HIDE DEF P, Q, R, e
<1>7. c.at < d.at /\ P < Q
  BY <1>6
<1>8. QED
  BY <1>6, <1>7

LEMMA FileApart ==
  ASSUME NEW chunks, NEW riff, Sound(chunks, riff)
  PROVE  Apart(FileOf(chunks, riff))
<1> DEFINE list(i) == chunks[i].list
           start(i) == TopPlace(chunks, i) + HeaderSize.LIST
           f == FileOf(chunks, riff)
<1>1. ASSUME NEW c \in f.chunks, NEW d \in f.chunks
      PROVE  /\ c.at = d.at => c = d
             /\ (c.parent = d.parent /\ c.at < d.at) => SeekEnd(c) <= d.at
  <2>0. c.at \in Nat /\ d.at \in Nat
    BY FileTypes DEF LayoutTypes
  <2>1. CASE \E i \in 1 .. Len(chunks) : IsTop(chunks, riff, i, c)
    <3>1. PICK i \in 1 .. Len(chunks) : IsTop(chunks, riff, i, c)
      BY <2>1
    <3>2. CASE \E j \in 1 .. Len(chunks) : IsTop(chunks, riff, j, d)
      BY <3>1, <3>2, TopsApart
    <3>3. CASE ~\E j \in 1 .. Len(chunks) : IsTop(chunks, riff, j, d)
      <4>1. PICK j \in 1 .. Len(chunks) :
              /\ IsListChunk(chunks, j, list(j), start(j))
              /\ \E m \in 1 .. Len(list(j)) : IsInner(chunks, j, list(j), start(j), m, d)
        BY <3>3, FileChunk
      <4>2. c.at # d.at /\ c.parent # d.parent
        BY <3>1, <4>1, TopNotInner
      <4>3. QED
        BY <4>2
    <3>4. QED
      BY <3>2, <3>3
  <2>2. CASE ~\E i \in 1 .. Len(chunks) : IsTop(chunks, riff, i, c)
    <3>1. PICK i \in 1 .. Len(chunks) :
            /\ IsListChunk(chunks, i, list(i), start(i))
            /\ \E k \in 1 .. Len(list(i)) : IsInner(chunks, i, list(i), start(i), k, c)
      BY <2>2, FileChunk
    <3>2. CASE \E j \in 1 .. Len(chunks) : IsTop(chunks, riff, j, d)
      <4>1. c.at # d.at /\ c.parent # d.parent
        BY <3>1, <3>2, TopNotInner
      <4>2. QED
        BY <4>1
    <3>3. CASE ~\E j \in 1 .. Len(chunks) : IsTop(chunks, riff, j, d)
      <4>1. PICK j \in 1 .. Len(chunks) :
              /\ IsListChunk(chunks, j, list(j), start(j))
              /\ \E m \in 1 .. Len(list(j)) : IsInner(chunks, j, list(j), start(j), m, d)
        BY <3>3, FileChunk
      <4>2. CASE i = j
        <5>1. PICK k \in 1 .. Len(list(i)) : IsInner(chunks, i, list(i), start(i), k, c)
          BY <3>1
        <5>2. PICK m \in 1 .. Len(list(i)) : IsInner(chunks, i, list(i), start(i), m, d)
          BY <4>1, <4>2
        <5> HIDE DEF list, start
        <5>3. QED
          BY <3>1, <5>1, <5>2, InnersApart
      <4>3. CASE i < j
        <5>1. c.at < d.at /\ c.parent # d.parent
          BY <3>1, <4>1, <4>3, ListsApart
        <5>2. QED
          BY <2>0, <5>1
      <4>4. CASE j < i
        <5>1. d.at < c.at /\ c.parent # d.parent
          BY <3>1, <4>1, <4>4, ListsApart
        <5>2. QED
          BY <2>0, <5>1
      <4>5. QED
        BY <4>2, <4>3, <4>4
    <3>4. QED
      BY <3>2, <3>3
  <2>3. QED
    BY <2>1, <2>2
<1> HIDE DEF f
<1>2. Apart(f)
  BY <1>1 DEF Apart
<1>3. QED
  BY <1>2 DEF f

LEMMA FileFollows ==
  ASSUME NEW chunks, NEW riff, Sound(chunks, riff)
  PROVE  TopsFollow(FileOf(chunks, riff)) /\ InnersFollow(FileOf(chunks, riff))
<1> DEFINE f == FileOf(chunks, riff)
           n == Len(chunks)
           list(i) == chunks[i].list
           start(i) == TopPlace(chunks, i) + HeaderSize.LIST
<1>0. f.length = TopPlace(chunks, n + 1)
      /\ \A c : c \in f.chunks <=> c \in Tops(chunks) \/ \E i \in DOMAIN chunks : c \in Inners(chunks, i)
  BY FileHas
<1>1. IsList(chunks) /\ HeaderSize.RIFF = 12 /\ HeaderSize.LIST = 12 /\ n \in Nat /\ DOMAIN chunks = 1 .. n
  BY DEF Sound, HeaderSize, IsList
<1>2. Apart(f) /\ LayoutTypes(f)
  BY FileApart, FileTypes
<1>3. \A c \in f.chunks :
         \/ \E i \in 1 .. n : IsTop(chunks, riff, i, c)
         \/ \E i \in 1 .. n : /\ IsListChunk(chunks, i, list(i), start(i))
                              /\ \E k \in 1 .. Len(list(i)) : IsInner(chunks, i, list(i), start(i), k, c)
  BY FileChunk
<1> HIDE DEF f
<1>4. ASSUME NEW i \in 1 .. n + 1
      PROVE  Follow(f, TopPlace(chunks, i))
  <2>1. TopPlace(chunks, i) = TopPlace(chunks, n + 1)
        \/ \E d \in Tops(chunks) : d.at = TopPlace(chunks, i)
    BY <1>1, PlacedFollow DEF TopPlace, Tops
  <2>2. CASE TopPlace(chunks, i) = TopPlace(chunks, n + 1)
    <3>1. TopPlace(chunks, i) \in Nat
      BY <1>1, Places DEF TopPlace
    <3>2. f.length <= TopPlace(chunks, i)
      BY <1>0, <2>2, <3>1
    <3>3. QED
      BY <3>2 DEF Follow
  <2>3. CASE \E d \in Tops(chunks) : d.at = TopPlace(chunks, i)
    <3>1. PICK d \in Tops(chunks) : d.at = TopPlace(chunks, i)
      BY <2>3
    <3>2. d.parent = 0
      BY <3>1, TopIs DEF IsTop
    <3>3. d \in f.chunks
      BY <1>0
    <3>4. QED
      BY <3>1, <3>2, <3>3 DEF Follow, TopAt
  <2>4. QED
    BY <2>1, <2>2, <2>3
<1>5. Follow(f, HeaderSize.RIFF)
  <2>1. 1 \in 1 .. n + 1 /\ TopPlace(chunks, 1) = HeaderSize.RIFF
    BY <1>1, Places DEF TopPlace
  <2>2. QED
    BY <1>4, <2>1
<1>6. ASSUME NEW c \in f.chunks, c.parent = 0
      PROVE  /\ \E i \in 1 .. n : IsTop(chunks, riff, i, c)
             /\ Follow(f, SeekEnd(c)) \/ (c.id = "data" /\ RiffEnd(f) <= SeekEnd(c))
  <2>1. PICK i \in 1 .. n : IsTop(chunks, riff, i, c)
    <3>1. ASSUME NEW i \in 1 .. n, NEW k \in 1 .. Len(list(i)),
                 IsInner(chunks, i, list(i), start(i), k, c)
          PROVE  FALSE
      <4>1. c.parent = TopPlace(chunks, i) /\ TopPlace(chunks, i) \in Nat /\ 12 <= TopPlace(chunks, i)
        BY <1>1, <3>1, TopOrder DEF IsInner
      <4>2. QED
        BY <1>6, <4>1
    <3>2. QED
      BY <1>3, <3>1
  <2>2. CASE SeekEnd(c) = TopPlace(chunks, i + 1)
    <3>1. i + 1 \in 1 .. n + 1
      BY <1>1
    <3>2. QED
      BY <1>4, <2>1, <2>2, <3>1
  <2>3. CASE c.id = "data" /\ ChunkHeader + Padded(riff) <= SeekEnd(c)
    <3>1. f.riff = riff
      BY FileHas DEF f
    <3>2. QED
      BY <2>1, <2>3, <3>1 DEF RiffEnd
  <2>4. QED
    BY <2>1, <2>2, <2>3 DEF IsTop
<1>7. TopsFollow(f)
  BY <1>5, <1>6 DEF TopsFollow
<1>8. ASSUME NEW i \in 1 .. n, IsListChunk(chunks, i, list(i), start(i)), NEW c,
             IsTop(chunks, riff, i, c), NEW k \in 1 .. Len(list(i)) + 1
      PROVE  FollowIn(f, c, Begin(list(i), start(i), k))
  <2> DEFINE p == Begin(list(i), start(i), k)
             end == TopPlace(chunks, i + 1)
  <2>1. /\ IsList(list(i)) /\ start(i) \in Nat /\ TopPlace(chunks, i) \in Nat
        /\ chunks[i].id = "LIST"
        /\ Begin(list(i), start(i), Len(list(i)) + 1) = end
        /\ end = TopPlace(chunks, i) + ChunkHeader + Padded(chunks[i].size)
    BY <1>8 DEF IsListChunk
  <2>2. SeekEnd(c) = end /\ c.at = TopPlace(chunks, i)
    BY <1>8, <2>1 DEF IsTop, SeekEnd
  <2>3. p = end \/ \E d \in Placed(list(i), start(i), TopPlace(chunks, i)) : d.at = p
    <3> HIDE DEF list, start
    <3>1. QED
      BY <2>1, PlacedFollow
  <2>4. CASE p = end
    BY <2>2, <2>4 DEF FollowIn
  <2>5. CASE \E d \in Placed(list(i), start(i), TopPlace(chunks, i)) : d.at = p
    <3>1. PICK d \in Placed(list(i), start(i), TopPlace(chunks, i)) : d.at = p
      BY <2>5
    <3>2. i \in DOMAIN chunks /\ d \in Inners(chunks, i)
      BY <1>1 DEF Inners
    <3>3. d \in f.chunks
      BY <1>0, <3>2
    <3>4. PICK m \in 1 .. Len(list(i)) : IsInner(chunks, i, list(i), start(i), m, d)
      BY <3>2, InnerIs
    <3>5. d.parent = TopPlace(chunks, i) /\ d.at \in Nat /\ d.at < SeekEnd(d) /\ SeekEnd(d) <= end
          /\ SeekEnd(d) \in Nat
      BY <3>4 DEF IsInner
    <3>6. end \in Nat
      BY <1>8 DEF IsTop
    <3> HIDE DEF p, end
    <3>7. p < SeekEnd(c)
      BY <2>2, <3>1, <3>5, <3>6
    <3>8. InnerAt(f, c, p)
      BY <2>2, <3>1, <3>3, <3>5 DEF InnerAt
    <3>9. QED
      BY <3>7, <3>8 DEF FollowIn, p
  <2>6. QED
    BY <2>3, <2>4, <2>5
<1>9. ASSUME NEW c \in f.chunks, c.parent = 0, c.id = "LIST"
      PROVE  FollowIn(f, c, c.at + HeaderSize.LIST)
  <2>1. PICK i \in 1 .. n : IsTop(chunks, riff, i, c)
    BY <1>6, <1>9
  <2>2. chunks[i].id = "LIST" /\ chunks[i].bytes > 0 /\ c.at = TopPlace(chunks, i)
    BY <1>9, <2>1 DEF IsTop
  <2>3. IsListChunk(chunks, i, list(i), start(i))
    BY <1>1, <2>2, ListIs
  <2>4. IsList(list(i)) /\ start(i) \in Nat
    BY <2>3 DEF IsListChunk
  <2>5. 1 \in 1 .. Len(list(i)) + 1 /\ Begin(list(i), start(i), 1) = start(i)
    <3> HIDE DEF list, start
    <3>1. Begin(list(i), start(i), 1) = start(i)
      BY <2>4, Places
    <3>2. QED
      BY <2>4, <3>1 DEF IsList
  <2>6. QED
    BY <1>8, <2>1, <2>2, <2>3, <2>5
<1>10. ASSUME NEW c \in f.chunks, NEW d \in f.chunks, d.parent = c.at
       PROVE  FollowIn(f, c, SeekEnd(d)) /\ c.at < d.at
  <2>1. c.at \in Nat /\ 12 <= c.at
    BY <1>1, <1>2 DEF LayoutTypes
  <2>2. PICK i \in 1 .. n : /\ IsListChunk(chunks, i, list(i), start(i))
                            /\ \E k \in 1 .. Len(list(i)) : IsInner(chunks, i, list(i), start(i), k, d)
    <3>1. ASSUME NEW i \in 1 .. n, IsTop(chunks, riff, i, d)
          PROVE  FALSE
      BY <1>10, <2>1, <3>1 DEF IsTop
    <3>2. QED
      BY <1>3, <3>1
  <2>3. PICK k \in 1 .. Len(list(i)) : IsInner(chunks, i, list(i), start(i), k, d)
    BY <2>2
  <2>4. c.at = TopPlace(chunks, i)
    BY <1>10, <2>3 DEF IsInner
  <2>5. IsTop(chunks, riff, i, c)
    <3> DEFINE t == [at |-> Begin(chunks, HeaderSize.RIFF, i), id |-> chunks[i].id, size |-> chunks[i].size,
                     name |-> chunks[i].name, parent |-> 0]
    <3>1. chunks[i].bytes > 0
      BY <2>2 DEF IsListChunk
    <3>2. t \in Tops(chunks)
      BY <1>1, <3>1, PlacedThere DEF Tops
    <3>3. t.at = TopPlace(chunks, i)
      BY DEF TopPlace
    <3> HIDE DEF t
    <3>4. t \in f.chunks
      BY <1>0, <3>2
    <3>5. t = c
      BY <1>2, <2>4, <3>3, <3>4 DEF Apart
    <3>6. PICK j \in 1 .. n : IsTop(chunks, riff, j, t)
      BY <3>2, TopIs
    <3>7. TopPlace(chunks, j) = TopPlace(chunks, i) /\ chunks[j].bytes > 0
      BY <3>3, <3>6 DEF IsTop
    <3>8. j = i
      BY <1>1, <3>1, <3>7, PlacedApart DEF TopPlace
    <3>9. QED
      BY <3>5, <3>6, <3>8
  <2>6. SeekEnd(d) = Begin(list(i), start(i), k + 1) /\ start(i) <= d.at /\ d.at \in Nat
    BY <2>3 DEF IsInner
  <2>7. k + 1 \in 1 .. Len(list(i)) + 1
    <3>1. Len(list(i)) \in Nat
      BY <2>2 DEF IsListChunk, IsList
    <3>2. QED
      BY <3>1
  <2>8. FollowIn(f, c, SeekEnd(d))
    BY <1>8, <2>2, <2>5, <2>6, <2>7
  <2>9. c.at < d.at
    BY <1>1, <2>1, <2>4, <2>6
  <2>10. QED
    BY <2>8, <2>9
<1>11. InnersFollow(f)
  BY <1>9, <1>10 DEF InnersFollow
<1>12. QED
  BY <1>7, <1>11 DEF f

(* A file that is written from chunks is laid out.                         *)
LEMMA FileLaidOut ==
  ASSUME NEW chunks, NEW riff, Sound(chunks, riff)
  PROVE  Layout(FileOf(chunks, riff))
BY FileTypes, FileApart, FileFollows DEF Layout

LEMMA CutRecord ==
  ASSUME NEW length, NEW riff, NEW chunks, NEW n
  PROVE  Cut([length |-> length, riff |-> riff, chunks |-> chunks], n)
           = [length |-> n, riff |-> riff, chunks |-> {c \in chunks : c.at < n}]
<1> DEFINE f == [length |-> length, riff |-> riff, chunks |-> chunks]
           left == {c \in chunks : c.at < n}
<1>1. f.chunks = chunks
  OBVIOUS
<1>2. Cut(f, n) = [f EXCEPT !.length = n, !.chunks = left]
  BY <1>1, Zenon DEF Cut
<1> HIDE DEF left
<1>3. Cut(f, n) = [length |-> n, riff |-> riff, chunks |-> left]
  BY <1>2
<1>4. QED
  BY <1>3 DEF left

(* What is left of a file is laid out as the file was.                     *)
LEMMA LayoutCut ==
  ASSUME NEW f, Layout(f), NEW length \in Nat, HeaderSize.RIFF <= length, length < f.length
  PROVE  Layout(Cut(f, length))
<1> DEFINE g == Cut(f, length)
<1>1. f = [length |-> f.length, riff |-> f.riff, chunks |-> f.chunks]
  BY DEF Layout, LayoutTypes
<1>2. g = [length |-> length, riff |-> f.riff, chunks |-> {c \in f.chunks : c.at < length}]
  <2> DEFINE a == f.length
             b == f.riff
             chunks == f.chunks
  <2> HIDE DEF a, b, chunks
  <2>1. f = [length |-> a, riff |-> b, chunks |-> chunks]
    BY <1>1 DEF a, b, chunks
  <2>2. Cut([length |-> a, riff |-> b, chunks |-> chunks], length)
          = [length |-> length, riff |-> b, chunks |-> {c \in chunks : c.at < length}]
    BY CutRecord
  <2>3. QED
    BY <2>1, <2>2, Zenon DEF b, chunks
<1> HIDE DEF g
<1>3. g.length = length /\ g.riff = f.riff /\ RiffEnd(g) = RiffEnd(f)
      /\ g.chunks = {c \in f.chunks : c.at < length}
      /\ g = [length |-> g.length, riff |-> g.riff, chunks |-> g.chunks]
  BY <1>2 DEF RiffEnd
<1>4. f.length \in Nat /\ \A c \in f.chunks :
         c.at \in Nat /\ c.at < f.length /\ SeekEnd(c) \in Nat
  <2>1. f.length \in Nat /\ \A c \in f.chunks : c.at \in Nat /\ c.at < f.length /\ c.size \in Nat
    BY DEF Layout, LayoutTypes
  <2>2. \A c \in f.chunks : Padded(c.size) \in Nat
    BY <2>1, PaddedIs
  <2>3. QED
    BY <2>1, <2>2 DEF SeekEnd, ChunkHeader
<1>5. LayoutTypes(g)
  BY <1>3 DEF Layout, LayoutTypes
<1>6. Apart(g)
  BY <1>3 DEF Layout, Apart
<1>7. ASSUME NEW d \in f.chunks
      PROVE  d \in g.chunks \/ g.length <= d.at
  BY <1>3, <1>4
<1>8. ASSUME NEW p \in Nat, f.length <= p
      PROVE  g.length <= p
  BY <1>3, <1>4, <1>8
<1>9. ASSUME NEW p \in Nat, Follow(f, p)
      PROVE  Follow(g, p)
  BY <1>7, <1>8, <1>9 DEF Follow, TopAt
<1>10. ASSUME NEW c, NEW p \in Nat, FollowIn(f, c, p)
       PROVE  FollowIn(g, c, p)
  BY <1>7, <1>8, <1>10 DEF FollowIn, InnerAt
<1>11. TopsFollow(g)
  <2>1. HeaderSize.RIFF \in Nat /\ \A c \in g.chunks : c \in f.chunks /\ SeekEnd(c) \in Nat
    BY <1>3, <1>4 DEF HeaderSize
  <2>2. TopsFollow(f)
    BY DEF Layout
  <2>3. QED
    BY <1>3, <1>9, <2>1, <2>2 DEF TopsFollow
<1>12. InnersFollow(g)
  <2>1. \A c \in g.chunks : c \in f.chunks /\ SeekEnd(c) \in Nat /\ c.at + HeaderSize.LIST \in Nat
    BY <1>3, <1>4 DEF HeaderSize
  <2>2. InnersFollow(f)
    BY DEF Layout
  <2>3. QED
    BY <1>3, <1>10, <2>1, <2>2 DEF InnersFollow
<1>13. Layout(g)
  BY <1>5, <1>6, <1>11, <1>12 DEF Layout
<1>14. QED
  BY <1>13 DEF g

(* A file of WavFormat has two chunks; a pad byte may be missing.          *)
LEMMA LayoutFormat ==
  ASSUME NEW size \in Nat
  PROVE  Layout(FormatFile(size))
<1> DEFINE f == FormatFile(size)
           fmt == [at |-> 12, id |-> "fmt", size |-> 16, name |-> 0, parent |-> 0]
           data == [at |-> 36, id |-> "data", size |-> size, name |-> 0, parent |-> 0]
<1>1. /\ f = [length |-> f.length, riff |-> f.riff, chunks |-> f.chunks]
      /\ f.length = 44 + size /\ f.riff = 20 + 16 + size - 8 /\ f.chunks = {fmt, data}
  BY DEF FormatFile, RiffHeader, WaveFormatEx, WavFileHeader
<1>2. /\ fmt.at = 12 /\ fmt.size = 16 /\ fmt.parent = 0 /\ fmt.id = "fmt"
      /\ data.at = 36 /\ data.size = size /\ data.parent = 0 /\ data.id = "data"
  OBVIOUS
<1>3. Padded(16) = 16 /\ Padded(size) \in Nat /\ size <= Padded(size)
      /\ Padded(28 + size) = 28 + Padded(size)
  <2>1. (28 + size) % 2 = size % 2
    OBVIOUS
  <2>2. QED
    BY <2>1, PaddedIs DEF Padded
<1> HIDE DEF f, fmt, data
<1>4. SeekEnd(fmt) = 36 /\ SeekEnd(data) = 44 + Padded(size) /\ RiffEnd(f) = 36 + Padded(size)
  <2>1. f.riff = 28 + size
    BY <1>1
  <2>2. QED
    BY <1>2, <1>3, <2>1 DEF SeekEnd, RiffEnd, ChunkHeader
<1>5. HeaderSize.RIFF = 12
  BY DEF HeaderSize
<1>6. LayoutTypes(f)
  BY <1>1, <1>2, <1>3, <1>4, <1>5 DEF LayoutTypes
<1>7. Apart(f)
  BY <1>1, <1>2, <1>4 DEF Apart
<1>8. Follow(f, 12) /\ Follow(f, 36)
  BY <1>1, <1>2 DEF Follow, TopAt
<1>9. TopsFollow(f)
  <2>1. RiffEnd(f) <= SeekEnd(data)
    BY <1>3, <1>4
  <2>2. QED
    BY <1>1, <1>2, <1>4, <1>5, <1>8, <2>1 DEF TopsFollow
<1>10. InnersFollow(f)
  BY <1>1, <1>2 DEF InnersFollow
<1>11. QED
  BY <1>6, <1>7, <1>9, <1>10 DEF Layout, f

-----------------------------------------------------------------------------
(* The file that WavFileSimplePcm writes.                                  *)

SimpleChunks(samples) ==
  <<WrittenChunk(FmtChunk, <<>>), WrittenChunk(CueChunk, <<>>),
    WrittenChunk(AssocListChunk, WrittenAssoc), WrittenData(samples)>>

SimpleFile(samples) == FileOf(SimpleChunks(samples), RiffSize - ChunkHeader)

CueBytes == IF points = 0 THEN 0 ELSE 12 + 24 * points

ListBytes == IF assoc = <<>> THEN 0 ELSE 12 + ContentsSize(assoc)

DataBytes == IF DataSize(format, pieces) = 0 THEN 0 ELSE ChunkHeader + DataSize(format, pieces)

(* Where the samples are, after the format, the cue points and the list.   *)
DataAt == 36 + CueBytes + ListBytes

LEMMA GetSizeIs ==
  ASSUME NEW c, c.id \in {"labl", "file"}, c.data \in Nat \ {0}
  PROVE  /\ getSize(c) = HeaderSize[c.id] + c.data
         /\ HeaderSize[c.id] \in Nat /\ HeaderSize[c.id] >= 12
         /\ getSize(c) \in Nat /\ getSize(c) - ChunkHeader \in Nat /\ getSize(c) > 12
<1>1. HeaderSize["labl"] = 12 /\ HeaderSize["file"] = 16
  BY DEF HeaderSize
<1>2. MinSize(c.id) = HeaderSize[c.id]
  BY DEF MinSize
<1>3. HeaderSize[c.id] \in {12, 16}
  BY <1>1
<1>4. getSize(c) = HeaderSize[c.id] + c.data
  BY <1>2, <1>3 DEF getSize
<1>5. QED
  BY <1>3, <1>4 DEF ChunkHeader

(* What the list of labels and files holds.                                *)
LEMMA AssocIs ==
  ASSUME WriterTypes
  PROVE  /\ IsList(WrittenAssoc) /\ Len(WrittenAssoc) = Len(assoc) /\ Len(assoc) \in Nat
         /\ DOMAIN assoc = 1 .. Len(assoc)
         /\ \A i \in 1 .. Len(assoc) :
              /\ assoc[i].id \in {"labl", "file"} /\ assoc[i].data \in Nat \ {0} /\ assoc[i].name \in Keys
              /\ WrittenAssoc[i].id = assoc[i].id /\ WrittenAssoc[i].name = assoc[i].name
              /\ WrittenAssoc[i].bytes = getSize(assoc[i]) /\ WrittenAssoc[i].bytes \in Nat \ {0}
              /\ WrittenAssoc[i].size = getSize(assoc[i]) - ChunkHeader /\ WrittenAssoc[i].size \in Nat
<1>1. /\ assoc \in Seq([id : {"labl", "file"}, data : Nat \ {0}, name : Keys])
  BY DEF WriterTypes
<1>2. Len(assoc) \in Nat /\ DOMAIN assoc = 1 .. Len(assoc)
  BY <1>1
<1>3. \A i \in 1 .. Len(assoc) :
        assoc[i].id \in {"labl", "file"} /\ assoc[i].data \in Nat \ {0} /\ assoc[i].name \in Keys
  <2> DEFINE S == [id : {"labl", "file"}, data : Nat \ {0}, name : Keys]
  <2>0. assoc \in Seq(S)
    BY <1>1
  <2> HIDE DEF S
  <2>1. \A i \in 1 .. Len(assoc) : assoc[i] \in S
    BY <2>0
  <2> USE DEF S
  <2>2. QED
    BY <2>1, Zenon
<1>4. WrittenAssoc = [i \in 1 .. Len(assoc) |-> WrittenChunk(assoc[i], <<>>)]
  BY <1>2 DEF WrittenAssoc
<1>5. Len(WrittenAssoc) = Len(assoc) /\ DOMAIN WrittenAssoc = 1 .. Len(assoc)
  BY <1>2, <1>4
<1>6. ASSUME NEW i \in 1 .. Len(assoc)
      PROVE  /\ WrittenAssoc[i].id = assoc[i].id /\ WrittenAssoc[i].name = assoc[i].name
             /\ WrittenAssoc[i].bytes = getSize(assoc[i]) /\ WrittenAssoc[i].bytes \in Nat \ {0}
             /\ WrittenAssoc[i].size = getSize(assoc[i]) - ChunkHeader /\ WrittenAssoc[i].size \in Nat
  <2>1. WrittenAssoc[i] = WrittenChunk(assoc[i], <<>>)
    BY <1>4
  <2> DEFINE c == assoc[i]
  <2>2. c.id \in {"labl", "file"} /\ c.data \in Nat \ {0}
    BY <1>3
  <2> HIDE DEF c
  <2>3. getSize(c) \in Nat \ {0} /\ getSize(c) - ChunkHeader \in Nat
    BY <2>2, GetSizeIs
  <2> DEFINE s == getSize(c)
  <2> HIDE DEF s
  <2>4. WrittenChunk(c, <<>>) = [id |-> c.id, name |-> c.name, size |-> s - ChunkHeader, bytes |-> s, list |-> <<>>]
    BY DEF WrittenChunk, Written, s
  <2>5. QED
    BY <2>1, <2>3, <2>4 DEF s, c
<1>7. QED
  BY <1>2, <1>3, <1>5, <1>6 DEF IsList

LEMMA ContentsAre ==
  ASSUME WriterTypes
  PROVE  /\ ContentsSize(assoc) \in Nat /\ ContentsSize(assoc) % 2 = 0
         /\ ContentsSize(assoc) = 0 <=> assoc = <<>>
         /\ \A start \in Nat :
              Begin(WrittenAssoc, start, Len(WrittenAssoc) + 1) = start + ContentsSize(assoc)
<1> DEFINE sizes == [i \in DOMAIN assoc |-> Padded(getSize(assoc[i]))]
           n == Len(assoc)
<1>1. /\ n \in Nat /\ DOMAIN assoc = 1 .. n /\ Len(WrittenAssoc) = n /\ DOMAIN WrittenAssoc = 1 .. n
      /\ \A i \in 1 .. n : /\ WrittenAssoc[i].bytes = getSize(assoc[i])
                           /\ getSize(assoc[i]) \in Nat \ {0}
  BY AssocIs DEF IsList
<1> HIDE DEF n
<1>2. \A i \in 1 .. n : Padded(getSize(assoc[i])) \in Nat \ {0} /\ Padded(getSize(assoc[i])) % 2 = 0
  <2>1. \A i \in 1 .. n : /\ Padded(getSize(assoc[i])) \in Nat /\ Padded(getSize(assoc[i])) % 2 = 0
                          /\ getSize(assoc[i]) <= Padded(getSize(assoc[i]))
    BY <1>1, PaddedIs
  <2>2. QED
    BY SMTT(30), <1>1, <2>1
<1>3. sizes \in Seq(Nat) /\ Len(sizes) = n /\ \A i \in 1 .. n : sizes[i] = Padded(getSize(assoc[i]))
  BY <1>1, <1>2
<1>4. sizes = [j \in DOMAIN WrittenAssoc |-> Padded(WrittenAssoc[j].bytes)]
  BY <1>1
<1>5. ContentsSize(assoc) = Sums(sizes)[n]
  BY DEF ContentsSize, n
<1>6. \A start \in Nat : Begin(WrittenAssoc, start, Len(WrittenAssoc) + 1) = start + Sums(sizes)[n]
  <2>1. n + 1 - 1 = n
    BY <1>1
  <2> HIDE DEF sizes
  <2>2. QED
    BY <1>1, <1>4, <2>1 DEF Begin
<1> HIDE DEF sizes
<1>7. Sums(sizes)[n] \in Nat /\ Sums(sizes)[0] = 0 /\ n \in 0 .. n
  BY <1>1, <1>3, SumsStep
<1>8. n = 0 <=> assoc = <<>>
  BY DEF WriterTypes, n
<1>9. ASSUME n # 0
      PROVE  Sums(sizes)[n] > 0
  <2>1. 1 \in 1 .. n /\ 1 \in 0 .. n /\ n \in 1 .. n /\ 1 - 1 = 0
    BY <1>1, <1>9
  <2>2. Sums(sizes)[1] = Sums(sizes)[0] + sizes[1] /\ Sums(sizes)[1] \in Nat
    BY <1>3, <2>1, SumsStep
  <2>3. sizes[1] \in Nat \ {0}
    BY <1>2, <1>3, <2>1
  <2>4. Sums(sizes)[1] <= Sums(sizes)[n]
    BY <1>3, <2>1, SumsGrow
  <2>5. QED
    BY <1>7, <2>2, <2>3, <2>4
<1>10. Sums(sizes)[n] % 2 = 0
  <2>1. \A i \in DOMAIN sizes : Divides(2, sizes[i])
    <3>1. \A m \in Nat : m % 2 = 0 => \E q \in Nat : m = q * 2
      <4>1. ASSUME NEW m \in Nat, m % 2 = 0
            PROVE  m \div 2 \in Nat /\ m = (m \div 2) * 2
        BY <4>1
      <4>2. QED
        BY <4>1
    <3>2. QED
      BY <1>2, <1>3, <3>1 DEF Divides, Times
  <2>2. Divides(2, Sums(sizes)[n])
    BY <1>3, <1>7, <2>1, SumsDivide, SMTT(30)
  <2>3. QED
    BY <2>2 DEF Divides, Times
<1>11. Sums(sizes)[n] = 0 <=> assoc = <<>>
  <2>1. n = 0 => Sums(sizes)[n] = 0
    BY <1>7
  <2>2. Sums(sizes)[n] = 0 <=> n = 0
    BY <1>7, <1>9, <2>1
  <2>3. QED
    BY <1>8, <2>2
<1>12. QED
  BY <1>5, <1>6, <1>7, <1>10, <1>11, Zenon

(* The size in the header, by the chunks it counts.                        *)
LEMMA RiffSizeIs ==
  ASSUME WriterTypes
  PROVE  /\ CueBytes \in Nat /\ CueBytes % 2 = 0 /\ ListBytes \in Nat /\ ListBytes % 2 = 0
         /\ DataBytes \in Nat /\ DataSize(format, pieces) \in Nat
         /\ getSize(FmtChunk) = 24 /\ getSize(CueChunk) = CueBytes
         /\ getSize(AssocListChunk) = ListBytes /\ getSize(PcmDataChunk) = DataBytes
         /\ DataAt \in Nat /\ DataAt >= 36 /\ DataAt % 2 = 0
         /\ RiffSize = DataAt + Padded(DataBytes)
<1>1. points \in Nat /\ format \in Formats /\ pieces \in Seq(Nat)
  BY DEF WriterTypes
<1>2. CueBytes \in Nat /\ CueBytes % 2 = 0
  BY <1>1 DEF CueBytes
<1>3. ListBytes \in Nat /\ ListBytes % 2 = 0
  <2> DEFINE s == ContentsSize(assoc)
  <2>1. s \in Nat /\ s % 2 = 0
    BY ContentsAre
  <2>2. ListBytes = IF assoc = <<>> THEN 0 ELSE 12 + s
    BY DEF ListBytes
  <2> HIDE DEF s
  <2>3. 12 + s \in Nat /\ (12 + s) % 2 = 0
    BY <2>1
  <2>4. QED
    BY <2>2, <2>3
<1>4. DataBytes \in Nat /\ DataSize(format, pieces) \in Nat
  BY <1>1, DataSizeIs DEF DataBytes, ChunkHeader
<1>5. getSize(FmtChunk) = 24
  BY DEF getSize, FmtChunk, HeaderSize, MinSize, ChunkHeader
<1>6. getSize(CueChunk) = CueBytes
  BY <1>1 DEF getSize, CueChunk, HeaderSize, MinSize, CueBytes
<1>7. getSize(AssocListChunk) = ListBytes
  <2> DEFINE s == ContentsSize(assoc)
  <2>1. s \in Nat /\ (s = 0 <=> assoc = <<>>)
    BY ContentsAre
  <2> HIDE DEF s
  <2>2. getSize([id |-> "LIST", data |-> s, name |-> 0]) = IF s = 0 THEN 0 ELSE 12 + s
    BY <2>1 DEF getSize, HeaderSize, MinSize
  <2>3. QED
    BY <2>1, <2>2 DEF AssocListChunk, ListBytes, s
<1>8. getSize(PcmDataChunk) = DataBytes
  BY <1>1, EmptyPcm DEF PcmDataChunk, DataBytes
<1>9. DataAt \in Nat /\ DataAt >= 36 /\ DataAt % 2 = 0
  BY <1>2, <1>3 DEF DataAt
<1>10. RiffSize = DataAt + Padded(DataBytes)
  <2> DEFINE chunks == <<FmtChunk, CueChunk, AssocListChunk, PcmDataChunk>>
             sizes == [i \in DOMAIN chunks |-> Padded(getSize(chunks[i]))]
  <2>1. RiffSize = 12 + Sums(sizes)[Len(chunks)]
    BY DEF RiffSize, ContentsSize, HeaderSize
  <2>2. Len(chunks) = 4 /\ DOMAIN chunks = 1 .. 4 /\ chunks[1] = FmtChunk /\ chunks[2] = CueChunk
        /\ chunks[3] = AssocListChunk /\ chunks[4] = PcmDataChunk
    OBVIOUS
  <2> HIDE DEF chunks
  <2>3. DOMAIN sizes = 1 .. 4 /\ sizes[1] = Padded(24) /\ sizes[2] = Padded(CueBytes)
        /\ sizes[3] = Padded(ListBytes) /\ sizes[4] = Padded(DataBytes)
    BY <1>5, <1>6, <1>7, <1>8, <2>2
  <2>4. Padded(24) = 24 /\ Padded(CueBytes) = CueBytes /\ Padded(ListBytes) = ListBytes
        /\ Padded(DataBytes) \in Nat
    BY <1>2, <1>3, <1>4, PaddedIs
  <2>5. sizes \in Seq(Nat) /\ Len(sizes) = 4
    <3>1. \A i \in 1 .. 4 : sizes[i] \in Nat
      <4>1. \A i \in 1 .. 4 : i = 1 \/ i = 2 \/ i = 3 \/ i = 4
        OBVIOUS
      <4> HIDE DEF sizes
      <4>2. QED
        BY <1>2, <1>3, <2>3, <2>4, <4>1
    <3>2. sizes = [i \in 1 .. 4 |-> sizes[i]]
      BY <2>2
    <3> HIDE DEF sizes
    <3>3. QED
      BY <3>1, <3>2
  <2> HIDE DEF sizes
  <2>6. /\ Sums(sizes)[0] = 0
        /\ Sums(sizes)[1] = Sums(sizes)[0] + sizes[1] /\ Sums(sizes)[2] = Sums(sizes)[1] + sizes[2]
        /\ Sums(sizes)[3] = Sums(sizes)[2] + sizes[3] /\ Sums(sizes)[4] = Sums(sizes)[3] + sizes[4]
    <3>1. /\ Sums(sizes)[0] = 0
          /\ \A i \in 1 .. 4 : Sums(sizes)[i] = Sums(sizes)[i - 1] + sizes[i]
      BY <2>5, SumsStep
    <3>2. 1 \in 1 .. 4 /\ 2 \in 1 .. 4 /\ 3 \in 1 .. 4 /\ 4 \in 1 .. 4
          /\ 1 - 1 = 0 /\ 2 - 1 = 1 /\ 3 - 1 = 2 /\ 4 - 1 = 3
      OBVIOUS
    <3>3. QED
      BY <3>1, <3>2
  <2>7. QED
    BY <1>2, <1>3, <2>1, <2>2, <2>3, <2>4, <2>6 DEF DataAt
<1>11. QED
  BY <1>2, <1>3, <1>4, <1>5, <1>6, <1>7, <1>8, <1>9, <1>10

(* There is a header for the samples, though there may be none.            *)
HasData ==
  DataBytes # 0 \/ (format.factor = 1 /\ DataSize(format, pieces) < SumOf(pieces))

DataLength(samples) == IF HasData THEN ChunkHeader + samples ELSE 0

(* The four chunks, and where they begin.                                  *)
LEMMA SimpleChunksAre ==
  ASSUME WriterTypes, NEW samples \in Nat
  PROVE  /\ IsList(SimpleChunks(samples)) /\ Len(SimpleChunks(samples)) = 4
         /\ SimpleChunks(samples)[1] = Written("fmt", 0, 16, 24, <<>>)
         /\ SimpleChunks(samples)[2] = Written("cue", points, CueBytes - ChunkHeader, CueBytes, <<>>)
         /\ SimpleChunks(samples)[3] = Written("LIST", 0, ListBytes - ChunkHeader, ListBytes, WrittenAssoc)
         /\ SimpleChunks(samples)[4]
              = Written("data", 0, DataSize(format, pieces), DataLength(samples), <<>>)
         /\ DataLength(samples) \in Nat
         /\ TopPlace(SimpleChunks(samples), 1) = 12
         /\ TopPlace(SimpleChunks(samples), 2) = 36
         /\ TopPlace(SimpleChunks(samples), 3) = 36 + CueBytes
         /\ TopPlace(SimpleChunks(samples), 4) = DataAt
         /\ TopPlace(SimpleChunks(samples), 5) = DataAt + Padded(DataLength(samples))
<1> DEFINE C == SimpleChunks(samples)
           D == DataSize(format, pieces)
<1>1. C = <<WrittenChunk(FmtChunk, <<>>), WrittenChunk(CueChunk, <<>>),
            WrittenChunk(AssocListChunk, WrittenAssoc), WrittenData(samples)>>
  BY DEF SimpleChunks
<1> HIDE DEF C
<1>2. Len(C) = 4 /\ DOMAIN C = 1 .. 4
      /\ C[1] = WrittenChunk(FmtChunk, <<>>) /\ C[2] = WrittenChunk(CueChunk, <<>>)
      /\ C[3] = WrittenChunk(AssocListChunk, WrittenAssoc) /\ C[4] = WrittenData(samples)
  BY <1>1
<1>3. /\ CueBytes \in Nat /\ CueBytes % 2 = 0 /\ ListBytes \in Nat /\ ListBytes % 2 = 0
      /\ DataBytes \in Nat /\ D \in Nat
      /\ getSize(FmtChunk) = 24 /\ getSize(CueChunk) = CueBytes
      /\ getSize(AssocListChunk) = ListBytes /\ getSize(PcmDataChunk) = DataBytes
      /\ DataAt \in Nat
  BY RiffSizeIs
<1>4. C[1] = Written("fmt", 0, 16, 24, <<>>)
  <2>1. C[1] = Written("fmt", 0, 24 - 8, 24, <<>>)
    BY <1>2, <1>3 DEF WrittenChunk, FmtChunk, ChunkHeader
  <2>2. QED
    BY <2>1
<1>5. C[2] = Written("cue", points, CueBytes - ChunkHeader, CueBytes, <<>>)
  BY <1>2, <1>3 DEF WrittenChunk, CueChunk
<1>6. C[3] = Written("LIST", 0, ListBytes - ChunkHeader, ListBytes, WrittenAssoc)
  BY <1>2, <1>3 DEF WrittenChunk, AssocListChunk
<1>7. C[4] = Written("data", 0, D, DataLength(samples), <<>>)
  <2>1. C[4] = IF DataBytes = 0 /\ ~(format.factor = 1 /\ D < SumOf(pieces))
               THEN Written("data", 0, 0, 0, <<>>)
               ELSE Written("data", 0, D, ChunkHeader + samples, <<>>)
    BY <1>2, <1>3 DEF WrittenData
  <2>2. DataBytes = 0 => D = 0
    BY <1>3 DEF DataBytes, ChunkHeader
  <2>3. QED
    BY <2>1, <2>2, Zenon DEF HasData, DataLength
<1>8. DataLength(samples) \in Nat
  BY DEF DataLength, ChunkHeader
<1>9. /\ C[1].bytes = 24 /\ C[1].size = 16
      /\ C[2].bytes = CueBytes /\ C[2].size = CueBytes - ChunkHeader
      /\ C[3].bytes = ListBytes /\ C[3].size = ListBytes - ChunkHeader
      /\ C[4].bytes = DataLength(samples) /\ C[4].size = D
  BY <1>4, <1>5, <1>6, <1>7 DEF Written
<1>10. \A i \in 1 .. 4 : i = 1 \/ i = 2 \/ i = 3 \/ i = 4
  OBVIOUS
<1>11. /\ CueBytes # 0 => CueBytes - ChunkHeader \in Nat
       /\ ListBytes # 0 => ListBytes - ChunkHeader \in Nat
  <2>1. CueBytes # 0 => CueBytes - ChunkHeader \in Nat
    BY DEF CueBytes, ChunkHeader, WriterTypes
  <2>2. ListBytes # 0 => ListBytes - ChunkHeader \in Nat
    <3>1. ContentsSize(assoc) \in Nat
      BY ContentsAre
    <3>2. QED
      BY <3>1 DEF ListBytes, ChunkHeader
  <2>3. QED
    BY <2>1, <2>2
<1>12. IsList(C)
  <2>1. ASSUME NEW i \in 1 .. 4
        PROVE  C[i].bytes \in Nat /\ (C[i].bytes # 0 => C[i].size \in Nat)
    BY <1>3, <1>8, <1>9, <1>10, <1>11
  <2>2. QED
    BY <1>2, <2>1 DEF IsList
<1>13. /\ TopPlace(C, 1) = 12
       /\ TopPlace(C, 2) = TopPlace(C, 1) + Padded(24)
       /\ TopPlace(C, 3) = TopPlace(C, 2) + Padded(CueBytes)
       /\ TopPlace(C, 4) = TopPlace(C, 3) + Padded(ListBytes)
       /\ TopPlace(C, 5) = TopPlace(C, 4) + Padded(DataLength(samples))
  <2>1. HeaderSize.RIFF = 12
    BY DEF HeaderSize
  <2>2. TopPlace(C, 1) = 12
        /\ \A i \in 1 .. 4 : TopPlace(C, i + 1) = TopPlace(C, i) + Padded(C[i].bytes)
    <3>1. /\ Begin(C, 12, 1) = 12
          /\ \A i \in 1 .. Len(C) : Begin(C, 12, i + 1) = Begin(C, 12, i) + Padded(C[i].bytes)
      <4>1. 12 \in Nat
        OBVIOUS
      <4>2. QED
        BY <1>12, <4>1, Places
    <3>2. QED
      BY <1>2, <2>1, <3>1 DEF TopPlace
  <2>3. 1 \in 1 .. 4 /\ 2 \in 1 .. 4 /\ 3 \in 1 .. 4 /\ 4 \in 1 .. 4
        /\ 1 + 1 = 2 /\ 2 + 1 = 3 /\ 3 + 1 = 4 /\ 4 + 1 = 5
    OBVIOUS
  <2>4. QED
    BY <1>9, <2>2, <2>3
<1>14. Padded(24) = 24 /\ Padded(CueBytes) = CueBytes /\ Padded(ListBytes) = ListBytes
       /\ Padded(DataLength(samples)) \in Nat
  BY <1>3, <1>8, PaddedIs, SMTT(30)
<1>15. /\ TopPlace(C, 1) = 12 /\ TopPlace(C, 2) = 36 /\ TopPlace(C, 3) = 36 + CueBytes
       /\ TopPlace(C, 4) = DataAt /\ TopPlace(C, 5) = DataAt + Padded(DataLength(samples))
  BY <1>3, <1>13, <1>14 DEF DataAt
<1>16. QED
  BY <1>2, <1>4, <1>5, <1>6, <1>7, <1>8, <1>12, <1>15 DEF C

LEMMA SimpleSound ==
  ASSUME WriterTypes, NEW samples \in Nat
  PROVE  /\ Sound(SimpleChunks(samples), RiffSize - ChunkHeader)
         /\ ChunkHeader + Padded(RiffSize - ChunkHeader) = RiffSize
<1> DEFINE C == SimpleChunks(samples)
           D == DataSize(format, pieces)
           riff == RiffSize - ChunkHeader
<1>1. /\ CueBytes \in Nat /\ CueBytes % 2 = 0 /\ ListBytes \in Nat /\ ListBytes % 2 = 0
      /\ DataBytes \in Nat /\ D \in Nat /\ DataAt \in Nat /\ DataAt >= 36 /\ DataAt % 2 = 0
      /\ RiffSize = DataAt + Padded(DataBytes)
  BY RiffSizeIs
<1>2. /\ IsList(C) /\ Len(C) = 4
      /\ C[1] = Written("fmt", 0, 16, 24, <<>>)
      /\ C[2] = Written("cue", points, CueBytes - ChunkHeader, CueBytes, <<>>)
      /\ C[3] = Written("LIST", 0, ListBytes - ChunkHeader, ListBytes, WrittenAssoc)
      /\ C[4] = Written("data", 0, D, DataLength(samples), <<>>)
      /\ TopPlace(C, 4) = DataAt
  BY SimpleChunksAre
<1> HIDE DEF C
<1>3. /\ C[1].bytes = 24 /\ C[1].size = 16 /\ C[1].list = <<>> /\ C[1].id = "fmt"
      /\ C[2].bytes = CueBytes /\ C[2].size = CueBytes - ChunkHeader /\ C[2].list = <<>> /\ C[2].id = "cue"
      /\ C[3].bytes = ListBytes /\ C[3].size = ListBytes - ChunkHeader
      /\ C[3].list = WrittenAssoc /\ C[3].id = "LIST"
      /\ C[4].bytes = DataLength(samples) /\ C[4].size = D /\ C[4].list = <<>> /\ C[4].id = "data"
  BY <1>2 DEF Written
<1>4. Padded(DataBytes) \in Nat /\ Padded(DataBytes) % 2 = 0
      /\ Padded(DataBytes) <= ChunkHeader + Padded(D) /\ Padded(D) \in Nat
  <2>1. Padded(ChunkHeader + D) = ChunkHeader + Padded(D) /\ Padded(D) \in Nat /\ Padded(0) = 0
    BY <1>1, PaddedIs DEF Padded
  <2>2. DataBytes = IF D = 0 THEN 0 ELSE ChunkHeader + D
    BY DEF DataBytes
  <2>3. Padded(DataBytes) \in Nat /\ Padded(DataBytes) % 2 = 0
    BY <1>1, PaddedIs
  <2> HIDE DEF D
  <2>4. QED
    BY <2>1, <2>2, <2>3 DEF ChunkHeader
<1>5. /\ riff \in Nat /\ riff % 2 = 0 /\ ChunkHeader + riff = RiffSize /\ RiffSize \in Nat
      /\ HeaderSize.RIFF < RiffSize
  <2> DEFINE p == Padded(DataBytes)
  <2>1. p \in Nat /\ p % 2 = 0 /\ RiffSize = DataAt + p
    BY <1>1, <1>4
  <2> HIDE DEF p
  <2>2. RiffSize \in Nat /\ RiffSize % 2 = 0 /\ RiffSize >= 36
    BY <1>1, <2>1
  <2>3. QED
    BY <2>2 DEF ChunkHeader, HeaderSize
<1>6. ChunkHeader + Padded(riff) = RiffSize
  BY <1>5, PaddedIs
<1>7. DOMAIN C = 1 .. 4
  BY <1>2 DEF IsList
<1>8. \A i \in 1 .. 4 : i = 1 \/ i = 2 \/ i = 3 \/ i = 4
  OBVIOUS
<1>9. IsList(<<>>) /\ DOMAIN <<>> = {}
  BY DEF IsList
<1>10. IsList(WrittenAssoc) /\ Len(WrittenAssoc) = Len(assoc) /\ DOMAIN WrittenAssoc = 1 .. Len(assoc)
       /\ Len(assoc) \in Nat
       /\ \A k \in 1 .. Len(assoc) :
            /\ WrittenAssoc[k].bytes = ChunkHeader + WrittenAssoc[k].size
            /\ WrittenAssoc[k].size \in Nat
  <2>1. IsList(WrittenAssoc) /\ Len(WrittenAssoc) = Len(assoc) /\ Len(assoc) \in Nat
    BY AssocIs
  <2>2. DOMAIN WrittenAssoc = 1 .. Len(assoc)
    BY <2>1 DEF IsList
  <2>3. ASSUME NEW k \in 1 .. Len(assoc)
        PROVE  /\ WrittenAssoc[k].bytes = ChunkHeader + WrittenAssoc[k].size
               /\ WrittenAssoc[k].size \in Nat
    <3>1. WrittenAssoc[k].bytes \in Nat /\ WrittenAssoc[k].size = WrittenAssoc[k].bytes - ChunkHeader
          /\ WrittenAssoc[k].size \in Nat
      BY AssocIs
    <3>2. QED
      BY <3>1 DEF ChunkHeader
  <2>4. QED
    BY <2>1, <2>2, <2>3
<1>11. \A k \in DOMAIN WrittenAssoc :
         Padded(WrittenAssoc[k].bytes) = ChunkHeader + Padded(WrittenAssoc[k].size)
  BY <1>10, PaddedIs
<1>12. /\ ListBytes = IF assoc = <<>> THEN 0 ELSE 12 + ContentsSize(assoc)
       /\ ContentsSize(assoc) \in Nat
       /\ Begin(WrittenAssoc, HeaderSize.LIST, Len(WrittenAssoc) + 1) = 12 + ContentsSize(assoc)
  <2>1. HeaderSize.LIST = 12 /\ 12 \in Nat
    BY DEF HeaderSize
  <2>2. QED
    BY <2>1, ContentsAre DEF ListBytes
<1>13. assoc = <<>> => DOMAIN WrittenAssoc = {}
  BY <1>10
<1>14. ASSUME ListBytes # 0
       PROVE  /\ ListBytes - ChunkHeader \in Nat
              /\ ListBytes = 12 + ContentsSize(assoc)
              /\ Padded(ListBytes - ChunkHeader) = ListBytes - ChunkHeader /\ Padded(ListBytes) = ListBytes
  <2>1. ListBytes - ChunkHeader \in Nat /\ (ListBytes - ChunkHeader) % 2 = 0
        /\ ListBytes = 12 + ContentsSize(assoc)
    BY <1>1, <1>12, <1>14 DEF ChunkHeader
  <2>2. QED
    BY <1>1, <2>1, PaddedIs
<1>15. ASSUME CueBytes # 0
       PROVE  Padded(CueBytes) = ChunkHeader + Padded(CueBytes - ChunkHeader)
  <2>1. CueBytes - ChunkHeader \in Nat
    BY <1>15 DEF CueBytes, ChunkHeader, WriterTypes
  <2>2. ChunkHeader + (CueBytes - ChunkHeader) = CueBytes
    BY <1>1 DEF ChunkHeader
  <2>3. QED
    BY <2>1, <2>2, PaddedIs
<1>16. ASSUME NEW i \in 1 .. 4
       PROVE  IsList(C[i].list)
  BY <1>3, <1>8, <1>9, <1>10
<1>17. ASSUME NEW i \in 1 .. 4
       PROVE  \/ Padded(C[i].bytes) = ChunkHeader + Padded(C[i].size)
              \/ C[i].bytes = 0
              \/ /\ i = Len(C) /\ C[i].id = "data"
                 /\ ChunkHeader + Padded(riff)
                      <= Begin(C, HeaderSize.RIFF, i) + ChunkHeader + Padded(C[i].size)
  <2>1. CASE i = 1
    <3>1. Padded(24) = 24 /\ Padded(16) = 16
      BY DEF Padded
    <3>2. QED
      BY <1>3, <2>1, <3>1 DEF ChunkHeader
  <2>2. CASE i = 2
    BY <1>3, <1>15, <2>2
  <2>3. CASE i = 3
    <3>1. CASE ListBytes # 0
      <4>1. Padded(ListBytes) = ChunkHeader + Padded(ListBytes - ChunkHeader)
        BY <1>1, <1>14, <3>1 DEF ChunkHeader
      <4>2. QED
        BY <1>3, <2>3, <4>1
    <3>2. CASE ListBytes = 0
      BY <1>3, <2>3, <3>2
    <3>3. QED
      BY <3>1, <3>2
  <2>4. CASE i = 4
    <3>1. RiffSize <= DataAt + ChunkHeader + Padded(D)
      <4> DEFINE a == Padded(DataBytes)
                 b == Padded(D)
      <4>1. a \in Nat /\ b \in Nat /\ a <= ChunkHeader + b /\ RiffSize = DataAt + a /\ DataAt \in Nat
        BY <1>1, <1>4
      <4> HIDE DEF a, b
      <4>2. RiffSize <= DataAt + ChunkHeader + b
        BY <4>1 DEF ChunkHeader
      <4>3. QED
        BY <4>2 DEF b
    <3>2. Begin(C, HeaderSize.RIFF, i) = DataAt
      BY <1>2, <2>4 DEF TopPlace
    <3>3. QED
      BY <1>2, <1>3, <1>6, <2>4, <3>1, <3>2
  <2>5. QED
    BY <1>8, <2>1, <2>2, <2>3, <2>4
<1>18. ASSUME NEW i \in 1 .. 4, C[i].id = "LIST", C[i].bytes > 0
       PROVE  /\ Begin(C[i].list, HeaderSize.LIST, Len(C[i].list) + 1) = ChunkHeader + Padded(C[i].size)
              /\ \A k \in DOMAIN C[i].list :
                   \/ C[i].list[k].bytes = 0
                   \/ Padded(C[i].list[k].bytes) = ChunkHeader + Padded(C[i].list[k].size)
  <2>1. i = 3
    BY <1>3, <1>8, <1>18
  <2>2. ListBytes # 0
    BY <1>1, <1>3, <1>18, <2>1
  <2>3. 12 + ContentsSize(assoc) = ChunkHeader + Padded(ListBytes - ChunkHeader)
    BY <1>1, <1>12, <1>14, <2>2 DEF ChunkHeader
  <2>4. QED
    BY <1>3, <1>11, <1>12, <2>1, <2>3
<1>19. ASSUME NEW i \in 1 .. 4, ~(C[i].id = "LIST" /\ C[i].bytes > 0), NEW k \in DOMAIN C[i].list
       PROVE  FALSE
  <2>1. CASE i = 3
    <3>1. ~(ListBytes > 0)
      BY <1>3, <1>19, <2>1
    <3>2. assoc = <<>>
      BY <1>12, <3>1
    <3>3. QED
      BY <1>3, <1>13, <1>19, <2>1, <3>2
  <2>2. CASE i # 3
    BY <1>3, <1>8, <1>9, <1>19, <2>2
  <2>3. QED
    BY <2>1, <2>2
<1> HIDE DEF riff, D
<1>20. Sound(C, riff)
  BY <1>2, <1>5, <1>6, <1>7, <1>16, <1>17, <1>18, <1>19 DEF Sound
<1>21. QED
  BY <1>6, <1>20 DEF C, riff

(* Files of other programs are well-formed: their chunks end where they    *)
(* say.                                                                    *)
LEMMA ForeignIs ==
  ASSUME NEW c \in ForeignChunks
  PROVE  /\ c.size \in Nat /\ c.bytes = ChunkHeader + c.size /\ c.bytes \in Nat \ {0}
         /\ Padded(c.bytes) = ChunkHeader + Padded(c.size)
         /\ IsList(c.list)
         /\ \A k \in DOMAIN c.list : Padded(c.list[k].bytes) = ChunkHeader + Padded(c.list[k].size)
         /\ IF c.id = "LIST"
            THEN Begin(c.list, HeaderSize.LIST, Len(c.list) + 1) = ChunkHeader + Padded(c.size)
            ELSE c.list = <<>>
<1> DEFINE D == {d \in [id : STRING, name : Nat, size : Nat, bytes : Nat, list : {<<>>}] :
                   d.bytes = ChunkHeader + d.size}
<1>1. /\ c.size \in Nat /\ c.bytes = ChunkHeader + c.size
      /\ c.list \in Seq(D)
      /\ IF c.id = "LIST" THEN Begin(c.list, HeaderSize.LIST, Len(c.list) + 1) = ChunkHeader + Padded(c.size)
         ELSE c.list = <<>>
  BY ForeignAssumption
<1>2. \A d \in D : d.size \in Nat /\ d.bytes \in Nat /\ d.bytes = ChunkHeader + d.size
  OBVIOUS
<1> HIDE DEF D
<1>3. /\ Len(c.list) \in Nat /\ DOMAIN c.list = 1 .. Len(c.list)
      /\ \A k \in DOMAIN c.list : c.list[k] \in D
  BY <1>1
<1>4. \A k \in DOMAIN c.list : /\ c.list[k].size \in Nat /\ c.list[k].bytes \in Nat
                               /\ c.list[k].bytes = ChunkHeader + c.list[k].size
  BY <1>2, <1>3
<1>5. IsList(c.list)
  BY <1>3, <1>4 DEF IsList
<1>6. \A k \in DOMAIN c.list : Padded(c.list[k].bytes) = ChunkHeader + Padded(c.list[k].size)
  BY <1>4, PaddedIs
<1>7. Padded(c.bytes) = ChunkHeader + Padded(c.size) /\ c.bytes \in Nat \ {0}
  <2>1. Padded(ChunkHeader + c.size) = ChunkHeader + Padded(c.size)
    BY <1>1, PaddedIs
  <2>2. QED
    BY <1>1, <2>1 DEF ChunkHeader
<1>8. QED
  BY <1>1, <1>5, <1>6, <1>7

LEMMA ForeignSound ==
  ASSUME NEW n \in Nat \ {0}, NEW chunks \in [1 .. n -> ForeignChunks]
  PROVE  Sound(chunks, Begin(chunks, HeaderSize.RIFF, n + 1) - ChunkHeader)
<1> DEFINE end == Begin(chunks, HeaderSize.RIFF, n + 1)
           riff == end - ChunkHeader
<1>1. DOMAIN chunks = 1 .. n /\ Len(chunks) = n /\ \A i \in 1 .. n : chunks[i] \in ForeignChunks
  OBVIOUS
<1>2. \A i \in 1 .. n : chunks[i].bytes \in Nat \ {0} /\ chunks[i].size \in Nat
  BY <1>1, ForeignIs
<1>3. IsList(chunks)
  BY <1>1, <1>2 DEF IsList
<1>4. end \in Nat /\ end >= 20
  <2>1. HeaderSize.RIFF = 12
    BY DEF HeaderSize
  <2>2. /\ Begin(chunks, 12, 1) = 12
        /\ \A i \in 1 .. Len(chunks) + 1 : Begin(chunks, 12, i) \in Nat
        /\ \A i \in 1 .. Len(chunks) :
             Begin(chunks, 12, i + 1) = Begin(chunks, 12, i) + Padded(chunks[i].bytes)
        /\ \A i \in 1 .. Len(chunks) + 1 : \A j \in i .. Len(chunks) + 1 :
             Begin(chunks, 12, i) <= Begin(chunks, 12, j)
    <3>1. 12 \in Nat
      OBVIOUS
    <3>2. QED
      BY <1>3, <3>1, Places
  <2>3. 1 \in 1 .. n /\ 2 \in 1 .. n + 1 /\ n + 1 \in 2 .. n + 1 /\ n + 1 \in 1 .. n + 1 /\ 1 + 1 = 2
    OBVIOUS
  <2>4. Padded(chunks[1].bytes) = 8 + Padded(chunks[1].size) /\ Padded(chunks[1].size) \in Nat
    <3>1. chunks[1] \in ForeignChunks /\ chunks[1].size \in Nat
      BY <1>1, <1>2, <2>3
    <3>2. QED
      BY <3>1, ForeignIs, PaddedIs DEF ChunkHeader
  <2>5. Begin(chunks, 12, 2) = 12 + Padded(chunks[1].bytes) /\ Begin(chunks, 12, 2) <= Begin(chunks, 12, n + 1)
        /\ Begin(chunks, 12, n + 1) \in Nat
    BY <1>1, <2>2, <2>3
  <2>6. QED
    BY <2>1, <2>4, <2>5
<1> HIDE DEF end
<1>5. riff \in Nat /\ ChunkHeader + riff >= 20
  BY <1>4 DEF ChunkHeader
<1>6. HeaderSize.RIFF < ChunkHeader + Padded(riff)
  <2>1. Padded(riff) >= riff /\ Padded(riff) \in Nat
    BY <1>5, PaddedIs
  <2>2. QED
    BY <1>5, <2>1 DEF ChunkHeader, HeaderSize
<1> HIDE DEF riff
<1>7. ASSUME NEW i \in DOMAIN chunks
      PROVE  /\ IsList(chunks[i].list)
             /\ Padded(chunks[i].bytes) = ChunkHeader + Padded(chunks[i].size)
             /\ \A k \in DOMAIN chunks[i].list :
                  Padded(chunks[i].list[k].bytes) = ChunkHeader + Padded(chunks[i].list[k].size)
             /\ IF chunks[i].id = "LIST"
                THEN Begin(chunks[i].list, HeaderSize.LIST, Len(chunks[i].list) + 1)
                       = ChunkHeader + Padded(chunks[i].size)
                ELSE chunks[i].list = <<>>
             /\ chunks[i].bytes > 0
  <2>1. chunks[i] \in ForeignChunks
    BY <1>1
  <2>2. chunks[i].bytes > 0
    BY <1>1, <1>2
  <2>3. QED
    BY <2>1, <2>2, ForeignIs
<1>8. Sound(chunks, riff)
  <2>1. DOMAIN <<>> = {}
    OBVIOUS
  <2>2. QED
    BY <1>3, <1>5, <1>6, <1>7, <2>1 DEF Sound
<1>9. QED
  BY <1>8 DEF riff, end

-----------------------------------------------------------------------------
(* Whose file it is, and what a whole one holds.                           *)

(* How many bytes of samples WavFileSimplePcm has written.                 *)
SamplesWritten ==
  IF format.factor > 1 THEN Len(sampled) * SampleLength(format)
  ELSE IF DataSize(format, pieces) < SumOf(pieces) THEN CutData ELSE DataSize(format, pieces)

Whose ==
  /\ source = "nobody" => file = NoFile
  /\ (Reading /\ source # "nobody") => file # NoFile
  /\ (source = "WavFileSimplePcm" /\ file # NoFile) => stage = "written"

Whole ==
  (whole /\ file # NoFile) =>
    /\ source = "WavFileSimplePcm" => file = SimpleFile(SamplesWritten)
    /\ source = "WavFormat" => \E size \in FormatSizes : file = FormatFile(size)

FileInvariant == Whose /\ Whole /\ (file # NoFile => Layout(file))

LEMMA SamplesWrittenIs ==
  ASSUME WriterTypes
  PROVE  /\ SamplesWritten \in Nat /\ DataSize(format, pieces) \in Nat /\ CutData \in Nat
         /\ (\A i \in DOMAIN pieces : pieces[i] > 0) => CutData = DataSize(format, pieces)
<1> DEFINE D == DataSize(format, pieces)
           empty == {i \in DOMAIN pieces : pieces[i] = 0}
           cut == Before(pieces, Min(empty))
<1>1. format \in Formats /\ pieces \in Seq(Nat) /\ sampled \in Seq(Nat)
  BY DEF WriterTypes
<1>2. D \in Nat /\ SampleLength(format) \in Nat /\ Len(sampled) \in Nat
  BY <1>1, DataSizeIs, FormatIs
<1>3. CutData = IF empty = {} THEN D ELSE Min({D, cut})
  BY DEF CutData
<1>4. ASSUME empty # {}
      PROVE  cut \in Nat
  <2>1. empty \subseteq 1 .. Len(pieces) /\ Len(pieces) \in Nat /\ empty \subseteq Nat
    BY <1>1
  <2> HIDE DEF empty
  <2>2. Min(empty) \in empty
    BY <1>4, <2>1, MinIs
  <2> DEFINE m == Min(empty)
  <2> HIDE DEF m
  <2>3. m \in 1 .. Len(pieces)
    BY <2>1, <2>2 DEF m
  <2>4. m - 1 \in 0 .. Len(pieces)
    BY <2>1, <2>3
  <2>5. Before(pieces, m) \in Nat
    BY <1>1, <2>4, SumsStep DEF Before
  <2>6. QED
    BY <2>5 DEF m
<1>5. CutData \in Nat
  <2>1. CASE empty = {}
    BY <1>2, <1>3, <2>1
  <2>2. CASE empty # {}
    <3> HIDE DEF D, cut, empty
    <3>1. {D, cut} \subseteq Nat /\ {D, cut} # {}
      BY <1>2, <1>4, <2>2
    <3>2. Min({D, cut}) \in {D, cut}
      BY <3>1, MinIs
    <3>3. QED
      BY <1>3, <2>2, <3>1, <3>2
  <2>3. QED
    BY <2>1, <2>2
<1>6. ASSUME \A i \in DOMAIN pieces : pieces[i] > 0
      PROVE  CutData = D
  <2>1. empty = {}
    BY <1>6
  <2>2. QED
    BY <1>3, <2>1
<1>7. Len(sampled) * SampleLength(format) \in Nat
  BY <1>2
<1>8. SamplesWritten \in Nat
  BY <1>2, <1>5, <1>7 DEF SamplesWritten
<1>9. QED
  BY <1>2, <1>5, <1>6, <1>8

(* Without samples and without rows to cut it does not matter how many     *)
(* bytes of them there are.                                                *)
LEMMA NoSamples ==
  ASSUME getSize(PcmDataChunk) = 0, format.factor # 1, NEW a, NEW b
  PROVE  SimpleFile(a) = SimpleFile(b)
<1>1. WrittenData(a) = WrittenData(b)
  BY DEF WrittenData
<1>2. QED
  BY <1>1 DEF SimpleFile, SimpleChunks

(* The writer writes the whole file in one step, its last one.             *)
LEMMA WriterWrites ==
  ASSUME WriterInvariant, WavNext
  PROVE  /\ stage # "written"
         /\ \/ file' = file
            \/ /\ stage' = "written" /\ UNCHANGED <<format, points, assoc, pieces, sampled>>
               /\ file' = SimpleFile(SamplesWritten)
<1>1. format.factor \in Nat \ {0} /\ format.rows \in BOOLEAN /\ format \in Formats /\ pieces \in Seq(Nat)
  BY FormatIs DEF WriterTypes, WriterInvariant
<1>2. ASSUME NEW name \in Names, addCuePoint(name) \/ addAssocFile(name)
      PROVE  stage # "written" /\ file' = file
  BY <1>2 DEF addCuePoint, addAssocFile
<1>3. ASSUME NEW size \in PieceSizes, addData(size)
      PROVE  stage # "written" /\ file' = file
  BY <1>3 DEF addData
<1>4. ASSUME NEW n, WriteFile(n)
      PROVE  stage' = "written" /\ file' = SimpleFile(n)
  BY <1>4 DEF WriteFile, SimpleFile, SimpleChunks
<1> DEFINE D == DataSize(format, pieces)
           n == IF D < SumOf(pieces) THEN CutData ELSE D
<1>5. CASE writeFile
  <2>1. /\ stage = "build" /\ (format.factor = 1 \/ getSize(PcmDataChunk) = 0)
        /\ WriteFile(n) /\ UNCHANGED <<format, points, assoc, pieces, it, sampled>>
    BY <1>5 DEF writeFile
  <2> HIDE DEF n
  <2>2. stage' = "written" /\ file' = SimpleFile(n)
    BY <1>4, <2>1
  <2>3. SimpleFile(n) = SimpleFile(SamplesWritten)
    <3>1. CASE format.factor = 1
      BY <3>1 DEF SamplesWritten, n
    <3>2. CASE format.factor # 1
      BY <2>1, <3>2, NoSamples
    <3>3. QED
      BY <3>1, <3>2
  <2>4. QED
    BY <2>1, <2>2, <2>3
<1>6. CASE fillBuffer
  <2>1. /\ stage = "build" /\ ~format.rows /\ format.factor = 1
        /\ WriteFile(D) \/ file' = file
        /\ UNCHANGED <<format, points, assoc, pieces, it, sampled>>
    BY <1>6 DEF fillBuffer
  <2>2. D = SumOf(pieces) /\ D \in Nat
    BY <1>1, <2>1, DataSizeIs
  <2>3. SamplesWritten = D
    BY <2>1, <2>2 DEF SamplesWritten
  <2> HIDE DEF D
  <2>4. QED
    BY <1>4, <2>1, <2>3
<1>7. CASE startSampling \/ writeSample
  BY <1>7 DEF startSampling, writeSample
<1>8. CASE endSampling
  <2>1. /\ stage = "sampling" /\ WriteFile(Len(sampled) * SampleLength(format))
        /\ UNCHANGED <<format, points, assoc, pieces, it, sampled>>
    BY <1>8 DEF endSampling
  <2>2. stage' = "written" /\ file' = SimpleFile(Len(sampled) * SampleLength(format))
    BY <1>4, <2>1
  <2>3. format.factor > 1
    BY <2>1 DEF WriterInvariant, SamplingFollows
  <2>4. SamplesWritten = Len(sampled) * SampleLength(format)
    BY <2>3 DEF SamplesWritten
  <2>5. QED
    BY <2>1, <2>2, <2>4
<1>9. QED
  BY <1>2, <1>3, <1>5, <1>6, <1>7, <1>8 DEF WavNext

LEMMA SimpleUnchanged ==
  ASSUME UNCHANGED <<format, points, assoc, pieces, sampled>>
  PROVE  SimpleFile(SamplesWritten)' = SimpleFile(SamplesWritten)
<1>1. SamplesWritten' = SamplesWritten
  BY DEF SamplesWritten, CutData
<1>2. RiffSize' = RiffSize
  BY DEF RiffSize, FmtChunk, CueChunk, AssocListChunk, PcmDataChunk
<1>3. SimpleChunks(SamplesWritten)' = SimpleChunks(SamplesWritten)
  <2>1. WrittenChunk(FmtChunk, <<>>)' = WrittenChunk(FmtChunk, <<>>)
    BY DEF WrittenChunk, FmtChunk
  <2>2. WrittenChunk(CueChunk, <<>>)' = WrittenChunk(CueChunk, <<>>)
    BY DEF WrittenChunk, CueChunk
  <2>3. WrittenChunk(AssocListChunk, WrittenAssoc)' = WrittenChunk(AssocListChunk, WrittenAssoc)
    BY DEF WrittenChunk, AssocListChunk, WrittenAssoc
  <2>4. WrittenData(SamplesWritten)' = WrittenData(SamplesWritten)
    BY <1>1 DEF WrittenData, PcmDataChunk
  <2>5. QED
    BY <2>1, <2>2, <2>3, <2>4 DEF SimpleChunks
<1>4. QED
  BY <1>2, <1>3 DEF SimpleFile

LEMMA SimpleLaidOut ==
  ASSUME WriterTypes
  PROVE  Layout(SimpleFile(SamplesWritten))
BY SamplesWrittenIs, SimpleSound, FileLaidOut DEF SimpleFile

LEMMA FileInit ==
  Init => FileInvariant
BY DEF Init, FileInvariant, Whose, Whole, Reading, DiskInit, FormatInit

LEMMA FileInvariantStep ==
  ASSUME WriterInvariant, WriterInvariant', FileInvariant, [Next]_vars
  PROVE  FileInvariant'
<1>1. CASE Simple
  <2>1. /\ source = "WavFileSimplePcm" /\ WavNext /\ UNCHANGED <<source, whole, diskVars, headerVars>>
    BY <1>1 DEF Simple
  <2>2. stage # "written"
    BY <2>1, WriterWrites
  <2>3. file = NoFile /\ ~Reading
    BY <2>1, <2>2 DEF FileInvariant, Whose
  <2>4. ~Reading'
    BY <2>1, <2>3 DEF Reading, diskVars, headerVars
  <2>5. CASE file' = file
    BY <2>1, <2>3, <2>4, <2>5 DEF FileInvariant, Whose, Whole
  <2>6. CASE /\ stage' = "written" /\ UNCHANGED <<format, points, assoc, pieces, sampled>>
             /\ file' = SimpleFile(SamplesWritten)
    <3>1. SimpleFile(SamplesWritten)' = SimpleFile(SamplesWritten)
      BY <2>6, SimpleUnchanged
    <3>2. Layout(SimpleFile(SamplesWritten))
      BY SimpleLaidOut DEF WriterInvariant
    <3>3. Layout(file)'
      <4>1. Layout(file') = Layout(file)'
        OBVIOUS
      <4>2. QED
        BY <2>6, <3>2, <4>1
    <3>4. Whole'
      BY <2>1, <2>6, <3>1 DEF Whole
    <3>5. Whose'
      BY <2>1, <2>4, <2>6 DEF Whose
    <3>6. QED
      BY <3>3, <3>4, <3>5 DEF FileInvariant
  <2>7. QED
    BY <2>1, <2>5, <2>6, WriterWrites
<1>2. CASE writeFormatFile
  <2>1. PICK size \in FormatSizes :
          /\ source = "WavFormat" /\ file = NoFile /\ file' = FormatFile(size)
          /\ UNCHANGED <<source, whole, wavVars, diskVars, headerVars>>
    BY <1>2 DEF writeFormatFile
  <2>2. size \in Nat
    BY SourcesAssumption
  <2>3. Layout(FormatFile(size))
    BY <2>2, LayoutFormat
  <2>4. ~Reading /\ ~Reading'
    BY <2>1 DEF FileInvariant, Whose, Reading, diskVars, headerVars
  <2>5. QED
    BY <2>1, <2>3, <2>4 DEF FileInvariant, Whose, Whole
<1>3. CASE OtherWrites
  <2>1. PICK n \in 1 .. MaxForeign : \E chunks \in [1 .. n -> ForeignChunks] :
          /\ source = "other" /\ file = NoFile
          /\ file' = FileOf(chunks, Begin(chunks, HeaderSize.RIFF, n + 1) - ChunkHeader)
          /\ UNCHANGED <<source, whole, wavVars, diskVars, headerVars>>
    BY <1>3 DEF OtherWrites
  <2>2. PICK chunks \in [1 .. n -> ForeignChunks] :
          /\ source = "other" /\ file = NoFile
          /\ file' = FileOf(chunks, Begin(chunks, HeaderSize.RIFF, n + 1) - ChunkHeader)
          /\ UNCHANGED <<source, whole, wavVars, diskVars, headerVars>>
    BY <2>1
  <2>3. n \in Nat \ {0}
    BY SourcesAssumption
  <2>4. Layout(FileOf(chunks, Begin(chunks, HeaderSize.RIFF, n + 1) - ChunkHeader))
    BY <2>3, ForeignSound, FileLaidOut
  <2>5. ~Reading /\ ~Reading'
    BY <2>2 DEF FileInvariant, Whose, Reading, diskVars, headerVars
  <2>6. Layout(file')
    BY <2>2, <2>4
  <2>7. QED
    BY <2>2, <2>5, <2>6 DEF FileInvariant, Whose, Whole
<1>4. CASE CutShort
  <2>1. /\ file # NoFile /\ ~Reading /\ ~whole' /\ UNCHANGED <<source, wavVars, diskVars, headerVars>>
    BY <1>4 DEF CutShort
  <2>2. PICK c \in file.chunks : \E length \in {c.at, c.at + 4, c.at + ChunkHeader, SeekEnd(c) - 1} :
          length < file.length /\ file' = Cut(file, length)
    BY <1>4 DEF CutShort
  <2>3. PICK length \in {c.at, c.at + 4, c.at + ChunkHeader, SeekEnd(c) - 1} :
          length < file.length /\ file' = Cut(file, length)
    BY <2>2
  <2>4. Layout(file)
    BY <2>1 DEF FileInvariant
  <2>5. c.at \in Nat /\ c.size \in Nat /\ HeaderSize.RIFF <= c.at
    BY <2>4 DEF Layout, LayoutTypes
  <2>6. length \in Nat /\ HeaderSize.RIFF <= length
    <3>1. Padded(c.size) \in Nat
      BY <2>5, PaddedIs
    <3>2. QED
      BY <2>5, <3>1 DEF SeekEnd, ChunkHeader, HeaderSize
  <2>7. Layout(Cut(file, length))
    BY <2>3, <2>4, <2>6, LayoutCut
  <2>8. Layout(file')
    BY <2>3, <2>7
  <2>9. ~Reading'
    BY <2>1 DEF Reading, diskVars, headerVars
  <2>10. Whose'
    BY <2>1, <2>9 DEF FileInvariant, Whose, wavVars
  <2>11. QED
    BY <2>1, <2>8, <2>10 DEF FileInvariant, Whole
<1>5. CASE Disk \/ readHeader \/ UNCHANGED vars
  <2>1. UNCHANGED <<file, source, whole, wavVars>>
    BY <1>5 DEF Disk, readHeader, vars
  <2>2. (Reading /\ source # "nobody")' => file # NoFile
    BY <1>5 DEF Disk, readHeader, vars, ToRead, FileInvariant, Whose, Reading, diskVars, headerVars
  <2>3. Whose'
    BY <2>1, <2>2 DEF FileInvariant, Whose, wavVars
  <2>4. SimpleFile(SamplesWritten)' = SimpleFile(SamplesWritten)
    BY <2>1, SimpleUnchanged DEF wavVars
  <2>5. Whole'
    BY <2>1, <2>4 DEF FileInvariant, Whole
  <2>6. file # NoFile => Layout(file)
    BY DEF FileInvariant
  <2>7. QED
    BY <2>1, <2>3, <2>5, <2>6 DEF FileInvariant
<1>6. QED
  BY <1>1, <1>2, <1>3, <1>4, <1>5 DEF Next

LEMMA FileInvariantHolds == Spec => []FileInvariant
<1>1. WriterInvariant /\ WriterInvariant' /\ FileInvariant /\ [Next]_vars => FileInvariant'
  BY FileInvariantStep
<1>2. QED
  BY <1>1, FileInit, WriterInvariantHolds, PTL DEF Spec

(* How long the file of WavFileSimplePcm is.                               *)
LEMMA SimpleLength ==
  ASSUME WriterTypes, NEW samples \in Nat
  PROVE  /\ SimpleFile(samples).length = DataAt + Padded(DataLength(samples))
         /\ SimpleFile(samples).riff = RiffSize - ChunkHeader
         /\ ChunkHeader + SimpleFile(samples).riff = DataAt + Padded(DataBytes)
         /\ RiffEnd(SimpleFile(samples)) = DataAt + Padded(DataBytes)
<1>1. Len(SimpleChunks(samples)) = 4 /\ TopPlace(SimpleChunks(samples), 5) = DataAt + Padded(DataLength(samples))
  BY SimpleChunksAre
<1>2. SimpleFile(samples).length = TopPlace(SimpleChunks(samples), Len(SimpleChunks(samples)) + 1)
      /\ SimpleFile(samples).riff = RiffSize - ChunkHeader
  BY FileHas DEF SimpleFile
<1>3. 4 + 1 = 5
  OBVIOUS
<1>4. SimpleFile(samples).length = DataAt + Padded(DataLength(samples))
  BY <1>1, <1>2, <1>3
<1>5. RiffSize = DataAt + Padded(DataBytes) /\ DataAt \in Nat /\ DataBytes \in Nat
  BY RiffSizeIs
<1>6. Padded(DataBytes) \in Nat
  BY <1>5, PaddedIs
<1>7. ChunkHeader + SimpleFile(samples).riff = DataAt + Padded(DataBytes)
  BY <1>2, <1>5, <1>6 DEF ChunkHeader
<1>8. RiffEnd(SimpleFile(samples)) = DataAt + Padded(DataBytes)
  BY <1>2, <1>5, SimpleSound DEF RiffEnd
<1>9. QED
  BY <1>2, <1>4, <1>7, <1>8

(* What the file has beyond the size its header says: the samples the      *)
(* reduction writes although the header has been cut to rows, or the       *)
(* header of a data chunk that was cut to nothing.                         *)
Surplus ==
  LET kept == DataSize(format, pieces)
  IN  IF format.factor > 1
      THEN IF kept = 0 THEN 0
           ELSE ReducedSize(format, SumOf(pieces) \div SampleLength(format)) - kept
      ELSE IF SumOf(pieces) > kept /\ kept = 0 THEN ChunkHeader ELSE 0

(* What is written beyond the header's size is the surplus.                *)
LEMMA SurplusIs ==
  ASSUME WriterInvariant, stage = "written", \A i \in DOMAIN pieces : pieces[i] > 0
  PROVE  Padded(DataLength(SamplesWritten)) = Padded(DataBytes) + Surplus
<1> DEFINE D == DataSize(format, pieces)
           S == SumOf(pieces)
           W == SamplesWritten
           R == ReducedSize(format, S \div SampleLength(format))
<1>1. WriterTypes /\ format \in Formats /\ pieces \in Seq(Nat) /\ format.factor \in Nat \ {0}
  BY FormatIs DEF WriterInvariant, WriterTypes
<1>2. /\ S \in Nat /\ D \in Nat /\ Samples(format, pieces) \in Nat
      /\ format.factor = 1 => D <= S
      /\ format.factor > 1 => D <= R /\ D % 2 = 0
      /\ S = 0 => D = 0
  BY <1>1, DataSizeIs DEF Samples
<1>3. R \in Nat /\ R % 2 = 0
  BY <1>1, <1>2, ReducedSizeIs DEF Samples
<1>4. W \in Nat /\ CutData = D
  BY <1>1, SamplesWrittenIs
<1>5. DataBytes = IF D = 0 THEN 0 ELSE 8 + D
  BY DEF DataBytes, ChunkHeader
<1>6. DataLength(W) = IF D # 0 \/ (format.factor = 1 /\ D < S) THEN 8 + W ELSE 0
  BY <1>2, <1>5 DEF DataLength, HasData, ChunkHeader
<1>7. Surplus = IF format.factor > 1 THEN IF D = 0 THEN 0 ELSE R - D
                ELSE IF S > D /\ D = 0 THEN 8 ELSE 0
  BY DEF Surplus, ChunkHeader
<1>8. W = IF format.factor > 1 THEN Len(sampled) * SampleLength(format) ELSE D
  BY <1>4 DEF SamplesWritten
<1>9. Padded(0) = 0 /\ Padded(8) = 8 /\ \A a \in Nat : Padded(a) \in Nat
  BY PaddedIs DEF Padded
<1> DEFINE Is(l, b, e) == DataLength(W) = l /\ DataBytes = b /\ Surplus = e /\ Padded(l) = Padded(b) + e
<1> SUFFICES \E l, b, e : Is(l, b, e)
  OBVIOUS
<1>10. CASE format.factor > 1
  <2>0. format.factor # 1
    BY <1>1, <1>10
  <2>1. CASE D = 0
    <3> HIDE DEF D, W
    <3>1. DataLength(W) = 0 /\ DataBytes = 0 /\ Surplus = 0
      BY <1>5, <1>6, <1>7, <1>10, <2>0, <2>1
    <3>2. Is(0, 0, 0)
      BY <1>9, <3>1
    <3>3. QED
      BY <3>2
  <2>2. CASE D # 0
    <3>1. Reduces
      <4>1. D > 0
        BY <1>2, <2>2
      <4>2. 1 \in DOMAIN pieces
        <5>1. S # 0
          BY <1>2, <2>2
        <5>2. Len(pieces) # 0
          <6>1. Sums(pieces)[0] = 0
            BY <1>1, SumsStep
          <6>2. QED
            BY <5>1, <6>1 DEF SumOf
        <5>3. QED
          BY <1>1, <5>2
      <4>3. QED
        BY <1>10, <4>1, <4>2 DEF Reduces
    <3>2. W = R
      BY <1>8, <1>10, <3>1, TakesAll DEF Samples
    <3>3. Padded(8 + R) = 8 + R /\ Padded(8 + D) = 8 + D
      <4>1. 8 + R \in Nat /\ (8 + R) % 2 = 0 /\ 8 + D \in Nat /\ (8 + D) % 2 = 0
        BY <1>2, <1>3, <1>10
      <4>2. QED
        BY <4>1, PaddedIs
    <3> HIDE DEF D, R, W, S
    <3>4. DataLength(W) = 8 + R /\ DataBytes = 8 + D /\ Surplus = R - D
      BY <1>5, <1>6, <1>7, <1>10, <2>2, <3>2
    <3>5. Is(8 + R, 8 + D, R - D)
      BY <1>2, <1>3, <3>3, <3>4
    <3>6. QED
      BY <3>5
  <2>3. QED
    BY <2>1, <2>2
<1>11. CASE format.factor = 1
  <2> HIDE DEF D, R, W, S
  <2>1. W = D
    BY <1>8, <1>11
  <2>2. Surplus = IF S > D /\ D = 0 THEN 8 ELSE 0
    BY <1>7, <1>11
  <2>3. Padded(8 + D) \in Nat
    BY <1>2, <1>9
  <2>4. CASE D # 0
    <3>1. DataLength(W) = 8 + D /\ DataBytes = 8 + D /\ Surplus = 0
      BY <1>5, <1>6, <2>1, <2>2, <2>4
    <3>2. Is(8 + D, 8 + D, 0)
      BY <2>3, <3>1
    <3>3. QED
      BY <3>2
  <2>5. CASE D = 0 /\ S > D
    <3>1. DataLength(W) = 8 /\ DataBytes = 0 /\ Surplus = 8
      BY <1>5, <1>6, <1>11, <2>1, <2>2, <2>5
    <3>2. Is(8, 0, 8)
      BY <1>9, <3>1
    <3>3. QED
      BY <3>2
  <2>6. CASE D = 0 /\ ~(S > D)
    <3>1. DataLength(W) = 0 /\ DataBytes = 0 /\ Surplus = 0
      BY <1>2, <1>5, <1>6, <2>1, <2>2, <2>6
    <3>2. Is(0, 0, 0)
      BY <1>9, <3>1
    <3>3. QED
      BY <3>2
  <2>7. QED
    BY <2>4, <2>5, <2>6
<1>12. QED
  BY <1>1, <1>10, <1>11

(* There is none when the rows are full.                                   *)
LEMMA NoSurplus ==
  ASSUME WriterTypes, RowsAreFull
  PROVE  Surplus = 0
<1> DEFINE S == SumOf(pieces)
           R == ReducedSize(format, S \div SampleLength(format))
           row == RowLength(format)
           total == IF format.factor > 1 THEN R ELSE S
           D == DataSize(format, pieces)
<1>1. format \in Formats /\ pieces \in Seq(Nat) /\ format.factor \in Nat \ {0} /\ row \in Nat \ {0}
  BY FormatIs, RowLengthIs DEF WriterTypes
<1>2. S \in Nat /\ R \in Nat
  BY <1>1, DataSizeIs, ReducedSizeIs DEF Samples
<1>3. D = IF format.rows THEN (total \div row) * row ELSE total
  BY DEF DataSize
<1>4. \/ ~format.rows \/ (total % row) = 0
      \/ format.factor = 1 /\ total >= row
  BY DEF RowsAreFull
<1>5. Surplus = IF format.factor > 1 THEN IF D = 0 THEN 0 ELSE R - D
                ELSE IF S > D /\ D = 0 THEN ChunkHeader ELSE 0
  BY DEF Surplus
<1>6. total \in Nat
  BY <1>2
<1> HIDE DEF S, R, row, D, total
<1>7. CASE D = total
  <2>1. CASE format.factor > 1
    BY <1>2, <1>5, <1>7, <2>1 DEF total
  <2>2. CASE ~(format.factor > 1)
    BY <1>2, <1>5, <1>7, <2>2 DEF total
  <2>3. QED
    BY <2>1, <2>2
<1>8. CASE format.rows /\ (total % row) = 0
  <2>1. (total \div row) * row = total
    BY <1>1, <1>6, <1>8
  <2>2. QED
    BY <1>3, <1>7, <1>8, <2>1
<1>9. CASE format.rows /\ format.factor = 1 /\ total >= row
  <2>1. (total \div row) * row # 0
    BY <1>1, <1>6, <1>9
  <2>2. QED
    BY <1>3, <1>5, <1>9, <2>1
<1>10. QED
  BY <1>3, <1>4, <1>7, <1>8, <1>9

(* The header of a file of WavFileSimplePcm, written before the samples,   *)
(* says how long the file is, whatever the format, the cue points, labels  *)
(* and pieces, when the samples fill their rows and no piece is empty.     *)
THEOREM RiffSizeIsLengthAlways == Spec => []RiffSizeIsLength
<1>1. WriterInvariant /\ FileInvariant => RiffSizeIsLength
  <2> SUFFICES ASSUME WriterInvariant, FileInvariant, Simply("written"), file # NoFile, whole,
                      RowsAreFull, \A i \in DOMAIN pieces : pieces[i] > 0
               PROVE  file.length = ChunkHeader + file.riff
    BY DEF RiffSizeIsLength
  <2>1. WriterTypes /\ stage = "written" /\ source = "WavFileSimplePcm"
    BY DEF WriterInvariant, Simply
  <2>2. file = SimpleFile(SamplesWritten)
    BY <2>1 DEF FileInvariant, Whole
  <2>3. SamplesWritten \in Nat
    BY <2>1, SamplesWrittenIs
  <2>4. /\ file.length = DataAt + Padded(DataLength(SamplesWritten))
        /\ ChunkHeader + file.riff = DataAt + Padded(DataBytes)
    BY <2>1, <2>2, <2>3, SimpleLength
  <2>5. Padded(DataLength(SamplesWritten)) = Padded(DataBytes) + Surplus
    BY <2>1, SurplusIs
  <2>6. Surplus = 0
    BY <2>1, NoSurplus
  <2>7. Padded(DataBytes) \in Nat
    BY <2>1, RiffSizeIs, PaddedIs
  <2>8. QED
    BY <2>4, <2>5, <2>6, <2>7
<1>2. QED
  BY <1>1, WriterInvariantHolds, FileInvariantHolds, PTL

-----------------------------------------------------------------------------
(* What WavFileDiskPcm finds.                                              *)

Candidates(f, id) ==
  {c \in f.chunks : /\ c.id = id /\ c.parent = 0
                    /\ c.at < RiffEnd(f) /\ c.at + HeaderSize[id] <= f.length}

(* This is the first chunk of a kind if there is one before p.             *)
FirstTo(f, id, x, p) ==
  \/ x = 0 /\ \A d \in Candidates(f, id) : p <= d.at
  \/ \E c \in Candidates(f, id) : c.at = x /\ c.at < p /\ \A d \in Candidates(f, id) : x <= d.at

FoundTo(f, all, p) == \A id \in Single : FirstTo(f, id, all[id], p)

(* Every first chunk has been found.                                       *)
FoundAll(f, all) ==
  \A id \in Single :
    \/ all[id] = 0 /\ Candidates(f, id) = {}
    \/ \E c \in Candidates(f, id) : c.at = all[id] /\ \A d \in Candidates(f, id) : all[id] <= d.at

(* The outer loop is where a chunk begins or the file ends.                *)
AtTop(f, all, p) == p \in Nat /\ p < RiffEnd(f) /\ Follow(f, p) /\ FoundTo(f, all, p)

(* The inner loop is there in its list, or at its end.                     *)
AtList(f, all, p, c) ==
  /\ c \in f.chunks /\ c.parent = 0 /\ c.id = "LIST" /\ c.at = all.LIST
  /\ p \in Nat /\ FollowIn(f, c, p) /\ FoundTo(f, all, SeekEnd(c))

DiskInvariant ==
  /\ loop \in {"idle", "riff", "adtl", "done"}
  /\ DOMAIN found = Single /\ found = [id \in Single |-> found[id]]
  /\ loop = "idle" => \A id \in Single : found[id] = 0
  /\ loop = "riff" => file # NoFile /\ AtTop(file, found, pos)
  /\ loop = "adtl" => file # NoFile /\ \E c \in file.chunks : AtList(file, found, pos, c)
  /\ (loop = "done" /\ file # NoFile) => FoundAll(file, found)

LEMMA ChunkIs ==
  ASSUME NEW f, Layout(f), NEW c \in f.chunks
  PROVE  /\ c.at \in Nat /\ HeaderSize.RIFF <= c.at /\ c.at < f.length /\ c.size \in Nat
         /\ SeekEnd(c) \in Nat /\ c.at + ChunkHeader <= SeekEnd(c) /\ c.at < SeekEnd(c)
         /\ c.at # 0
         /\ f.length \in Nat /\ RiffEnd(f) \in Nat /\ f.riff \in Nat
<1>1. c.at \in Nat /\ HeaderSize.RIFF <= c.at /\ c.at < f.length /\ c.size \in Nat
      /\ f.length \in Nat /\ f.riff \in Nat
  BY DEF Layout, LayoutTypes
<1>2. Padded(c.size) \in Nat /\ Padded(f.riff) \in Nat
  BY <1>1, PaddedIs
<1>3. HeaderSize.RIFF = 12
  BY DEF HeaderSize
<1>4. QED
  BY <1>1, <1>2, <1>3 DEF SeekEnd, RiffEnd, ChunkHeader

(* A chunk is passed.                                                      *)
LEMMA Passed ==
  ASSUME NEW f, Layout(f), NEW c \in f.chunks, c.parent = 0, NEW id \in Single, NEW x,
         FirstTo(f, id, x, c.at)
  PROVE  /\ (x # 0 \/ c \notin Candidates(f, id)) => FirstTo(f, id, x, SeekEnd(c))
         /\ (x = 0 /\ c \in Candidates(f, id)) => FirstTo(f, id, c.at, SeekEnd(c))
<1>1. c.at \in Nat /\ SeekEnd(c) \in Nat /\ c.at < SeekEnd(c) /\ c.at # 0
  BY ChunkIs
<1>2. \A d \in Candidates(f, id) : d \in f.chunks /\ d.parent = 0 /\ d.at \in Nat /\ d.at # 0
  BY ChunkIs DEF Candidates
<1>3. ASSUME NEW d \in Candidates(f, id), c.at <= d.at
      PROVE  d = c \/ SeekEnd(c) <= d.at
  <2>1. CASE d.at = c.at
    BY <1>2, <2>1 DEF Layout, Apart
  <2>2. CASE c.at < d.at
    BY <1>2, <2>2 DEF Layout, Apart
  <2>3. QED
    BY <1>1, <1>2, <1>3, <2>1, <2>2
<1>4. CASE x = 0
  <2>1. \A d \in Candidates(f, id) : c.at <= d.at
    BY <1>2, <1>4 DEF FirstTo
  <2>2. CASE c \in Candidates(f, id)
    BY <1>1, <1>4, <2>1, <2>2 DEF FirstTo
  <2>3. CASE c \notin Candidates(f, id)
    <3>1. \A d \in Candidates(f, id) : SeekEnd(c) <= d.at
      BY <1>3, <2>1, <2>3
    <3>2. QED
      BY <1>4, <2>3, <3>1 DEF FirstTo
  <2>4. QED
    BY <2>2, <2>3
<1>5. CASE x # 0
  <2>1. PICK b \in Candidates(f, id) : b.at = x /\ b.at < c.at /\ \A d \in Candidates(f, id) : x <= d.at
    BY <1>5 DEF FirstTo
  <2>2. b.at < SeekEnd(c)
    BY <1>1, <1>2, <2>1
  <2>3. QED
    BY <1>5, <2>1, <2>2 DEF FirstTo
<1>6. QED
  BY <1>4, <1>5

(* What is found up to here is all that is found.                          *)
LEMMA FoundThen ==
  ASSUME NEW f, Layout(f), NEW all, NEW p, FoundTo(f, all, p),
         \A id \in Single : \A d \in Candidates(f, id) : ~(p <= d.at)
  PROVE  FoundAll(f, all)
BY DEF FoundTo, FirstTo, FoundAll

LEMMA FileLength ==
  ASSUME NEW f, Layout(f)
  PROVE  f.length \in Nat /\ f.length >= 12 /\ RiffEnd(f) \in Nat /\ RiffEnd(f) > 12
<1>1. HeaderSize.RIFF = 12
  BY DEF HeaderSize
<1>2. f.riff \in Nat
  BY DEF Layout, LayoutTypes
<1>3. Padded(f.riff) \in Nat
  BY <1>2, PaddedIs
<1>4. QED
  BY <1>1, <1>3 DEF Layout, LayoutTypes, RiffEnd, ChunkHeader

(* After a chunk of the file itself.                                       *)
LEMMA OuterKeeps ==
  ASSUME Layout(file), NEW c \in file.chunks, c.parent = 0, Outer(SeekEnd(c)),
         NEW all, FoundTo(file, all, SeekEnd(c))
  PROVE  /\ loop' \in {"riff", "done"}
         /\ loop' = "riff" => AtTop(file, all, pos')
         /\ loop' = "done" => FoundAll(file, all)
<1>1. SeekEnd(c) \in Nat /\ RiffEnd(file) \in Nat
  BY ChunkIs
<1>2. /\ pos' = SeekEnd(c)
      /\ loop' = IF SeekEnd(c) < RiffEnd(file) THEN "riff" ELSE "done"
  BY DEF Outer, InRiff, RiffEnd
<1>3. CASE SeekEnd(c) < RiffEnd(file)
  <2>1. Follow(file, SeekEnd(c))
    <3>1. ~(RiffEnd(file) <= SeekEnd(c))
      BY <1>1, <1>3
    <3>2. QED
      BY <3>1 DEF Layout, TopsFollow
  <2>2. QED
    BY <1>1, <1>2, <1>3, <2>1 DEF AtTop
<1>4. CASE ~(SeekEnd(c) < RiffEnd(file))
  <2>1. ASSUME NEW id \in Single, NEW d \in Candidates(file, id)
        PROVE  ~(SeekEnd(c) <= d.at)
    <3>1. d \in file.chunks /\ d.at < RiffEnd(file)
      BY DEF Candidates
    <3>2. d.at \in Nat
      BY <3>1, ChunkIs
    <3>3. QED
      BY <1>1, <1>4, <3>1, <3>2
  <2>2. FoundAll(file, all)
    BY <2>1, FoundThen
  <2>3. QED
    BY <1>2, <1>4, <2>2
<1>5. QED
  BY <1>3, <1>4

LEMMA TopHere ==
  ASSUME Layout(file), NEW p \in Nat, Follow(file, p), NEW c \in HeaderAt(p)
  PROVE  c \in file.chunks /\ c.parent = 0 /\ c.at = p
<1>1. c \in file.chunks /\ c.at = p
  BY DEF HeaderAt
<1>2. c.at < file.length /\ c.at \in Nat /\ file.length \in Nat
  BY <1>1, ChunkIs
<1>3. PICK d \in file.chunks : d.parent = 0 /\ d.at = p
  BY <1>1, <1>2 DEF Follow, TopAt
<1>4. c = d
  BY <1>1, <1>3 DEF Layout, Apart
<1>5. QED
  BY <1>1, <1>3, <1>4

(* The list is the only chunk where it is.                                 *)
LEMMA ListHere ==
  ASSUME Layout(file), NEW all, NEW p, NEW c, AtList(file, all, p, c)
  PROVE  /\ HeaderAt(all.LIST) = {c} /\ c \in file.chunks /\ c.parent = 0 /\ c.id = "LIST"
         /\ c.at = all.LIST /\ SeekEnd(c) \in Nat /\ Follow(file, SeekEnd(c))
<1>1. c \in file.chunks /\ c.parent = 0 /\ c.id = "LIST" /\ c.at = all.LIST
  BY DEF AtList
<1>2. HeaderAt(all.LIST) = {c}
  BY <1>1 DEF HeaderAt, Layout, Apart
<1>3. SeekEnd(c) \in Nat
  BY <1>1, ChunkIs
<1>4. Follow(file, SeekEnd(c))
  BY <1>1 DEF Layout, TopsFollow
<1>5. QED
  BY <1>1, <1>2, <1>3, <1>4

LEMMA InnerHere ==
  ASSUME Layout(file), NEW all, NEW p, NEW c, AtList(file, all, p, c), NEW d \in HeaderAt(p)
  PROVE  /\ d \in file.chunks /\ d.at = p
         /\ \/ p < SeekEnd(c) /\ d.parent = c.at
            \/ p = SeekEnd(c) /\ d.parent = 0 /\ SeekEnd(c) < SeekEnd(d)
<1>1. d \in file.chunks /\ d.at = p
  BY DEF HeaderAt
<1>2. d.at < file.length /\ d.at \in Nat /\ file.length \in Nat /\ d.at < SeekEnd(d)
  BY <1>1, ChunkIs
<1>3. FollowIn(file, c, p) /\ p \in Nat
  BY DEF AtList
<1>4. CASE p = SeekEnd(c)
  <2>1. Follow(file, p)
    BY <1>4, ListHere
  <2>2. d.parent = 0
    BY <1>3, <2>1, TopHere
  <2>3. QED
    BY <1>1, <1>2, <1>4, <2>2
<1>5. CASE p # SeekEnd(c)
  <2>1. p < SeekEnd(c) /\ InnerAt(file, c, p)
    BY <1>1, <1>2, <1>3, <1>5 DEF FollowIn
  <2>2. PICK e \in file.chunks : e.parent = c.at /\ e.at = p
    BY <2>1 DEF InnerAt
  <2>3. e = d
    BY <1>1, <2>2 DEF Layout, Apart
  <2>4. QED
    BY <1>1, <2>1, <2>2, <2>3
<1>6. QED
  BY <1>4, <1>5

(* After a chunk inside the list the loop is at the next one, or leaves.   *)
LEMMA InnerKeeps ==
  ASSUME Layout(file), NEW c, AtList(file, found, pos, c), found' = found,
         NEW d \in HeaderAt(pos), Inner(SeekEnd(d), TRUE)
  PROVE  \/ loop' = "adtl" /\ pos' = SeekEnd(d) /\ AtList(file, found, SeekEnd(d), c)
            /\ pos < SeekEnd(c)
         \/ Outer(SeekEnd(c))
<1>1. HeaderAt(found.LIST) = {c} /\ SeekEnd(c) \in Nat /\ c \in file.chunks
  BY ListHere
<1>2. /\ d \in file.chunks /\ d.at = pos
      /\ \/ pos < SeekEnd(c) /\ d.parent = c.at
         \/ pos = SeekEnd(c) /\ d.parent = 0 /\ SeekEnd(c) < SeekEnd(d)
  BY InnerHere
<1>3. SeekEnd(d) \in Nat
  BY <1>2, ChunkIs
<1>4. InList(SeekEnd(d)) <=> SeekEnd(d) < SeekEnd(c)
  BY <1>1 DEF InList
<1>5. CASE SeekEnd(d) < SeekEnd(c)
  <2>1. pos' = SeekEnd(d) /\ loop' = "adtl"
    BY <1>4, <1>5 DEF Inner
  <2>2. pos < SeekEnd(c) /\ d.parent = c.at
    BY <1>1, <1>2, <1>3, <1>5
  <2>3. FollowIn(file, c, SeekEnd(d))
    BY <1>1, <1>2, <2>2 DEF Layout, InnersFollow
  <2>4. AtList(file, found, SeekEnd(d), c)
    BY <1>3, <2>3 DEF AtList
  <2>5. QED
    BY <2>1, <2>2, <2>4
<1>6. CASE ~(SeekEnd(d) < SeekEnd(c))
  BY <1>1, <1>4, <1>6 DEF Inner
<1>7. QED
  BY <1>5, <1>6

(* A chunk that is no candidate yet, or of a kind that was found.          *)
LEMMA FitsIs ==
  ASSUME Layout(file), NEW c \in HeaderAt(pos), AtTop(file, found, pos), NEW id \in Single
  PROVE  Fits(c, id) <=> (found[id] = 0 /\ c \in Candidates(file, id))
<1>1. c \in file.chunks /\ c.parent = 0 /\ c.at = pos
  BY TopHere DEF AtTop
<1>2. c.at < RiffEnd(file)
  BY <1>1 DEF AtTop
<1>3. QED
  BY <1>1, <1>2 DEF Fits, Candidates, CanRead

LEMMA DiskInvariantTake ==
  ASSUME Layout(file), file # NoFile, DiskInvariant, file' = file, loop = "riff",
         NEW c \in HeaderAt(pos), NEW id \in Single, Fits(c, id),
         found' = [found EXCEPT ![id] = pos]
  PROVE  /\ c \in file.chunks /\ c.parent = 0 /\ c.at = pos /\ c.id = id
         /\ FoundTo(file, found', SeekEnd(c)) /\ found'[id] = pos
         /\ DOMAIN found' = Single /\ found' = [k \in Single |-> found'[k]]
<1>1. AtTop(file, found, pos) /\ DOMAIN found = Single /\ found = [k \in Single |-> found[k]]
  BY DEF DiskInvariant
<1>2. c \in file.chunks /\ c.parent = 0 /\ c.at = pos
  BY <1>1, TopHere DEF AtTop
<1>3. found[id] = 0 /\ c \in Candidates(file, id) /\ c.id = id
  BY <1>1, FitsIs DEF Fits
<1>4. DOMAIN found' = Single /\ found' = [k \in Single |-> found'[k]]
      /\ \A k \in Single : found'[k] = IF k = id THEN pos ELSE found[k]
  BY <1>1
<1>5. ASSUME NEW k \in Single
      PROVE  FirstTo(file, k, found'[k], SeekEnd(c))
  <2>1. FirstTo(file, k, found[k], c.at)
    BY <1>1, <1>2 DEF AtTop, FoundTo
  <2>2. CASE k = id
    BY <1>2, <1>3, <1>4, <2>1, <2>2, Passed
  <2>3. CASE k # id
    <3>1. c \notin Candidates(file, k)
      BY <1>3, <2>3 DEF Candidates
    <3>2. QED
      BY <1>2, <1>4, <2>1, <2>3, <3>1, Passed
  <2>4. QED
    BY <2>2, <2>3
<1>6. QED
  BY <1>2, <1>3, <1>4, <1>5 DEF FoundTo

LEMMA DiskInvariantStep ==
  ASSUME DiskInvariant, file # NoFile => Layout(file), file' = file, DiskNext
  PROVE  DiskInvariant'
<1>1. DOMAIN found = Single /\ found = [id \in Single |-> found[id]]
  BY DEF DiskInvariant
<1>2. CASE Open
  <2>1. CASE file # NoFile
    <3>1. Layout(file) /\ file.length >= 12 /\ HeaderSize.RIFF = 12 /\ file.length \in Nat
          /\ RiffEnd(file) > 12 /\ RiffEnd(file) \in Nat
      BY <2>1, FileLength DEF HeaderSize
    <3>2. CanRead(0, HeaderSize.RIFF)
      BY <3>1 DEF CanRead
    <3>3. pos' = 12 /\ loop' = "riff" /\ found' = found /\ loop = "idle"
      BY <1>2, <2>1, <3>1, <3>2 DEF Open
    <3>4. \A id \in Single : found[id] = 0
      BY <3>3 DEF DiskInvariant
    <3>5. FoundTo(file, found, 12)
      <4>1. ASSUME NEW id \in Single, NEW d \in Candidates(file, id)
            PROVE  12 <= d.at
        BY <3>1, ChunkIs DEF Candidates
      <4>2. QED
        BY <3>4, <4>1 DEF FoundTo, FirstTo
    <3>6. Follow(file, 12)
      BY <3>1 DEF Layout, TopsFollow
    <3>7. AtTop(file, found, 12)
      BY <3>1, <3>5, <3>6 DEF AtTop
    <3>8. QED
      BY <1>1, <2>1, <3>3, <3>7 DEF DiskInvariant
  <2>2. CASE file = NoFile
    <3>1. found' = [found EXCEPT !.fmt = Created] /\ loop' = "done"
      BY <1>2, <2>2 DEF Open
    <3>2. DOMAIN found' = Single /\ found' = [id \in Single |-> found'[id]]
      BY <1>1, <3>1
    <3>3. QED
      BY <2>2, <3>1, <3>2 DEF DiskInvariant
  <2>3. QED
    BY <2>1, <2>2
<1>3. CASE Take
  <2>1. PICK c \in HeaderAt(pos), id \in Single \ {"LIST"} :
          Fits(c, id) /\ found' = [found EXCEPT ![id] = pos] /\ Outer(SeekEnd(c))
    BY <1>3 DEF Take
  <2>2. loop = "riff" /\ file # NoFile /\ Layout(file)
    BY <1>3 DEF Take, DiskInvariant
  <2>3. /\ c \in file.chunks /\ c.parent = 0
        /\ FoundTo(file, found', SeekEnd(c))
        /\ DOMAIN found' = Single /\ found' = [k \in Single |-> found'[k]]
    BY <2>1, <2>2, DiskInvariantTake
  <2>4. /\ loop' \in {"riff", "done"}
        /\ loop' = "riff" => AtTop(file, found', pos')
        /\ loop' = "done" => FoundAll(file, found')
    BY <2>1, <2>2, <2>3, OuterKeeps
  <2>5. QED
    BY <2>2, <2>3, <2>4 DEF DiskInvariant
<1>4. CASE EnterList
  <2>1. PICK c \in HeaderAt(pos) : Fits(c, "LIST")
    BY <1>4 DEF EnterList
  <2>2. /\ loop = "riff" /\ found' = [found EXCEPT !.LIST = pos]
        /\ pos' = pos + HeaderSize.LIST /\ loop' = "adtl"
    BY <1>4 DEF EnterList
  <2>3. file # NoFile /\ Layout(file) /\ "LIST" \in Single
    BY <2>2 DEF DiskInvariant, Single
  <2>4. /\ c \in file.chunks /\ c.parent = 0 /\ c.at = pos /\ c.id = "LIST"
        /\ FoundTo(file, found', SeekEnd(c)) /\ found'["LIST"] = pos
        /\ DOMAIN found' = Single /\ found' = [k \in Single |-> found'[k]]
    BY <2>1, <2>2, <2>3, DiskInvariantTake
  <2>5. FollowIn(file, c, c.at + HeaderSize.LIST)
    BY <2>3, <2>4 DEF Layout, InnersFollow
  <2>6. pos' \in Nat
    BY <2>2, <2>3, <2>4, ChunkIs DEF HeaderSize
  <2>7. AtList(file, found', pos', c)
    BY <2>2, <2>4, <2>5, <2>6 DEF AtList
  <2>8. QED
    BY <2>2, <2>3, <2>4, <2>7 DEF DiskInvariant
<1>5. CASE TakeNamed \/ (Skip /\ loop = "adtl")
  <2>1. loop = "adtl" /\ found' = found /\ file # NoFile /\ Layout(file)
    BY <1>5 DEF TakeNamed, Skip, DiskInvariant
  <2>2. PICK d \in HeaderAt(pos) : Inner(SeekEnd(d), TRUE)
    BY <1>5, <2>1 DEF TakeNamed, Skip
  <2>3. PICK c \in file.chunks : AtList(file, found, pos, c)
    BY <2>1 DEF DiskInvariant
  <2>4. CASE loop' = "adtl" /\ pos' = SeekEnd(d) /\ AtList(file, found, SeekEnd(d), c)
    BY <1>1, <2>1, <2>3, <2>4 DEF DiskInvariant
  <2>5. CASE Outer(SeekEnd(c))
    <3>1. c.parent = 0 /\ FoundTo(file, found, SeekEnd(c))
      BY <2>3 DEF AtList
    <3>2. /\ loop' \in {"riff", "done"}
          /\ loop' = "riff" => AtTop(file, found, pos')
          /\ loop' = "done" => FoundAll(file, found)
      BY <2>1, <2>3, <2>5, <3>1, OuterKeeps
    <3>3. QED
      BY <1>1, <2>1, <3>2 DEF DiskInvariant
  <2>6. QED
    BY <2>1, <2>2, <2>3, <2>4, <2>5, InnerKeeps
<1>6. CASE Skip /\ loop = "riff"
  <2>1. found' = found /\ file # NoFile /\ Layout(file) /\ AtTop(file, found, pos)
    BY <1>6 DEF Skip, DiskInvariant
  <2>2. PICK c \in HeaderAt(pos) : (\A id \in Single : ~Fits(c, id)) /\ Outer(SeekEnd(c))
    BY <1>6 DEF Skip
  <2>3. c \in file.chunks /\ c.parent = 0 /\ c.at = pos
    BY <2>1, TopHere DEF AtTop
  <2>4. ASSUME NEW id \in Single
        PROVE  FirstTo(file, id, found[id], SeekEnd(c))
    <3>1. found[id] # 0 \/ c \notin Candidates(file, id)
      BY <2>1, <2>2, FitsIs
    <3>2. FirstTo(file, id, found[id], c.at)
      BY <2>1, <2>3 DEF AtTop, FoundTo
    <3>3. QED
      BY <2>1, <2>3, <3>1, <3>2, Passed
  <2>5. FoundTo(file, found, SeekEnd(c))
    BY <2>4 DEF FoundTo
  <2>6. /\ loop' \in {"riff", "done"}
        /\ loop' = "riff" => AtTop(file, found, pos')
        /\ loop' = "done" => FoundAll(file, found)
    BY <2>1, <2>2, <2>3, <2>5, OuterKeeps
  <2>7. QED
    BY <1>1, <2>1, <2>6 DEF DiskInvariant
<1>7. CASE Break /\ loop = "riff"
  <2>1. found' = found /\ file # NoFile /\ Layout(file) /\ AtTop(file, found, pos) /\ loop' = "done"
        /\ ~CanRead(pos, ChunkHeader)
    BY <1>7 DEF Break, DiskInvariant
  <2>2. file.length \in Nat /\ pos \in Nat
    BY <2>1 DEF Layout, LayoutTypes, AtTop
  <2>3. ASSUME NEW id \in Single, NEW d \in Candidates(file, id)
        PROVE  ~(pos <= d.at)
    <3>1. d.at \in Nat /\ d.at + HeaderSize[id] <= file.length
      BY <2>1, ChunkIs DEF Candidates
    <3>2. HeaderSize[id] \in Nat /\ HeaderSize[id] >= 8
      BY DEF HeaderSize, Single
    <3>3. ~(pos + 8 <= file.length)
      BY <2>1 DEF CanRead, ChunkHeader
    <3>4. QED
      BY <2>2, <3>1, <3>2, <3>3
  <2>4. FoundAll(file, found)
    BY <2>1, <2>3, FoundThen DEF AtTop
  <2>5. QED
    BY <1>1, <2>1, <2>4 DEF DiskInvariant
<1>8. CASE Break /\ loop = "adtl"
  <2>1. found' = found /\ file # NoFile /\ Layout(file) /\ Inner(pos, FALSE)
    BY <1>8 DEF Break, DiskInvariant
  <2>2. PICK c \in file.chunks : AtList(file, found, pos, c)
    BY <1>8 DEF DiskInvariant
  <2>3. Outer(SeekEnd(c))
    BY <2>1, <2>2, ListHere DEF Inner
  <2>4. c.parent = 0 /\ FoundTo(file, found, SeekEnd(c))
    BY <2>2 DEF AtList
  <2>5. /\ loop' \in {"riff", "done"}
        /\ loop' = "riff" => AtTop(file, found, pos')
        /\ loop' = "done" => FoundAll(file, found)
    BY <2>1, <2>2, <2>3, <2>4, OuterKeeps
  <2>6. QED
    BY <1>1, <2>1, <2>5 DEF DiskInvariant
<1>9. loop \in {"riff", "adtl"} \/ ~(Skip \/ Break)
  BY DEF Skip, Break
<1>10. QED
  BY <1>2, <1>3, <1>4, <1>5, <1>6, <1>7, <1>8, <1>9 DEF DiskNext

(* Nobody writes while somebody reads.                                     *)
LEMMA FileStays ==
  ASSUME WriterInvariant, FileInvariant, Reading, [Next]_vars
  PROVE  UNCHANGED <<file, source, whole, wavVars>>
<1>1. ~Simple
  <2> SUFFICES ASSUME Simple
               PROVE  FALSE
    OBVIOUS
  <2>1. source = "WavFileSimplePcm" /\ WavNext
    BY DEF Simple
  <2>2. file # NoFile /\ stage = "written"
    BY <2>1 DEF FileInvariant, Whose
  <2>3. QED
    BY <2>1, <2>2, WriterWrites
<1>2. ~writeFormatFile /\ ~OtherWrites /\ ~CutShort
  BY DEF writeFormatFile, OtherWrites, CutShort, FileInvariant, Whose
<1>3. Disk \/ readHeader \/ UNCHANGED vars
  BY <1>1, <1>2 DEF Next
<1>4. QED
  BY <1>3 DEF Disk, readHeader, vars

LEMMA DiskInvariantKept ==
  ASSUME WriterInvariant, FileInvariant, DiskInvariant, [Next]_vars
  PROVE  DiskInvariant'
<1>1. CASE Disk
  <2>1. file' = file /\ DiskNext /\ (file # NoFile => Layout(file))
    BY <1>1 DEF Disk, FileInvariant
  <2>2. QED
    BY <2>1, DiskInvariantStep
<1>2. CASE ~Disk
  <2>1. UNCHANGED diskVars
    BY <1>2 DEF Next, Simple, writeFormatFile, OtherWrites, CutShort, readHeader, vars
  <2>2. CASE loop = "idle"
    BY <2>1, <2>2 DEF DiskInvariant, diskVars
  <2>3. CASE loop # "idle"
    <3>1. file' = file
      BY <2>3, FileStays DEF Reading
    <3>2. QED
      BY <2>1, <3>1 DEF DiskInvariant, diskVars
  <2>4. QED
    BY <2>2, <2>3
<1>3. QED
  BY <1>1, <1>2

LEMMA DiskInvariantHolds == Spec => []DiskInvariant
<1>1. Init => DiskInvariant
  BY DEF Init, DiskInit, DiskInvariant
<1>2. WriterInvariant /\ FileInvariant /\ DiskInvariant /\ [Next]_vars => DiskInvariant'
  BY DiskInvariantKept
<1>3. QED
  BY <1>1, <1>2, WriterInvariantHolds, FileInvariantHolds, PTL DEF Spec

(* Whatever the file holds and wherever it was cut off, the reader only    *)
(* takes for a header what is one: after a chunk, a list or what is inside *)
(* it there is the next chunk, or too little for any.                      *)
THEOREM ReadsHeadersAlways == Spec => []ReadsHeaders
<1>1. FileInvariant /\ DiskInvariant => ReadsHeaders
  <2> SUFFICES ASSUME FileInvariant, DiskInvariant, loop \in {"riff", "adtl"}, CanRead(pos, ChunkHeader)
               PROVE  HeaderAt(pos) # {}
    BY DEF ReadsHeaders
  <2>1. file # NoFile /\ Layout(file)
    BY DEF FileInvariant, DiskInvariant
  <2>2. file.length \in Nat /\ pos + 8 <= file.length
    BY <2>1 DEF CanRead, ChunkHeader, Layout, LayoutTypes
  <2>3. ASSUME pos \in Nat, Follow(file, pos)
        PROVE  HeaderAt(pos) # {}
    <3>1. TopAt(file, pos)
      BY <2>2, <2>3 DEF Follow
    <3>2. QED
      BY <3>1 DEF TopAt, HeaderAt
  <2>4. CASE loop = "riff"
    BY <2>3, <2>4 DEF DiskInvariant, AtTop
  <2>5. CASE loop = "adtl"
    <3>1. PICK c \in file.chunks : AtList(file, found, pos, c)
      BY <2>5 DEF DiskInvariant
    <3>2. pos \in Nat /\ FollowIn(file, c, pos) /\ Follow(file, SeekEnd(c))
      BY <2>1, <3>1, ListHere DEF AtList
    <3>3. CASE pos = SeekEnd(c)
      BY <2>3, <3>2, <3>3
    <3>4. CASE pos # SeekEnd(c)
      <4>1. InnerAt(file, c, pos)
        BY <2>2, <3>2, <3>4 DEF FollowIn
      <4>2. QED
        BY <4>1 DEF InnerAt, HeaderAt
    <3>5. QED
      BY <3>3, <3>4
  <2>6. QED
    BY <2>4, <2>5
<1>2. QED
  BY <1>1, FileInvariantHolds, DiskInvariantHolds, PTL

LEMMA FirstOfIs ==
  ASSUME Layout(file), NEW id \in Single
  PROVE  /\ Candidates(file, id) = {} => FirstOf(id) = 0
         /\ \A c \in Candidates(file, id) :
              (\A d \in Candidates(file, id) : c.at <= d.at) => FirstOf(id) = c.at
<1> DEFINE all == Candidates(file, id)
           places == {c.at : c \in all}
<1>1. FirstOf(id) = IF all = {} THEN 0 ELSE Min(places)
  <2> DEFINE these == {c \in file.chunks : c.id = id /\ c.parent = 0 /\ InRiff(c.at)
                                         /\ CanRead(c.at, HeaderSize[id])}
  <2>1. these = all
    BY DEF Candidates, InRiff, RiffEnd, CanRead
  <2>2. FirstOf(id) = IF these = {} THEN 0 ELSE Min({c.at : c \in these})
    BY Zenon DEF FirstOf
  <2> HIDE DEF these, all
  <2>3. QED
    BY <2>1, <2>2
<1>2. \A c \in all : c.at \in Nat
  BY ChunkIs DEF Candidates
<1> HIDE DEF all
<1>3. places \subseteq Nat
  BY <1>2
<1>4. ASSUME NEW c \in all, \A d \in all : c.at <= d.at
      PROVE  FirstOf(id) = c.at
  <2>1. c.at \in places /\ \A x \in places : c.at <= x
    BY <1>4
  <2> HIDE DEF places
  <2>2. Min(places) \in places /\ \A x \in places : Min(places) <= x
    BY <1>3, <2>1, MinIs
  <2> DEFINE m == Min(places)
             a == c.at
  <2>3. m \in Nat /\ a \in Nat /\ m <= a /\ a <= m
    BY <1>3, <2>1, <2>2
  <2> HIDE DEF m, a
  <2>4. m = a
    BY <2>3
  <2>5. Min(places) = c.at
    BY <2>4 DEF m, a
  <2>6. QED
    BY <1>1, <1>4, <2>5
<1>5. QED
  BY <1>1, <1>4 DEF all

(* Of every kind of chunk the reader has the first in the end, and of no   *)
(* kind one that is not there, in the files of all the writers, whole or   *)
(* cut off.                                                                *)
THEOREM FindsFirstAlways == Spec => []FindsFirst
<1>1. FileInvariant /\ DiskInvariant => FindsFirst
  <2> SUFFICES ASSUME FileInvariant, DiskInvariant, loop = "done", file # NoFile, NEW id \in Single
               PROVE  found[id] = FirstOf(id)
    BY DEF FindsFirst
  <2>1. Layout(file) /\ FoundAll(file, found)
    BY DEF FileInvariant, DiskInvariant
  <2>2. QED
    BY <2>1, FirstOfIs DEF FoundAll
<1>2. QED
  BY <1>1, FileInvariantHolds, DiskInvariantHolds, PTL

-----------------------------------------------------------------------------
(* What is in a file of WavFileSimplePcm.                                  *)

FmtAt == [at |-> 12, id |-> "fmt", size |-> 16, name |-> 0, parent |-> 0]

CueAt == [at |-> 36, id |-> "cue", size |-> CueBytes - ChunkHeader, name |-> points, parent |-> 0]

ListPlace == 36 + CueBytes

ListAt == [at |-> ListPlace, id |-> "LIST", size |-> ListBytes - ChunkHeader, name |-> 0, parent |-> 0]

SamplesAt ==
  [at |-> DataAt, id |-> "data", size |-> DataSize(format, pieces), name |-> 0, parent |-> 0]

AssocPlace(k) == Begin(WrittenAssoc, ListPlace + HeaderSize.LIST, k)

AssocAt(k) ==
  [at |-> AssocPlace(k), id |-> assoc[k].id, size |-> getSize(assoc[k]) - ChunkHeader,
   name |-> assoc[k].name, parent |-> ListPlace]

LEMMA SimpleTops ==
  ASSUME WriterTypes, NEW samples \in Nat, NEW c
  PROVE  c \in Tops(SimpleChunks(samples))
           <=> \/ c = FmtAt
               \/ c = CueAt /\ CueBytes # 0
               \/ c = ListAt /\ ListBytes # 0
               \/ c = SamplesAt /\ HasData
<1> DEFINE C == SimpleChunks(samples)
           W(i) == [at |-> TopPlace(C, i), id |-> C[i].id, size |-> C[i].size, name |-> C[i].name, parent |-> 0]
<1>1. /\ IsList(C) /\ Len(C) = 4
      /\ C[1] = Written("fmt", 0, 16, 24, <<>>)
      /\ C[2] = Written("cue", points, CueBytes - ChunkHeader, CueBytes, <<>>)
      /\ C[3] = Written("LIST", 0, ListBytes - ChunkHeader, ListBytes, WrittenAssoc)
      /\ C[4] = Written("data", 0, DataSize(format, pieces), DataLength(samples), <<>>)
      /\ DataLength(samples) \in Nat
      /\ TopPlace(C, 1) = 12 /\ TopPlace(C, 2) = 36 /\ TopPlace(C, 3) = 36 + CueBytes
      /\ TopPlace(C, 4) = DataAt
  BY SimpleChunksAre
<1>2. c \in Tops(C) <=> \E i \in {j \in DOMAIN C : C[j].bytes > 0} : c = W(i)
  BY Zenon DEF Tops, Placed, TopPlace
<1> HIDE DEF C
<1>3. /\ C[1].bytes = 24 /\ C[2].bytes = CueBytes /\ C[3].bytes = ListBytes
      /\ C[4].bytes = DataLength(samples)
      /\ C[1].size = 16 /\ C[2].size = CueBytes - ChunkHeader /\ C[3].size = ListBytes - ChunkHeader
      /\ C[4].size = DataSize(format, pieces)
      /\ C[1].id = "fmt" /\ C[2].id = "cue" /\ C[3].id = "LIST" /\ C[4].id = "data"
      /\ C[1].name = 0 /\ C[2].name = points /\ C[3].name = 0 /\ C[4].name = 0
  BY <1>1 DEF Written
<1>4. W(1) = FmtAt /\ W(2) = CueAt /\ W(3) = ListAt /\ W(4) = SamplesAt
  BY <1>1, <1>3 DEF FmtAt, CueAt, ListAt, SamplesAt, ListPlace
<1> HIDE DEF W
<1>5. DOMAIN C = 1 .. 4
  BY <1>1 DEF IsList
<1>6. /\ C[1].bytes > 0
      /\ C[2].bytes > 0 <=> CueBytes # 0
      /\ C[3].bytes > 0 <=> ListBytes # 0
      /\ C[4].bytes > 0 <=> HasData
  <2>1. CueBytes \in Nat /\ ListBytes \in Nat
    BY RiffSizeIs
  <2>2. DataLength(samples) > 0 <=> HasData
    BY DEF DataLength, ChunkHeader
  <2>3. QED
    BY <1>3, <2>1, <2>2
<1>7. \A i \in 1 .. 4 : i = 1 \/ i = 2 \/ i = 3 \/ i = 4
  OBVIOUS
<1>8. c \in Tops(C) <=> \/ (C[1].bytes > 0 /\ c = W(1)) \/ (C[2].bytes > 0 /\ c = W(2))
                        \/ (C[3].bytes > 0 /\ c = W(3)) \/ (C[4].bytes > 0 /\ c = W(4))
  <2>1. 1 \in 1 .. 4 /\ 2 \in 1 .. 4 /\ 3 \in 1 .. 4 /\ 4 \in 1 .. 4
    OBVIOUS
  <2>2. c \in Tops(C) <=> \E i \in 1 .. 4 : C[i].bytes > 0 /\ c = W(i)
    BY <1>2, <1>5
  <2>3. QED
    BY <1>7, <2>1, <2>2
<1>9. QED
  BY <1>4, <1>6, <1>8, Zenon DEF C

LEMMA SimpleInners ==
  ASSUME WriterTypes, NEW samples \in Nat, NEW c
  PROVE  (\E i \in DOMAIN SimpleChunks(samples) : c \in Inners(SimpleChunks(samples), i))
           <=> \E k \in 1 .. Len(assoc) : c = AssocAt(k)
<1> DEFINE C == SimpleChunks(samples)
<1>1. /\ IsList(C) /\ Len(C) = 4
      /\ C[1] = Written("fmt", 0, 16, 24, <<>>)
      /\ C[2] = Written("cue", points, CueBytes - ChunkHeader, CueBytes, <<>>)
      /\ C[3] = Written("LIST", 0, ListBytes - ChunkHeader, ListBytes, WrittenAssoc)
      /\ C[4] = Written("data", 0, DataSize(format, pieces), DataLength(samples), <<>>)
      /\ TopPlace(C, 3) = ListPlace
  BY SimpleChunksAre DEF ListPlace
<1> HIDE DEF C
<1>2. C[1].list = <<>> /\ C[2].list = <<>> /\ C[3].list = WrittenAssoc /\ C[4].list = <<>>
  BY <1>1 DEF Written
<1>3. DOMAIN C = 1 .. 4 /\ DOMAIN <<>> = {}
  BY <1>1 DEF IsList
<1>4. \A i \in 1 .. 4 : i = 1 \/ i = 2 \/ i = 3 \/ i = 4
  OBVIOUS
<1>5. \A start, parent : Placed(<<>>, start, parent) = {}
  BY <1>3 DEF Placed
<1>6. (\E i \in DOMAIN C : c \in Inners(C, i)) <=> c \in Inners(C, 3)
  <2>1. 3 \in 1 .. 4
    OBVIOUS
  <2>2. ASSUME NEW i \in 1 .. 4, c \in Inners(C, i)
        PROVE  i = 3
    BY <1>2, <1>4, <1>5, <2>2 DEF Inners
  <2>3. QED
    BY <1>3, <2>1, <2>2
<1>7. Inners(C, 3) = Placed(WrittenAssoc, ListPlace + HeaderSize.LIST, ListPlace)
  BY <1>1, <1>2 DEF Inners
<1> DEFINE V(k) == [at |-> AssocPlace(k), id |-> WrittenAssoc[k].id, size |-> WrittenAssoc[k].size,
                    name |-> WrittenAssoc[k].name, parent |-> ListPlace]
<1>8. c \in Inners(C, 3) <=> \E k \in {j \in DOMAIN WrittenAssoc : WrittenAssoc[j].bytes > 0} : c = V(k)
  BY <1>7, Zenon DEF Placed, AssocPlace
<1>9. /\ DOMAIN WrittenAssoc = 1 .. Len(assoc)
      /\ \A k \in 1 .. Len(assoc) : WrittenAssoc[k].bytes > 0 /\ V(k) = AssocAt(k)
  <2>1. Len(WrittenAssoc) = Len(assoc) /\ IsList(WrittenAssoc)
    BY AssocIs
  <2>2. ASSUME NEW k \in 1 .. Len(assoc)
        PROVE  WrittenAssoc[k].bytes > 0 /\ V(k) = AssocAt(k)
    <3>1. /\ WrittenAssoc[k].id = assoc[k].id /\ WrittenAssoc[k].name = assoc[k].name
          /\ WrittenAssoc[k].bytes \in Nat \ {0}
          /\ WrittenAssoc[k].size = getSize(assoc[k]) - ChunkHeader
      BY AssocIs
    <3>2. QED
      BY <3>1 DEF AssocAt
  <2>3. QED
    BY <2>1, <2>2 DEF IsList
<1> HIDE DEF V
<1>10. QED
  BY <1>6, <1>8, <1>9 DEF C

LEMMA SimpleHas ==
  ASSUME WriterTypes, NEW samples \in Nat, NEW c
  PROVE  c \in SimpleFile(samples).chunks
           <=> \/ c = FmtAt
               \/ c = CueAt /\ CueBytes # 0
               \/ c = ListAt /\ ListBytes # 0
               \/ c = SamplesAt /\ HasData
               \/ \E k \in 1 .. Len(assoc) : c = AssocAt(k)
<1>1. c \in SimpleFile(samples).chunks
        <=> \/ c \in Tops(SimpleChunks(samples))
            \/ \E i \in DOMAIN SimpleChunks(samples) : c \in Inners(SimpleChunks(samples), i)
  BY FileHas DEF SimpleFile
<1>2. c \in Tops(SimpleChunks(samples))
        <=> \/ c = FmtAt
            \/ c = CueAt /\ CueBytes # 0
            \/ c = ListAt /\ ListBytes # 0
            \/ c = SamplesAt /\ HasData
  BY SimpleTops
<1>3. (\E i \in DOMAIN SimpleChunks(samples) : c \in Inners(SimpleChunks(samples), i))
        <=> \E k \in 1 .. Len(assoc) : c = AssocAt(k)
  BY SimpleInners
<1>4. QED
  BY <1>1, <1>2, <1>3, Zenon

-----------------------------------------------------------------------------
(* Where readHeader gets to.                                               *)

(* What it relies on: the format comes first and is 16 bytes long, what is *)
(* before the samples has no pad bytes, and a header of samples is whole.  *)
Plain(f) ==
  /\ 36 <= f.length /\ Follow(f, 36)
  /\ \E c \in f.chunks : c.at = 12 /\ c.id = "fmt" /\ c.size = 16
  /\ \A c \in f.chunks :
       /\ (c.parent = 0 /\ c.id # "data") => c.size % 2 = 0
       /\ c.id = "data" => c.parent = 0 /\ 36 <= c.at /\ c.at + ChunkHeader <= f.length

LEMMA SimplePlain ==
  ASSUME WriterTypes, NEW samples \in Nat
  PROVE  Plain(SimpleFile(samples))
<1> DEFINE f == SimpleFile(samples)
<1>1. \A c : c \in f.chunks
         <=> \/ c = FmtAt
             \/ c = CueAt /\ CueBytes # 0
             \/ c = ListAt /\ ListBytes # 0
             \/ c = SamplesAt /\ HasData
             \/ \E k \in 1 .. Len(assoc) : c = AssocAt(k)
  BY SimpleHas
<1>2. f.length = DataAt + Padded(DataLength(samples))
  BY SimpleLength
<1>3. /\ CueBytes \in Nat /\ CueBytes % 2 = 0 /\ ListBytes \in Nat /\ ListBytes % 2 = 0
      /\ DataAt \in Nat /\ DataAt >= 36
  BY RiffSizeIs
<1>4. DataLength(samples) \in Nat /\ Padded(DataLength(samples)) \in Nat
      /\ DataLength(samples) <= Padded(DataLength(samples))
  BY SimpleChunksAre, PaddedIs
<1>5. Layout(f)
  BY SimpleSound, FileLaidOut DEF SimpleFile
<1> HIDE DEF f
<1>6. 36 <= f.length /\ f.length \in Nat
  BY <1>2, <1>3, <1>4
<1>7. /\ FmtAt.at = 12 /\ FmtAt.id = "fmt" /\ FmtAt.size = 16 /\ FmtAt.parent = 0
      /\ CueAt.size = CueBytes - 8
      /\ ListAt.size = ListBytes - 8
      /\ CueAt.id = "cue" /\ ListAt.id = "LIST"
      /\ SamplesAt.at = DataAt /\ SamplesAt.id = "data" /\ SamplesAt.parent = 0
  BY DEF FmtAt, CueAt, ListAt, SamplesAt, ChunkHeader
<1>8. Follow(f, 36)
  <2>1. FmtAt \in f.chunks
    BY <1>1
  <2>2. SeekEnd(FmtAt) = 36
    BY <1>7 DEF SeekEnd, ChunkHeader, Padded
  <2>3. QED
    BY <1>5, <1>7, <2>1, <2>2 DEF Layout, TopsFollow
<1>9. \A k \in 1 .. Len(assoc) :
         AssocAt(k).id \in {"labl", "file"} /\ AssocAt(k).parent = ListPlace /\ ListPlace # 0
  <2>1. ListPlace # 0
    BY <1>3 DEF ListPlace
  <2>2. \A k \in 1 .. Len(assoc) : assoc[k].id \in {"labl", "file"}
    BY AssocIs
  <2>3. QED
    BY <2>1, <2>2 DEF AssocAt
<1>10. ASSUME NEW c \in f.chunks, c.parent = 0, c.id # "data"
       PROVE  c.size % 2 = 0
  <2>1. (CueBytes - 8) % 2 = 0 /\ (ListBytes - 8) % 2 = 0 /\ 16 % 2 = 0
    BY <1>3
  <2>2. c = FmtAt \/ c = CueAt \/ c = ListAt
    BY <1>1, <1>7, <1>9, <1>10
  <2>3. QED
    BY <1>7, <2>1, <2>2
<1>11. ASSUME NEW c \in f.chunks, c.id = "data"
       PROVE  c.parent = 0 /\ 36 <= c.at /\ c.at + ChunkHeader <= f.length
  <2>1. c = SamplesAt /\ HasData
    BY <1>1, <1>7, <1>9, <1>11
  <2>2. DataLength(samples) >= 8
    BY <2>1 DEF DataLength, ChunkHeader
  <2>3. DataAt + 8 <= f.length
    BY <1>2, <1>3, <1>4, <2>2
  <2>4. QED
    BY <1>3, <1>7, <2>1, <2>3 DEF ChunkHeader
<1>12. FmtAt \in f.chunks
  BY <1>1
<1>13. Plain(f)
  BY <1>6, <1>7, <1>8, <1>10, <1>11, <1>12 DEF Plain
<1>14. QED
  BY <1>13 DEF f

LEMMA FormatPlain ==
  ASSUME NEW size \in Nat
  PROVE  Plain(FormatFile(size))
<1> DEFINE f == FormatFile(size)
           fmt == [at |-> 12, id |-> "fmt", size |-> 16, name |-> 0, parent |-> 0]
           data == [at |-> 36, id |-> "data", size |-> size, name |-> 0, parent |-> 0]
<1>1. f.length = 44 + size /\ f.chunks = {fmt, data}
  BY DEF FormatFile, WaveFormatEx, WavFileHeader
<1>2. /\ fmt.at = 12 /\ fmt.size = 16 /\ fmt.parent = 0 /\ fmt.id = "fmt"
      /\ data.at = 36 /\ data.parent = 0 /\ data.id = "data"
  OBVIOUS
<1> HIDE DEF f, fmt, data
<1>3. Follow(f, 36)
  BY <1>1, <1>2 DEF Follow, TopAt
<1>4. Plain(f)
  BY <1>1, <1>2, <1>3 DEF Plain, ChunkHeader
<1>5. QED
  BY <1>4 DEF f

(* The fields before this position have no samples.                        *)
AtField(f, p) ==
  p \in Nat /\ Follow(f, p) /\ \A c \in f.chunks : c.id = "data" => p <= c.at

OwnFile == whole /\ source \in {"WavFileSimplePcm", "WavFormat"}

HeaderInvariant ==
  /\ reading \in {"idle", "fields", "done", "thrown", "lost"}
  /\ reading # "idle" => file # NoFile
  /\ OwnFile =>
       /\ reading = "fields" => AtField(file, next)
       /\ reading = "done" => \E c \in file.chunks :
                                c.id = "data" /\ total_bytes = c.size /\ next = c.at + ChunkHeader
       /\ reading = "thrown" => \A c \in file.chunks : c.id # "data"
       /\ reading # "lost"

LEMMA OwnPlain ==
  ASSUME WriterInvariant, FileInvariant, OwnFile, file # NoFile
  PROVE  Plain(file) /\ Layout(file)
<1>1. Layout(file) /\ WriterTypes
  BY DEF FileInvariant, WriterInvariant
<1>2. CASE source = "WavFileSimplePcm"
  <2>1. file = SimpleFile(SamplesWritten)
    BY <1>2 DEF FileInvariant, Whole, OwnFile
  <2>2. QED
    BY <1>1, <2>1, SamplesWrittenIs, SimplePlain
<1>3. CASE source = "WavFormat"
  <2>1. PICK size \in FormatSizes : file = FormatFile(size)
    BY <1>3 DEF FileInvariant, Whole, OwnFile
  <2>2. QED
    BY <1>1, <2>1, FormatPlain, SourcesAssumption
<1>4. QED
  BY <1>2, <1>3 DEF OwnFile

LEMMA HeaderInvariantStep ==
  ASSUME Layout(file), OwnFile => Plain(file), HeaderInvariant, file # NoFile,
         UNCHANGED <<file, source, whole>>, FormatNext
  PROVE  HeaderInvariant'
<1>1. OwnFile' = OwnFile
  BY DEF OwnFile
<1>2. CASE ~OwnFile
  <2>1. reading' \in {"idle", "fields", "done", "thrown", "lost"}
    BY DEF HeaderInvariant, FormatNext, readFormat, readField, misreadField, Throw
  <2>2. QED
    BY <1>1, <1>2, <2>1 DEF HeaderInvariant
<1>3. CASE OwnFile
  <2>1. Plain(file) /\ file.length \in Nat /\ 36 <= file.length
    BY <1>3, FileLength DEF Plain
  <2>2. CASE readFormat
    <3>1. PICK c \in file.chunks : c.at = 12 /\ c.id = "fmt" /\ c.size = 16
      BY <2>1 DEF Plain
    <3>2. HeaderAt(12) = {c}
      BY <3>1 DEF HeaderAt, Layout, Apart
    <3>3. CanRead(0, RiffHeader) /\ CanRead(RiffHeader, c.size)
      BY <2>1, <3>1 DEF CanRead, RiffHeader
    <3>4. next' = 36 /\ reading' = "fields"
      BY <2>2, <3>1, <3>2, <3>3 DEF readFormat, RiffHeader
    <3>5. AtField(file, 36)
      BY <2>1 DEF AtField, Plain
    <3>6. QED
      BY <1>1, <3>4, <3>5 DEF HeaderInvariant
  <2>3. CASE readField \/ misreadField
    <3>1. reading = "fields" /\ AtField(file, next)
      BY <1>3, <2>3 DEF readField, misreadField, HeaderInvariant
    <3>2. CASE CanRead(next, ChunkHeader)
      <4>1. PICK c \in file.chunks : c.parent = 0 /\ c.at = next
        <5>1. ~(file.length <= next)
          BY <2>1, <3>1, <3>2 DEF CanRead, ChunkHeader, AtField
        <5>2. QED
          BY <3>1, <5>1 DEF AtField, Follow, TopAt
      <4>2. HeaderAt(next) = {c}
        BY <4>1 DEF HeaderAt, Layout, Apart
      <4>3. ~misreadField /\ readField
        BY <2>3, <4>2 DEF misreadField
      <4>4. IF c.id = "data" THEN /\ reading' = "done" /\ total_bytes' = c.size
                                  /\ next' = next + ChunkHeader
            ELSE next' = AfterField(c) /\ UNCHANGED <<reading, total_bytes>>
        BY <3>2, <4>2, <4>3 DEF readField
      <4>5. CASE c.id = "data"
        <5>1. reading' = "done" /\ total_bytes' = c.size /\ next' = c.at + ChunkHeader
          BY <4>1, <4>4, <4>5
        <5>2. QED
          BY <1>1, <4>5, <5>1 DEF HeaderInvariant
      <4>6. CASE c.id # "data"
        <5>1. c.at \in Nat /\ c.size \in Nat /\ SeekEnd(c) \in Nat /\ c.size % 2 = 0
          BY <2>1, <4>1, <4>6, ChunkIs DEF Plain
        <5>2. next' = SeekEnd(c) /\ reading' = "fields"
          <6>1. Padded(c.size) = c.size
            BY <5>1, PaddedIs
          <6>2. QED
            BY <3>1, <4>4, <4>6, <6>1 DEF AfterField, SeekEnd
        <5>3. Follow(file, SeekEnd(c))
          BY <4>1, <4>6 DEF Layout, TopsFollow
        <5>4. ASSUME NEW d \in file.chunks, d.id = "data"
              PROVE  SeekEnd(c) <= d.at
          <6>1. next <= d.at /\ d.parent = 0 /\ d # c /\ d.at \in Nat
            BY <2>1, <3>1, <4>6, <5>4, ChunkIs DEF AtField, Plain
          <6>2. d.at # c.at
            BY <6>1 DEF Layout, Apart
          <6>3. c.at < d.at
            BY <4>1, <5>1, <6>1, <6>2
          <6>4. QED
            BY <4>1, <6>1, <6>3 DEF Layout, Apart
        <5>5. AtField(file, SeekEnd(c))
          BY <5>1, <5>3, <5>4 DEF AtField
        <5>6. QED
          BY <1>1, <5>2, <5>5 DEF HeaderInvariant
      <4>7. QED
        BY <4>5, <4>6
    <3>3. CASE ~CanRead(next, ChunkHeader)
      <4>1. reading' = "thrown"
        BY <2>3, <3>3 DEF readField, misreadField, Throw
      <4>2. ASSUME NEW c \in file.chunks, c.id = "data"
            PROVE  FALSE
        <5>1. c.at \in Nat /\ c.at + 8 <= file.length /\ next <= c.at /\ next \in Nat
          BY <2>1, <3>1, <4>2, ChunkIs DEF Plain, AtField, ChunkHeader
        <5>2. ~(next + 8 <= file.length)
          BY <3>3 DEF CanRead, ChunkHeader
        <5>3. QED
          BY <2>1, <5>1, <5>2
      <4>3. QED
        BY <1>1, <4>1, <4>2 DEF HeaderInvariant
    <3>4. QED
      BY <3>2, <3>3
  <2>4. QED
    BY <2>2, <2>3 DEF FormatNext
<1>4. QED
  BY <1>2, <1>3

LEMMA HeaderInvariantHolds == Spec => []HeaderInvariant
<1>1. Init => HeaderInvariant
  BY DEF Init, FormatInit, HeaderInvariant
<1>2. ASSUME WriterInvariant, FileInvariant, HeaderInvariant, [Next]_vars
      PROVE  HeaderInvariant'
  <2>1. CASE readHeader
    <3>1. file # NoFile /\ FormatNext /\ UNCHANGED <<file, source, whole>>
      BY <2>1 DEF readHeader
    <3>2. Layout(file) /\ (OwnFile => Plain(file))
      BY <1>2, <3>1, OwnPlain DEF FileInvariant
    <3>3. QED
      BY <1>2, <3>1, <3>2, HeaderInvariantStep
  <2>2. CASE ~readHeader
    <3>1. UNCHANGED headerVars
      BY <1>2, <2>2 DEF Next, Simple, writeFormatFile, OtherWrites, CutShort, Disk, vars
    <3>2. CASE reading = "idle"
      BY <1>2, <3>1, <3>2 DEF HeaderInvariant, headerVars
    <3>3. CASE reading # "idle"
      <4>1. UNCHANGED <<file, source, whole>>
        BY <1>2, <3>3, FileStays DEF Reading
      <4>2. QED
        BY <1>2, <3>1, <4>1 DEF HeaderInvariant, headerVars, OwnFile
    <3>4. QED
      BY <3>2, <3>3
  <2>3. QED
    BY <2>1, <2>2
<1>3. QED
  BY <1>1, <1>2, WriterInvariantHolds, FileInvariantHolds, PTL DEF Spec

(* readHeader, which knows no pad bytes, finds the samples of every whole  *)
(* file of the two writers, since nothing they write before the samples    *)
(* has an odd size; it gives up only if there are none.                    *)
THEOREM ReadHeaderFindsDataAlways == Spec => []ReadHeaderFindsData
<1>1. WriterInvariant /\ FileInvariant /\ HeaderInvariant => ReadHeaderFindsData
  <2> SUFFICES ASSUME WriterInvariant, FileInvariant, HeaderInvariant, OwnFile,
                      reading \notin {"idle", "fields"}
               PROVE  LET data == {c \in file.chunks : c.id = "data"}
                      IN  IF data = {} THEN reading = "thrown"
                          ELSE /\ reading = "done"
                               /\ \E c \in data : total_bytes = c.size /\ next = c.at + ChunkHeader
    BY DEF ReadHeaderFindsData, OwnFile
  <2> DEFINE data == {c \in file.chunks : c.id = "data"}
  <2>1. reading \in {"done", "thrown"}
    BY DEF HeaderInvariant
  <2>2. reading = "done" => \E c \in data : total_bytes = c.size /\ next = c.at + ChunkHeader
    BY DEF HeaderInvariant
  <2>3. reading = "thrown" => data = {}
    BY DEF HeaderInvariant
  <2> HIDE DEF data
  <2>4. IF data = {} THEN reading = "thrown"
        ELSE /\ reading = "done"
             /\ \E c \in data : total_bytes = c.size /\ next = c.at + ChunkHeader
    BY <2>1, <2>2, <2>3
  <2>5. QED
    BY <2>4 DEF data
<1>2. QED
  BY <1>1, WriterInvariantHolds, FileInvariantHolds, HeaderInvariantHolds, PTL

-----------------------------------------------------------------------------
(* The labels and files that WavFileDiskPcm remembers.                     *)

IsNamed(c) == c.id \in {"labl", "file"}

SameName(c, d) == c.id = d.id /\ c.name = d.name

(* Labels and files are all in this list, and their headers are whole.     *)
NamedIn(f, c) ==
  \A e \in f.chunks : IsNamed(e) =>
    /\ e.parent = c.at /\ c.at + HeaderSize.LIST <= e.at /\ e.at < SeekEnd(c)
    /\ e.at + HeaderSize[e.id] <= f.length

ListHasNamed(f) ==
  /\ \A c \in f.chunks : c.parent = 0 /\ c.id = "LIST" => NamedIn(f, c)
  /\ Candidates(f, "LIST") = {} => \A e \in f.chunks : ~IsNamed(e)

(* Remembered is the last of each name that begins before p.               *)
LastNamedTo(f, names, p) ==
  /\ \A n \in names : \E d \in f.chunks :
       /\ IsNamed(d) /\ n = <<d.id, d.name, d.at>> /\ d.at < p
       /\ \A e \in f.chunks : SameName(e, d) /\ e.at < p => e.at <= d.at
  /\ \A d \in f.chunks : IsNamed(d) /\ d.at < p => \E n \in names : n[1] = d.id /\ n[2] = d.name

OwnSimple == whole /\ source = "WavFileSimplePcm" /\ file # NoFile

NamedInvariant ==
  /\ loop = "idle" => named = {}
  /\ OwnSimple =>
       /\ loop = "riff" => IF found.LIST = 0 THEN named = {} ELSE LastNamedTo(file, named, file.length)
       /\ loop = "adtl" => LastNamedTo(file, named, pos)
       /\ loop = "done" => LastNamedTo(file, named, file.length)

(* Nothing is left that has a name.                                        *)
LEMMA NamedAll ==
  ASSUME NEW f, Layout(f), NEW names, NEW p \in Nat, LastNamedTo(f, names, p),
         \A e \in f.chunks : IsNamed(e) => e.at < p
  PROVE  LastNamedTo(f, names, f.length)
<1>1. \A e \in f.chunks : e.at < f.length
  BY ChunkIs
<1>2. ASSUME NEW n \in names
      PROVE  \E d \in f.chunks :
               /\ IsNamed(d) /\ n = <<d.id, d.name, d.at>> /\ d.at < f.length
               /\ \A e \in f.chunks : SameName(e, d) /\ e.at < f.length => e.at <= d.at
  <2>1. PICK d \in f.chunks :
          /\ IsNamed(d) /\ n = <<d.id, d.name, d.at>> /\ d.at < p
          /\ \A e \in f.chunks : SameName(e, d) /\ e.at < p => e.at <= d.at
    BY DEF LastNamedTo
  <2>2. \A e \in f.chunks : SameName(e, d) => IsNamed(e)
    BY <2>1 DEF SameName, IsNamed
  <2>3. \A e \in f.chunks : SameName(e, d) => e.at <= d.at
    BY <2>1, <2>2
  <2>4. QED
    BY <1>1, <2>1, <2>3
<1>3. \A d \in f.chunks : IsNamed(d) => \E n \in names : n[1] = d.id /\ n[2] = d.name
  BY DEF LastNamedTo
<1>4. QED
  BY <1>2, <1>3 DEF LastNamedTo

(* No chunk with a name begins between one chunk and the next.             *)
LEMMA NamedBetween ==
  ASSUME Layout(file), NEW c, AtList(file, found, pos, c), NamedIn(file, c),
         NEW d \in HeaderAt(pos), NEW e \in file.chunks, IsNamed(e), e.at < SeekEnd(d)
  PROVE  e = d \/ e.at < pos
<1>1. /\ d \in file.chunks /\ d.at = pos
      /\ \/ pos < SeekEnd(c) /\ d.parent = c.at
         \/ pos = SeekEnd(c) /\ d.parent = 0 /\ SeekEnd(c) < SeekEnd(d)
  BY InnerHere
<1>2. e.parent = c.at /\ e.at < SeekEnd(c) /\ e.at \in Nat /\ d.at \in Nat /\ SeekEnd(d) \in Nat
  BY <1>1, ChunkIs DEF NamedIn
<1>3. CASE pos = SeekEnd(c)
  BY <1>2, <1>3
<1>4. CASE pos # SeekEnd(c)
  <2>1. d.parent = e.parent
    BY <1>1, <1>2, <1>4
  <2>2. d.at < e.at => SeekEnd(d) <= e.at
    BY <1>1, <2>1 DEF Layout, Apart
  <2>3. ~(d.at < e.at)
    BY <1>2, <2>2
  <2>4. d.at = e.at => d = e
    BY <1>1 DEF Layout, Apart
  <2>5. QED
    BY <1>1, <1>2, <2>3, <2>4
<1>5. QED
  BY <1>3, <1>4

LEMMA NamedTaken ==
  ASSUME Layout(file), NEW c, AtList(file, found, pos, c), NamedIn(file, c),
         LastNamedTo(file, named, pos), NEW d \in HeaderAt(pos), IsNamed(d),
         NEW names, names = {n \in named : n[1] # d.id \/ n[2] # d.name} \cup {<<d.id, d.name, pos>>}
  PROVE  LastNamedTo(file, names, SeekEnd(d))
<1>1. d \in file.chunks /\ d.at = pos /\ d.at \in Nat /\ SeekEnd(d) \in Nat /\ d.at < SeekEnd(d)
  BY InnerHere, ChunkIs
<1>2. \A e \in file.chunks : IsNamed(e) /\ e.at < SeekEnd(d) => e = d \/ e.at < pos
  BY NamedBetween
<1>3. \A e \in file.chunks : e.at \in Nat
  BY ChunkIs
<1>4. ASSUME NEW n \in names
      PROVE  \E b \in file.chunks :
               /\ IsNamed(b) /\ n = <<b.id, b.name, b.at>> /\ b.at < SeekEnd(d)
               /\ \A e \in file.chunks : SameName(e, b) /\ e.at < SeekEnd(d) => e.at <= b.at
  <2>1. CASE n = <<d.id, d.name, pos>>
    <3>1. \A e \in file.chunks : SameName(e, d) /\ e.at < SeekEnd(d) => e.at <= d.at
      <4>1. \A e \in file.chunks : SameName(e, d) => IsNamed(e)
        BY DEF SameName, IsNamed
      <4>2. QED
        BY <1>1, <1>2, <1>3, <4>1
    <3>2. QED
      BY <1>1, <2>1, <3>1
  <2>2. CASE n \in named /\ (n[1] # d.id \/ n[2] # d.name)
    <3>1. PICK b \in file.chunks :
            /\ IsNamed(b) /\ n = <<b.id, b.name, b.at>> /\ b.at < pos
            /\ \A e \in file.chunks : SameName(e, b) /\ e.at < pos => e.at <= b.at
      BY <2>2 DEF LastNamedTo
    <3>2. n[1] = b.id /\ n[2] = b.name
      BY <3>1
    <3>3. ~SameName(d, b)
      BY <2>2, <3>2 DEF SameName
    <3>4. \A e \in file.chunks : SameName(e, b) => IsNamed(e)
      BY <3>1 DEF SameName, IsNamed
    <3>5. \A e \in file.chunks : SameName(e, b) /\ e.at < SeekEnd(d) => e.at <= b.at
      BY <1>2, <3>1, <3>3, <3>4
    <3>6. b.at < SeekEnd(d)
      BY <1>1, <1>3, <3>1
    <3>7. QED
      BY <3>1, <3>5, <3>6
  <2>3. QED
    BY <2>1, <2>2
<1>5. ASSUME NEW e \in file.chunks, IsNamed(e), e.at < SeekEnd(d)
      PROVE  \E n \in names : n[1] = e.id /\ n[2] = e.name
  <2> DEFINE mine == <<d.id, d.name, pos>>
  <2>1. mine \in names /\ mine[1] = d.id /\ mine[2] = d.name
    OBVIOUS
  <2>2. CASE SameName(e, d)
    BY <2>1, <2>2 DEF SameName
  <2>3. CASE ~SameName(e, d)
    <3>1. e # d
      BY <2>3 DEF SameName
    <3>2. e.at < pos
      BY <1>2, <1>5, <3>1
    <3>3. PICK n \in named : n[1] = e.id /\ n[2] = e.name
      BY <1>5, <3>2 DEF LastNamedTo
    <3>4. n \in names
      BY <2>3, <3>3 DEF SameName
    <3>5. QED
      BY <3>3, <3>4
  <2>4. QED
    BY <2>2, <2>3
<1>6. QED
  BY <1>4, <1>5 DEF LastNamedTo

LEMMA NamedSkipped ==
  ASSUME Layout(file), NEW c, AtList(file, found, pos, c), NamedIn(file, c),
         LastNamedTo(file, named, pos), NEW d \in HeaderAt(pos), ~IsNamed(d)
  PROVE  LastNamedTo(file, named, SeekEnd(d))
<1>1. d \in file.chunks /\ d.at = pos /\ d.at \in Nat /\ SeekEnd(d) \in Nat /\ d.at < SeekEnd(d)
  BY InnerHere, ChunkIs
<1>2. \A e \in file.chunks : IsNamed(e) /\ e.at < SeekEnd(d) => e.at < pos
  BY NamedBetween
<1>3. \A e \in file.chunks : e.at \in Nat
  BY ChunkIs
<1>4. ASSUME NEW n \in named
      PROVE  \E b \in file.chunks :
               /\ IsNamed(b) /\ n = <<b.id, b.name, b.at>> /\ b.at < SeekEnd(d)
               /\ \A e \in file.chunks : SameName(e, b) /\ e.at < SeekEnd(d) => e.at <= b.at
  <2>1. PICK b \in file.chunks :
          /\ IsNamed(b) /\ n = <<b.id, b.name, b.at>> /\ b.at < pos
          /\ \A e \in file.chunks : SameName(e, b) /\ e.at < pos => e.at <= b.at
    BY DEF LastNamedTo
  <2>2. \A e \in file.chunks : SameName(e, b) => IsNamed(e)
    BY <2>1 DEF SameName, IsNamed
  <2>3. \A e \in file.chunks : SameName(e, b) /\ e.at < SeekEnd(d) => e.at <= b.at
    BY <1>2, <2>1, <2>2
  <2>4. b.at < SeekEnd(d)
    BY <1>1, <1>3, <2>1
  <2>5. QED
    BY <2>1, <2>3, <2>4
<1>5. \A e \in file.chunks : IsNamed(e) /\ e.at < SeekEnd(d) => \E n \in named : n[1] = e.id /\ n[2] = e.name
  BY <1>2 DEF LastNamedTo
<1>6. QED
  BY <1>4, <1>5 DEF LastNamedTo

LEMMA NamedNone ==
  ASSUME NEW f, NEW p, \A e \in f.chunks : IsNamed(e) => ~(e.at < p)
  PROVE  LastNamedTo(f, {}, p)
BY DEF LastNamedTo
(* Where the labels and files are in the list.                             *)
LEMMA AssocPlaces ==
  ASSUME WriterTypes, NEW k \in 1 .. Len(assoc)
  PROVE  /\ ListBytes # 0 /\ ListPlace \in Nat /\ ListPlace + 12 <= DataAt /\ SeekEnd(ListAt) = DataAt
         /\ AssocPlace(k) \in Nat /\ ListPlace + 12 <= AssocPlace(k)
         /\ AssocPlace(k) + getSize(assoc[k]) <= DataAt
         /\ AssocAt(k).at = AssocPlace(k) /\ AssocAt(k).id = assoc[k].id /\ AssocAt(k).name = assoc[k].name
         /\ AssocAt(k).parent = ListPlace /\ ChunkHeader + AssocAt(k).size = getSize(assoc[k])
         /\ \A j \in 1 .. Len(assoc) : j < k => AssocPlace(j) < AssocPlace(k)
<1> DEFINE W == WrittenAssoc
           n == Len(assoc)
           s == ContentsSize(assoc)
           P(i) == Begin(W, ListPlace + 12, i)
<1>1. /\ IsList(W) /\ Len(W) = n /\ n \in Nat
      /\ \A i \in 1 .. n : W[i].bytes = getSize(assoc[i]) /\ getSize(assoc[i]) \in Nat \ {0}
  BY AssocIs
<1>2. CueBytes \in Nat /\ CueBytes % 2 = 0 /\ ListBytes \in Nat /\ ListBytes % 2 = 0 /\ DataAt \in Nat
  BY RiffSizeIs
<1>3. ListPlace \in Nat /\ DataAt = ListPlace + ListBytes
  BY <1>2 DEF ListPlace, DataAt
<1>4. assoc # <<>>
  OBVIOUS
<1>5. s \in Nat /\ s % 2 = 0 /\ \A start \in Nat : Begin(W, start, n + 1) = start + s
  BY <1>1, ContentsAre
<1>6. ListBytes = 12 + s
  BY <1>4 DEF ListBytes
<1>7. SeekEnd(ListAt) = DataAt
  <2>1. ListAt.at = ListPlace /\ ListAt.size = ListBytes - 8
    BY DEF ListAt, ChunkHeader
  <2> HIDE DEF s
  <2>2. ListBytes - 8 \in Nat /\ (ListBytes - 8) % 2 = 0
    BY <1>2, <1>5, <1>6
  <2>3. Padded(ListBytes - 8) = ListBytes - 8
    BY <2>2, PaddedIs
  <2>4. QED
    BY <1>2, <1>3, <2>1, <2>3 DEF SeekEnd, ChunkHeader
<1>8. \A i \in 1 .. n : AssocPlace(i) = P(i)
  BY DEF AssocPlace, HeaderSize
<1> HIDE DEF W, n, s
<1>9. /\ k \in 1 .. n + 1 /\ k + 1 \in 1 .. n + 1 /\ n + 1 \in k + 1 .. n + 1 /\ 1 \in 1 .. n + 1
      /\ k \in 1 .. n /\ k \in 1 .. n + 1 /\ n + 1 \in 1 .. n + 1
  BY <1>1 DEF n
<1> DEFINE b == getSize(assoc[k])
<1>10. b \in Nat \ {0} /\ W[k].bytes = b
  BY <1>1, <1>9
<1>11. Padded(b) \in Nat /\ b <= Padded(b)
  BY <1>10, PaddedIs
<1>12. ListPlace + 12 \in Nat
  BY <1>3
<1>13. /\ P(1) = ListPlace + 12
       /\ \A i \in 1 .. n + 1 : P(i) \in Nat
       /\ \A i \in 1 .. n : P(i + 1) = P(i) + Padded(W[i].bytes)
       /\ \A i \in 1 .. n + 1 : \A j \in i .. n + 1 : P(i) <= P(j)
  BY <1>1, <1>12, Places
<1>14. P(n + 1) = ListPlace + 12 + s
  BY <1>5, <1>12
<1> HIDE DEF P, b
<1>15. P(k) \in Nat /\ P(1) <= P(k) /\ P(k + 1) = P(k) + Padded(b) /\ P(k + 1) <= P(n + 1) /\ P(k + 1) \in Nat
  BY <1>9, <1>10, <1>13
<1>16. AssocPlace(k) = P(k)
  BY <1>8, <1>9
<1>17. AssocPlace(k) \in Nat /\ ListPlace + 12 <= AssocPlace(k) /\ AssocPlace(k) + b <= DataAt
       /\ ListBytes # 0 /\ ListPlace + 12 <= DataAt
  <2>1. P(1) = ListPlace + 12
    BY <1>13
  <2>2. s \in Nat
    BY <1>5
  <2>3. DataAt = P(n + 1)
    BY <1>3, <1>6, <1>14, <2>2
  <2>4. ListBytes # 0 /\ ListPlace + 12 <= DataAt
    BY <1>3, <1>6, <2>2
  <2>5. P(k) + b <= P(n + 1)
    <3>1. P(n + 1) \in Nat
      BY <1>2, <2>3
    <3>2. QED
      BY <1>10, <1>11, <1>15, <3>1
  <2>6. QED
    BY <1>15, <1>16, <2>1, <2>3, <2>4, <2>5
<1>18. \A j \in 1 .. n : j < k => AssocPlace(j) < AssocPlace(k)
  <2> SUFFICES ASSUME NEW j \in 1 .. n, j < k
               PROVE  P(j) < P(k)
    BY <1>8, <1>16
  <2>1. W[j].bytes \in Nat \ {0} /\ j + 1 \in 1 .. n + 1 /\ k \in j + 1 .. n + 1 /\ j \in 1 .. n + 1
    BY <1>1, <1>9
  <2> DEFINE a == W[j].bytes
  <2>2. Padded(a) \in Nat /\ a <= Padded(a) /\ a \in Nat \ {0}
    BY <2>1, PaddedIs
  <2>3. P(j + 1) = P(j) + Padded(a) /\ P(j) \in Nat /\ P(j + 1) <= P(k) /\ P(k) \in Nat
    BY <1>13, <1>15, <2>1
  <2> HIDE DEF a
  <2>4. QED
    BY <2>2, <2>3
<1>19. /\ AssocAt(k).at = AssocPlace(k) /\ AssocAt(k).id = assoc[k].id /\ AssocAt(k).name = assoc[k].name
       /\ AssocAt(k).parent = ListPlace /\ AssocAt(k).size = b - ChunkHeader
  BY DEF AssocAt, b
<1>20. ChunkHeader + AssocAt(k).size = b
  BY <1>10, <1>19 DEF ChunkHeader
<1>21. QED
  BY <1>3, <1>7, <1>17, <1>18, <1>19, <1>20 DEF n, b
(* The file of WavFileSimplePcm has its labels and files in its only list. *)
LEMMA SimpleListHasNamed ==
  ASSUME WriterTypes, NEW samples \in Nat
  PROVE  ListHasNamed(SimpleFile(samples))
<1> DEFINE f == SimpleFile(samples)
<1>1. \A c : c \in f.chunks
         <=> \/ c = FmtAt
             \/ c = CueAt /\ CueBytes # 0
             \/ c = ListAt /\ ListBytes # 0
             \/ c = SamplesAt /\ HasData
             \/ \E k \in 1 .. Len(assoc) : c = AssocAt(k)
  BY SimpleHas
<1>2. f.length = DataAt + Padded(DataLength(samples)) /\ RiffEnd(f) = DataAt + Padded(DataBytes)
  BY SimpleLength
<1>3. DataAt \in Nat /\ DataBytes \in Nat /\ DataLength(samples) \in Nat
  BY RiffSizeIs, SimpleChunksAre
<1>4. Padded(DataBytes) \in Nat /\ Padded(DataLength(samples)) \in Nat
  BY <1>3, PaddedIs
<1> HIDE DEF f
<1>5. DataAt <= f.length /\ DataAt <= RiffEnd(f) /\ f.length \in Nat /\ RiffEnd(f) \in Nat
  BY <1>2, <1>3, <1>4
<1>6. /\ FmtAt.id = "fmt" /\ CueAt.id = "cue" /\ ListAt.id = "LIST" /\ SamplesAt.id = "data"
      /\ ListAt.at = ListPlace /\ ListAt.parent = 0
  BY DEF FmtAt, CueAt, ListAt, SamplesAt
<1>7. \A k \in 1 .. Len(assoc) :
         /\ AssocAt(k).id \in {"labl", "file"} /\ AssocAt(k).parent = ListPlace
         /\ AssocAt(k).at \in Nat /\ ListPlace + 12 <= AssocAt(k).at
         /\ AssocAt(k).at + HeaderSize[AssocAt(k).id] <= f.length
         /\ AssocAt(k).at < DataAt
         /\ ListBytes # 0 /\ ListPlace \in Nat /\ ListPlace + 12 <= DataAt /\ SeekEnd(ListAt) = DataAt
  <2> SUFFICES ASSUME NEW k \in 1 .. Len(assoc)
               PROVE  /\ AssocAt(k).id \in {"labl", "file"} /\ AssocAt(k).parent = ListPlace
                      /\ AssocAt(k).at \in Nat /\ ListPlace + 12 <= AssocAt(k).at
                      /\ AssocAt(k).at + HeaderSize[AssocAt(k).id] <= f.length
                      /\ AssocAt(k).at < DataAt
                      /\ ListBytes # 0 /\ ListPlace \in Nat /\ ListPlace + 12 <= DataAt
                      /\ SeekEnd(ListAt) = DataAt
    OBVIOUS
  <2> DEFINE c == assoc[k]
             h == HeaderSize[c.id]
             p == AssocPlace(k)
             a == AssocAt(k)
  <2>1. c.id \in {"labl", "file"} /\ c.data \in Nat \ {0}
    BY AssocIs
  <2>2. getSize(c) = h + c.data /\ h \in Nat /\ h >= 12
    BY <2>1, GetSizeIs
  <2>3. /\ ListBytes # 0 /\ ListPlace \in Nat /\ ListPlace + 12 <= DataAt /\ SeekEnd(ListAt) = DataAt
        /\ p \in Nat /\ ListPlace + 12 <= p /\ p + getSize(c) <= DataAt
        /\ a.at = p /\ a.id = c.id /\ a.parent = ListPlace
    BY AssocPlaces
  <2>4. HeaderSize[a.id] = h
    BY <2>3
  <2> HIDE DEF a, h, p
  <2> DEFINE data == c.data
  <2>5. data \in Nat \ {0} /\ p + (h + data) <= DataAt
    BY <2>1, <2>2, <2>3
  <2> HIDE DEF data
  <2>6. p + h <= f.length /\ p < DataAt
    BY SMTT(30), <1>3, <1>5, <2>2, <2>3, <2>5
  <2>7. QED
    BY <2>1, <2>3, <2>4, <2>6 DEF a
<1>8. \A e \in f.chunks : IsNamed(e) => \E k \in 1 .. Len(assoc) : e = AssocAt(k)
  BY <1>1, <1>6 DEF IsNamed
<1>9. ASSUME NEW c \in f.chunks, c.id = "LIST"
      PROVE  NamedIn(f, c)
  <2>1. c = ListAt
    BY <1>1, <1>6, <1>7, <1>9
  <2>2. ASSUME NEW e \in f.chunks, IsNamed(e)
        PROVE  /\ e.parent = c.at /\ c.at + HeaderSize.LIST <= e.at /\ e.at < SeekEnd(c)
               /\ e.at + HeaderSize[e.id] <= f.length
    <3>1. PICK k \in 1 .. Len(assoc) : e = AssocAt(k)
      BY <1>8, <2>2
    <3>2. HeaderSize.LIST = 12
      BY DEF HeaderSize
    <3>3. /\ e.parent = ListPlace /\ ListPlace + 12 <= e.at /\ e.at < DataAt /\ SeekEnd(ListAt) = DataAt
          /\ e.at + HeaderSize[e.id] <= f.length
      BY <1>7, <3>1
    <3>4. QED
      BY <1>6, <2>1, <3>2, <3>3
  <2>3. QED
    BY <2>2 DEF NamedIn
<1>10. ASSUME NEW e \in f.chunks, IsNamed(e)
       PROVE  Candidates(f, "LIST") # {}
  <2>1. PICK k \in 1 .. Len(assoc) : e = AssocAt(k)
    BY <1>8, <1>10
  <2>2. ListBytes # 0 /\ ListPlace \in Nat /\ ListPlace + 12 <= DataAt
    BY <1>7, <2>1
  <2>3. ListAt \in f.chunks
    BY <1>1, <2>2
  <2>4. ListPlace < RiffEnd(f) /\ ListPlace + 12 <= f.length
    BY <1>3, <1>5, <2>2
  <2>5. HeaderSize["LIST"] = 12
    BY DEF HeaderSize
  <2>6. ListAt \in Candidates(f, "LIST")
    BY <1>6, <2>3, <2>4, <2>5 DEF Candidates
  <2>7. QED
    BY <2>6
<1>11. ListHasNamed(f)
  BY <1>9, <1>10 DEF ListHasNamed
<1>12. QED
  BY <1>11 DEF f
(* After a chunk with or without a name, and after the list is left.       *)
LEMMA NamedThen ==
  ASSUME Layout(file), NEW c, AtList(file, found, pos, c), NamedIn(file, c), UNCHANGED <<file, found>>,
         NEW d \in HeaderAt(pos), Inner(SeekEnd(d), TRUE), LastNamedTo(file, named', SeekEnd(d))
  PROVE  /\ found.LIST # 0
         /\ \/ loop' = "adtl" /\ LastNamedTo(file, named', pos')
            \/ loop' \in {"riff", "done"} /\ LastNamedTo(file, named', file.length)
<1>1. /\ d \in file.chunks /\ d.at = pos
      /\ \/ pos < SeekEnd(c) /\ d.parent = c.at
         \/ pos = SeekEnd(c) /\ d.parent = 0 /\ SeekEnd(c) < SeekEnd(d)
  BY InnerHere
<1>2. HeaderAt(found.LIST) = {c} /\ c \in file.chunks /\ c.at = found.LIST /\ SeekEnd(c) \in Nat
  BY ListHere
<1>3. c.at # 0 /\ SeekEnd(d) \in Nat
  BY <1>1, <1>2, ChunkIs
<1>4. InList(SeekEnd(d)) <=> SeekEnd(d) < SeekEnd(c)
  BY <1>2 DEF InList
<1>5. CASE SeekEnd(d) < SeekEnd(c)
  <2>1. pos' = SeekEnd(d) /\ loop' = "adtl"
    BY <1>4, <1>5 DEF Inner
  <2>2. QED
    BY <1>2, <1>3, <2>1
<1>6. CASE ~(SeekEnd(d) < SeekEnd(c))
  <2>1. loop' \in {"riff", "done"}
    BY <1>2, <1>4, <1>6 DEF Inner, Outer
  <2>2. \A e \in file.chunks : IsNamed(e) => e.at < SeekEnd(d)
    <3>1. \A e \in file.chunks : IsNamed(e) => e.at < SeekEnd(c) /\ e.at \in Nat
      BY ChunkIs DEF NamedIn
    <3>2. QED
      BY <1>2, <1>3, <1>6, <3>1
  <2>3. LastNamedTo(file, named', file.length)
    BY <1>3, <2>2, NamedAll
  <2>4. QED
    BY <1>2, <1>3, <2>1, <2>3
<1>7. QED
  BY <1>5, <1>6

LEMMA NamedInvariantStep ==
  ASSUME Layout(file), ListHasNamed(file), DiskInvariant, DiskInvariant', NamedInvariant, OwnSimple,
         UNCHANGED <<file, source, whole>>, DiskNext
  PROVE  NamedInvariant'
<1>1. file # NoFile /\ "LIST" \in Single
  BY DEF OwnSimple, Single
<1>2. loop = "adtl" => \E c \in file.chunks : AtList(file, found, pos, c) /\ NamedIn(file, c)
  BY DEF DiskInvariant, AtList, ListHasNamed
<1>3. loop = "adtl" => LastNamedTo(file, named, pos)
  BY DEF NamedInvariant
<1>4. loop = "riff" => IF found.LIST = 0 THEN named = {} ELSE LastNamedTo(file, named, file.length)
  BY DEF NamedInvariant
(* Back in the outer loop, or at its end.                                  *)
<1>5. ASSUME loop' \in {"riff", "done"}, named' = named,
             IF found'.LIST = 0 THEN named = {} ELSE LastNamedTo(file, named, file.length)
      PROVE  NamedInvariant'
  <2>1. CASE found'.LIST = 0
    <3>1. loop' = "done" => Candidates(file, "LIST") = {}
      <4>1. loop' = "done" => FoundAll(file, found')
        BY <1>1 DEF DiskInvariant
      <4>2. \A d \in Candidates(file, "LIST") : d.at # 0
        BY ChunkIs DEF Candidates
      <4>3. QED
        BY <1>1, <2>1, <4>1, <4>2 DEF FoundAll
    <3>2. loop' = "done" => LastNamedTo(file, {}, file.length)
      BY <3>1, NamedNone DEF ListHasNamed
    <3>3. QED
      BY <1>5, <2>1, <3>2 DEF NamedInvariant
  <2>2. CASE found'.LIST # 0
    BY <1>5, <2>2 DEF NamedInvariant
  <2>3. QED
    BY <2>1, <2>2
<1>6. CASE Open
  <2>1. loop = "idle" /\ named' = named /\ named = {}
    BY <1>6 DEF Open, NamedInvariant
  <2>2. \A id \in Single : found[id] = 0
    BY <2>1 DEF DiskInvariant
  <2>3. found'.LIST = 0 /\ loop' \in {"riff", "done"}
    BY <1>1, <1>6, <2>2 DEF Open, DiskInvariant
  <2>4. QED
    BY <1>5, <2>1, <2>3
<1>7. CASE Take
  <2>1. PICK c \in HeaderAt(pos), id \in Single \ {"LIST"} :
          found' = [found EXCEPT ![id] = pos] /\ Outer(SeekEnd(c))
    BY <1>7 DEF Take
  <2>2. loop = "riff" /\ named' = named
    BY <1>7 DEF Take
  <2>3. found'.LIST = found.LIST /\ loop' \in {"riff", "done"}
    BY <1>1, <2>1 DEF DiskInvariant, Outer
  <2>4. QED
    BY <1>4, <1>5, <2>2, <2>3
<1>8. CASE EnterList
  <2>1. PICK c \in HeaderAt(pos) : Fits(c, "LIST")
    BY <1>8 DEF EnterList
  <2>2. /\ loop = "riff" /\ named' = named /\ pos' = pos + HeaderSize.LIST /\ loop' = "adtl"
    BY <1>8 DEF EnterList
  <2>3. found["LIST"] = 0 /\ c.id = "LIST" /\ c \in file.chunks /\ c.at = pos
    BY <2>1 DEF Fits, HeaderAt
  <2>4. named = {}
    BY <1>4, <2>2, <2>3
  <2>5. c.parent = 0
    BY <2>1, <2>2, TopHere DEF DiskInvariant, AtTop
  <2>6. NamedIn(file, c)
    BY <2>3, <2>5 DEF ListHasNamed
  <2>7. \A e \in file.chunks : IsNamed(e) => ~(e.at < pos')
    <3>1. \A e \in file.chunks : IsNamed(e) => c.at + HeaderSize.LIST <= e.at /\ e.at \in Nat
      BY <2>6, ChunkIs DEF NamedIn
    <3>2. c.at \in Nat /\ HeaderSize.LIST \in Nat
      BY <2>3, ChunkIs DEF HeaderSize
    <3>3. QED
      BY <2>2, <2>3, <3>1, <3>2
  <2>8. LastNamedTo(file, {}, pos')
    BY <2>7, NamedNone
  <2>9. QED
    BY <2>2, <2>4, <2>8 DEF NamedInvariant
<1>9. ASSUME NEW c \in file.chunks, NEW d \in HeaderAt(pos), AtList(file, found, pos, c), NamedIn(file, c),
             Inner(SeekEnd(d), TRUE), found' = found, LastNamedTo(file, named', SeekEnd(d))
      PROVE  NamedInvariant'
  <2>1. /\ found.LIST # 0
        /\ \/ loop' = "adtl" /\ LastNamedTo(file, named', pos')
           \/ loop' \in {"riff", "done"} /\ LastNamedTo(file, named', file.length)
    BY <1>9, NamedThen
  <2>2. QED
    BY <1>9, <2>1 DEF NamedInvariant
<1>10. CASE TakeNamed
  <2>1. loop = "adtl" /\ found' = found
    BY <1>10 DEF TakeNamed
  <2>2. PICK d \in HeaderAt(pos) :
          /\ Named(d) /\ Inner(SeekEnd(d), TRUE)
          /\ named' = {n \in named : n[1] # d.id \/ n[2] # d.name} \cup {<<d.id, d.name, pos>>}
    BY <1>10 DEF TakeNamed
  <2>3. PICK c \in file.chunks : AtList(file, found, pos, c) /\ NamedIn(file, c)
    BY <1>2, <2>1
  <2>4. IsNamed(d)
    BY <2>2 DEF Named, IsNamed
  <2>5. LastNamedTo(file, named', SeekEnd(d))
    BY <1>3, <2>1, <2>2, <2>3, <2>4, NamedTaken
  <2>6. QED
    BY <1>9, <2>1, <2>2, <2>3, <2>5
<1>11. CASE Skip /\ loop = "adtl"
  <2>1. loop = "adtl" /\ found' = found /\ named' = named
    BY <1>11 DEF Skip
  <2>2. PICK d \in HeaderAt(pos) : ~Named(d) /\ Inner(SeekEnd(d), TRUE)
    BY <1>11 DEF Skip
  <2>3. PICK c \in file.chunks : AtList(file, found, pos, c) /\ NamedIn(file, c)
    BY <1>2, <2>1
  <2>4. ~IsNamed(d)
    BY <2>2, <2>3 DEF Named, IsNamed, NamedIn, CanRead, HeaderAt
  <2>5. LastNamedTo(file, named, SeekEnd(d))
    BY <1>3, <2>1, <2>2, <2>3, <2>4, NamedSkipped
  <2>6. QED
    BY <1>9, <2>1, <2>2, <2>3, <2>5
<1>12. CASE (Skip \/ Break) /\ loop = "riff"
  <2>1. named' = named /\ found' = found /\ loop' \in {"riff", "done"}
    BY <1>12 DEF Skip, Break, Outer
  <2>2. QED
    BY <1>4, <1>5, <1>12, <2>1
<1>13. CASE Break /\ loop = "adtl"
  <2>1. named' = named /\ found' = found /\ Inner(pos, FALSE) /\ ~CanRead(pos, ChunkHeader)
    BY <1>13 DEF Break
  <2>2. PICK c \in file.chunks : AtList(file, found, pos, c) /\ NamedIn(file, c)
    BY <1>2, <1>13
  <2>3. loop' \in {"riff", "done"}
    BY <2>1, <2>2, ListHere DEF Inner, Outer
  <2>4. found.LIST # 0
    BY <2>2, ListHere, ChunkIs
  <2>5. pos \in Nat /\ file.length \in Nat
    BY <2>2, FileLength DEF AtList
  <2>6. ASSUME NEW e \in file.chunks, IsNamed(e)
        PROVE  e.at < pos
    <3>1. e.at \in Nat /\ e.at + HeaderSize[e.id] <= file.length
      BY <2>2, <2>6, ChunkIs DEF NamedIn
    <3>2. HeaderSize[e.id] \in Nat /\ HeaderSize[e.id] >= 8
      BY <2>6 DEF IsNamed, HeaderSize
    <3>3. ~(pos + 8 <= file.length)
      BY <2>1 DEF CanRead, ChunkHeader
    <3>4. QED
      BY <2>5, <3>1, <3>2, <3>3
  <2>7. LastNamedTo(file, named, file.length)
    BY <1>3, <1>13, <2>5, <2>6, NamedAll
  <2>8. QED
    BY <1>5, <2>1, <2>3, <2>4, <2>7
<1>14. loop \in {"riff", "adtl"} \/ ~(Skip \/ Break)
  BY DEF Skip, Break
<1>15. QED
  BY <1>6, <1>7, <1>8, <1>10, <1>11, <1>12, <1>13, <1>14 DEF DiskNext
LEMMA NamedInvariantHolds == Spec => []NamedInvariant
<1>1. Init => NamedInvariant
  BY DEF Init, DiskInit, NamedInvariant
<1>2. ASSUME WriterInvariant, FileInvariant, DiskInvariant, DiskInvariant', NamedInvariant, [Next]_vars
      PROVE  NamedInvariant'
  <2>1. CASE Disk
    <3>1. UNCHANGED <<file, source, whole>> /\ DiskNext
      BY <2>1 DEF Disk
    <3>2. CASE OwnSimple
      <4>1. Layout(file) /\ WriterTypes /\ file = SimpleFile(SamplesWritten)
        BY <1>2, <3>2 DEF OwnSimple, FileInvariant, Whole, WriterInvariant
      <4>2. ListHasNamed(file)
        BY <4>1, SamplesWrittenIs, SimpleListHasNamed
      <4>3. QED
        BY <1>2, <3>1, <3>2, <4>1, <4>2, NamedInvariantStep
    <3>3. CASE ~OwnSimple
      <4>1. ~OwnSimple'
        BY <3>1, <3>3 DEF OwnSimple
      <4>2. loop' # "idle"
        BY <3>1 DEF DiskNext, Open, Take, EnterList, TakeNamed, Skip, Break, Inner, Outer
      <4>3. QED
        BY <4>1, <4>2 DEF NamedInvariant
    <3>4. QED
      BY <3>2, <3>3
  <2>2. CASE ~Disk
    <3>1. UNCHANGED diskVars
      BY <1>2, <2>2 DEF Next, Simple, writeFormatFile, OtherWrites, CutShort, readHeader, vars
    <3>2. CASE loop = "idle"
      BY <1>2, <3>1, <3>2 DEF NamedInvariant, diskVars
    <3>3. CASE loop # "idle"
      <4>1. UNCHANGED <<file, source, whole>>
        BY <1>2, <3>3, FileStays DEF Reading
      <4>2. QED
        BY <1>2, <3>1, <4>1 DEF NamedInvariant, diskVars, OwnSimple
    <3>4. QED
      BY <3>2, <3>3
  <2>3. QED
    BY <2>1, <2>2
<1>3. QED
  BY <1>1, <1>2, WriterInvariantHolds, FileInvariantHolds, DiskInvariantHolds, PTL DEF Spec

LEMMA MaxIs ==
  ASSUME NEW n \in Nat, NEW S, S \subseteq 0 .. n, S # {}
  PROVE  Max(S) \in S /\ \A x \in S : x <= Max(S)
<1> DEFINE T == {n - x : x \in S}
<1>1. T \subseteq Nat /\ T # {}
  <2>1. \A x \in S : n - x \in Nat
    OBVIOUS
  <2>2. T \subseteq Nat
    BY <2>1
  <2>3. \A x \in S : n - x \in T
    OBVIOUS
  <2> HIDE DEF T
  <2>4. T # {}
    BY <2>3
  <2>5. QED
    BY <2>2, <2>4
<1>2. PICK t \in T : \A u \in T : t <= u
  <2> HIDE DEF T
  <2>1. QED
    BY <1>1, LeastNat
<1>3. PICK x \in S : t = n - x
  OBVIOUS
<1>4. \A y \in S : x >= y
  <2>1. \A y \in S : t <= n - y
    BY <1>2
  <2>2. QED
    BY <1>3, <2>1
<1>5. Max(S) \in S /\ \A y \in S : Max(S) >= y
  BY <1>3, <1>4 DEF Max
<1>6. QED
  BY <1>5

(* What is read back of a file of WavFileSimplePcm, by kind.               *)
OwnWhole == source = "WavFileSimplePcm" /\ whole /\ file # NoFile

LEMMA OwnIs ==
  ASSUME WriterInvariant, FileInvariant, OwnWhole
  PROVE  /\ Layout(file) /\ WriterTypes
         /\ \A c : c \in file.chunks
              <=> \/ c = FmtAt
                  \/ c = CueAt /\ CueBytes # 0
                  \/ c = ListAt /\ ListBytes # 0
                  \/ c = SamplesAt /\ HasData
                  \/ \E k \in 1 .. Len(assoc) : c = AssocAt(k)
         /\ RiffEnd(file) = DataAt + Padded(DataBytes)
         /\ \E samples \in Nat : file.length = DataAt + Padded(DataLength(samples))
<1>1. Layout(file) /\ WriterTypes /\ file = SimpleFile(SamplesWritten)
  BY DEF OwnWhole, FileInvariant, Whole, WriterInvariant
<1>2. SamplesWritten \in Nat
  BY <1>1, SamplesWrittenIs
<1>3. \A c : c \in file.chunks
         <=> \/ c = FmtAt
             \/ c = CueAt /\ CueBytes # 0
             \/ c = ListAt /\ ListBytes # 0
             \/ c = SamplesAt /\ HasData
             \/ \E k \in 1 .. Len(assoc) : c = AssocAt(k)
  BY <1>1, <1>2, SimpleHas
<1>4. RiffEnd(file) = DataAt + Padded(DataBytes)
      /\ file.length = DataAt + Padded(DataLength(SamplesWritten))
  BY <1>1, <1>2, SimpleLength
<1>5. QED
  BY <1>1, <1>2, <1>3, <1>4

LEMMA KindsAre ==
  ASSUME WriterTypes
  PROVE  /\ FmtAt.id = "fmt" /\ CueAt.id = "cue" /\ ListAt.id = "LIST" /\ SamplesAt.id = "data"
         /\ FmtAt.parent = 0 /\ CueAt.parent = 0 /\ SamplesAt.parent = 0
         /\ FmtAt.at = 12 /\ CueAt.at = 36 /\ SamplesAt.at = DataAt
         /\ CueAt.size = CueBytes - ChunkHeader /\ SamplesAt.size = DataSize(format, pieces)
         /\ \A k \in 1 .. Len(assoc) : AssocAt(k).id \in {"labl", "file"}
<1>1. \A k \in 1 .. Len(assoc) : AssocAt(k).id \in {"labl", "file"}
  BY AssocIs DEF AssocAt
<1>2. QED
  BY <1>1 DEF FmtAt, CueAt, ListAt, SamplesAt

LEMMA ReadsBackKinds ==
  ASSUME WriterInvariant, FileInvariant, OwnWhole, FoundAll(file, found)
  PROVE  /\ found.fmt # 0
         /\ IF points = 0 THEN found.cue = 0 ELSE \E c \in HeaderAt(found.cue) : ReadDataSize(c) = CueChunk.data
         /\ IF DataSize(format, pieces) = 0 THEN found.data = 0
            ELSE \E c \in HeaderAt(found.data) : ReadDataSize(c) = DataSize(format, pieces)
<1>1. /\ Layout(file) /\ WriterTypes
      /\ \A c : c \in file.chunks
           <=> \/ c = FmtAt
               \/ c = CueAt /\ CueBytes # 0
               \/ c = ListAt /\ ListBytes # 0
               \/ c = SamplesAt /\ HasData
               \/ \E k \in 1 .. Len(assoc) : c = AssocAt(k)
      /\ RiffEnd(file) = DataAt + Padded(DataBytes)
  BY OwnIs
<1>2. PICK samples \in Nat : file.length = DataAt + Padded(DataLength(samples))
  BY OwnIs
<1>3. /\ CueBytes \in Nat /\ ListBytes \in Nat /\ DataAt \in Nat /\ DataAt = 36 + CueBytes + ListBytes
      /\ DataBytes \in Nat /\ DataSize(format, pieces) \in Nat /\ DataLength(samples) \in Nat
      /\ points \in Nat
  BY <1>1, RiffSizeIs, SimpleChunksAre DEF DataAt, WriterTypes
<1>4. /\ Padded(DataBytes) \in Nat /\ DataBytes <= Padded(DataBytes)
      /\ Padded(DataLength(samples)) \in Nat /\ DataLength(samples) <= Padded(DataLength(samples))
  BY <1>3, PaddedIs
<1>5. /\ FmtAt.id = "fmt" /\ CueAt.id = "cue" /\ ListAt.id = "LIST" /\ SamplesAt.id = "data"
      /\ FmtAt.parent = 0 /\ CueAt.parent = 0 /\ SamplesAt.parent = 0
      /\ FmtAt.at = 12 /\ CueAt.at = 36 /\ SamplesAt.at = DataAt
      /\ CueAt.size = CueBytes - ChunkHeader /\ SamplesAt.size = DataSize(format, pieces)
      /\ \A k \in 1 .. Len(assoc) : AssocAt(k).id \in {"labl", "file"}
  BY <1>1, KindsAre
<1>6. HeaderSize["fmt"] = 24 /\ HeaderSize["cue"] = 12 /\ HeaderSize["data"] = 8
      /\ "fmt" \in Single /\ "cue" \in Single /\ "data" \in Single
  BY DEF HeaderSize, Single
<1>7. ASSUME NEW id \in Single, Candidates(file, id) # {}
      PROVE  found[id] # 0 /\ \E c \in Candidates(file, id) : c \in HeaderAt(found[id])
  BY <1>1, <1>7, ChunkIs DEF FoundAll, Candidates, HeaderAt
<1>8. ASSUME NEW id \in Single, Candidates(file, id) = {}
      PROVE  found[id] = 0
  BY <1>8 DEF FoundAll
<1>9. found.fmt # 0
  <2>1. 12 < RiffEnd(file) /\ 12 + 24 <= file.length
    BY <1>1, <1>2, <1>3, <1>4
  <2>2. FmtAt \in Candidates(file, "fmt")
    BY <1>1, <1>5, <1>6, <2>1 DEF Candidates
  <2>3. QED
    BY <1>6, <1>7, <2>2
<1>10. IF points = 0 THEN found.cue = 0 ELSE \E c \in HeaderAt(found.cue) : ReadDataSize(c) = CueChunk.data
  <2>1. \A c \in Candidates(file, "cue") : c = CueAt /\ CueBytes # 0
    BY <1>1, <1>5 DEF Candidates
  <2>2. CASE points = 0
    <3>1. CueBytes = 0
      BY <2>2 DEF CueBytes
    <3>2. QED
      BY <1>6, <1>8, <2>1, <2>2, <3>1
  <2>3. CASE points # 0
    <3>1. CueBytes >= 12
      BY <1>3, <2>3 DEF CueBytes
    <3>2. 36 < RiffEnd(file) /\ 36 + 12 <= file.length
      BY <1>1, <1>2, <1>3, <1>4, <3>1
    <3>3. CueBytes # 0
      BY <3>1
    <3>4. CueAt \in Candidates(file, "cue")
      BY <1>1, <1>5, <1>6, <3>2, <3>3 DEF Candidates
    <3>5. PICK c \in Candidates(file, "cue") : c \in HeaderAt(found["cue"])
      BY <1>6, <1>7, <3>4
    <3>6. c.id = "cue" /\ c.size = 4 + 24 * points
      BY <1>3, <1>5, <2>1, <2>3, <3>5 DEF CueBytes, ChunkHeader
    <3>7. ReadDataSize(c) = 24 * points
      BY <1>3, <1>6, <3>6 DEF ReadDataSize, ChunkHeader
    <3>8. QED
      BY <2>3, <3>5, <3>7 DEF CueChunk
  <2>4. QED
    BY <2>2, <2>3
<1>11. IF DataSize(format, pieces) = 0 THEN found.data = 0
       ELSE \E c \in HeaderAt(found.data) : ReadDataSize(c) = DataSize(format, pieces)
  <2> DEFINE D == DataSize(format, pieces)
  <2>1. \A c \in Candidates(file, "data") : c = SamplesAt /\ DataAt < RiffEnd(file)
    BY <1>1, <1>5 DEF Candidates
  <2>2. DataBytes = IF D = 0 THEN 0 ELSE 8 + D
    BY DEF DataBytes, ChunkHeader
  <2>3. D \in Nat /\ SamplesAt.size = D
    BY <1>3, <1>5
  <2> HIDE DEF D
  <2>4. CASE D = 0
    <3>1. Padded(0) = 0
      BY DEF Padded
    <3>2. RiffEnd(file) = DataAt
      BY <1>1, <1>3, <2>2, <2>4, <3>1
    <3>3. Candidates(file, "data") = {}
      BY <1>3, <2>1, <3>2
    <3>4. found["data"] = 0
      BY <1>6, <1>8, <3>3
    <3>5. QED
      BY <2>4, <3>4 DEF D
  <2>5. CASE D # 0
    <3>1. HasData /\ DataBytes >= 8
      BY <2>2, <2>3, <2>5 DEF HasData
    <3>2. DataLength(samples) >= 8
      BY <3>1 DEF DataLength, ChunkHeader
    <3>3. DataAt < RiffEnd(file) /\ DataAt + 8 <= file.length
      BY <1>1, <1>2, <1>3, <1>4, <3>1, <3>2
    <3>4. SamplesAt \in Candidates(file, "data")
      BY <1>1, <1>5, <1>6, <3>1, <3>3 DEF Candidates
    <3>5. PICK c \in Candidates(file, "data") : c \in HeaderAt(found["data"])
      BY <1>6, <1>7, <3>4
    <3>6. c.id = "data" /\ c.size = D
      BY <1>5, <2>1, <2>3
    <3>7. ReadDataSize(c) = D
      BY <1>6, <2>3, <2>5, <3>6 DEF ReadDataSize, ChunkHeader
    <3>8. QED
      BY <2>5, <3>5, <3>7 DEF D
  <2>6. QED
    BY <2>4, <2>5
<1>12. QED
  BY <1>9, <1>10, <1>11
(* The last of a name that the writer was given.                           *)
LEMMA LastIs ==
  ASSUME WriterTypes, NEW id, NEW name
  PROVE  LET last == Max(LastNamed(id, name) \cup {0})
         IN  /\ last = 0 => LastNamed(id, name) = {}
             /\ last # 0 => last \in LastNamed(id, name) /\ \A k \in LastNamed(id, name) : k <= last
<1> DEFINE S == LastNamed(id, name)
           last == Max(S \cup {0})
<1>1. Len(assoc) \in Nat /\ DOMAIN assoc = 1 .. Len(assoc)
  BY AssocIs
<1>2. S \subseteq 1 .. Len(assoc)
  BY <1>1 DEF LastNamed
<1> HIDE DEF S
<1>3. S \cup {0} \subseteq 0 .. Len(assoc) /\ S \cup {0} # {}
  BY <1>1, <1>2
<1>4. last \in S \cup {0} /\ \A k \in S \cup {0} : k <= last
  BY <1>1, <1>3, MaxIs
<1> HIDE DEF last
<1>5. last = 0 => S = {}
  BY <1>1, <1>2, <1>4
<1>6. last # 0 => last \in S /\ \A k \in S : k <= last
  BY <1>4
<1>7. QED
  BY <1>5, <1>6 DEF S, last

(* For this name the last one is remembered, and only that.                *)
LastRead(id, name, last) ==
  LET there == Lookup(id, name)
  IN  IF last = 0 THEN there = {}
      ELSE \E n \in there, c \in file.chunks :
             /\ there = {n} /\ c.at = n[3]
             /\ ReadDataSize(c) = assoc[last].data
             /\ \A d \in file.chunks : d.id = id /\ d.name = name => d.at <= c.at

(* getDataSize() of a label or file that was read is that of the one       *)
(* written.                                                                *)
LEMMA AssocReadSize ==
  ASSUME WriterTypes, NEW k \in 1 .. Len(assoc)
  PROVE  ReadDataSize(AssocAt(k)) = assoc[k].data
<1> DEFINE c == AssocAt(k)
<1>1. assoc[k].id \in {"labl", "file"} /\ assoc[k].data \in Nat \ {0}
  BY AssocIs
<1>2. c.id = assoc[k].id /\ c.size = getSize(assoc[k]) - ChunkHeader
  BY DEF AssocAt
<1>3. HeaderSize["labl"] = 12 /\ HeaderSize["file"] = 16
  BY DEF HeaderSize
<1>4. HeaderSize[c.id] \in {12, 16} /\ MinSize(assoc[k].id) = HeaderSize[c.id]
  BY <1>1, <1>2, <1>3 DEF MinSize
<1>5. getSize(assoc[k]) = HeaderSize[c.id] + assoc[k].data
  BY <1>1, <1>2, <1>4 DEF getSize
<1> HIDE DEF c
<1>6. c.size = HeaderSize[c.id] - 8 + assoc[k].data
  BY <1>1, <1>2, <1>4, <1>5 DEF ChunkHeader
<1>7. QED
  BY <1>1, <1>4, <1>6 DEF ReadDataSize, ChunkHeader, c

LEMMA ReadsBackNames ==
  ASSUME WriterInvariant, FileInvariant, OwnWhole, LastNamedTo(file, named, file.length),
         NEW id \in {"labl", "file"}, NEW name, NEW last,
         last = 0 => LastNamed(id, name) = {},
         last # 0 => last \in LastNamed(id, name) /\ \A k \in LastNamed(id, name) : k <= last
  PROVE  LastRead(id, name, last)
<1> DEFINE there == Lookup(id, name)
<1>1. /\ Layout(file) /\ WriterTypes
      /\ \A c : c \in file.chunks
           <=> \/ c = FmtAt
               \/ c = CueAt /\ CueBytes # 0
               \/ c = ListAt /\ ListBytes # 0
               \/ c = SamplesAt /\ HasData
               \/ \E k \in 1 .. Len(assoc) : c = AssocAt(k)
  BY OwnIs
<1>2. FmtAt.id = "fmt" /\ CueAt.id = "cue" /\ ListAt.id = "LIST" /\ SamplesAt.id = "data"
  BY <1>1, KindsAre
<1>3. /\ DOMAIN assoc = 1 .. Len(assoc)
      /\ \A k \in 1 .. Len(assoc) :
           /\ AssocAt(k).at = AssocPlace(k) /\ AssocPlace(k) \in Nat
           /\ AssocAt(k).id = assoc[k].id /\ AssocAt(k).name = assoc[k].name
           /\ ReadDataSize(AssocAt(k)) = assoc[k].data
           /\ \A j \in 1 .. Len(assoc) : j < k => AssocPlace(j) < AssocPlace(k)
  BY <1>1, AssocIs, AssocPlaces, AssocReadSize
<1>4. ASSUME NEW d \in file.chunks, d.id = id, d.name = name
      PROVE  \E k \in LastNamed(id, name) : d = AssocAt(k) /\ k \in 1 .. Len(assoc)
  <2>1. PICK k \in 1 .. Len(assoc) : d = AssocAt(k)
    BY <1>1, <1>2, <1>4
  <2>2. k \in LastNamed(id, name)
    BY <1>3, <1>4, <2>1 DEF LastNamed
  <2>3. QED
    BY <2>1, <2>2
<1>5. ASSUME NEW n \in there
      PROVE  \E d \in file.chunks :
               /\ d.id = id /\ d.name = name /\ n = <<id, name, d.at>>
               /\ \A e \in file.chunks : e.id = id /\ e.name = name => e.at <= d.at
  <2>1. n \in named /\ n[1] = id /\ n[2] = name
    BY DEF Lookup
  <2>2. PICK d \in file.chunks :
          /\ IsNamed(d) /\ n = <<d.id, d.name, d.at>> /\ d.at < file.length
          /\ \A e \in file.chunks : SameName(e, d) /\ e.at < file.length => e.at <= d.at
    BY <2>1 DEF LastNamedTo
  <2>3. d.id = id /\ d.name = name
    BY <2>1, <2>2
  <2>4. \A e \in file.chunks : e.at < file.length
    BY <1>1, ChunkIs
  <2>5. \A e \in file.chunks : e.id = id /\ e.name = name => e.at <= d.at
    BY <2>2, <2>3, <2>4 DEF SameName
  <2>6. QED
    BY <2>2, <2>3, <2>5
<1>6. CASE last = 0
  <2>1. there = {}
    BY <1>4, <1>5, <1>6
  <2>2. QED
    BY <1>6, <2>1 DEF LastRead
<1>7. CASE last # 0
  <2> DEFINE c == AssocAt(last)
             n == <<id, name, c.at>>
  <2>1. last \in LastNamed(id, name) /\ \A k \in LastNamed(id, name) : k <= last
    BY <1>7
  <2>2. last \in 1 .. Len(assoc) /\ assoc[last].id = id /\ assoc[last].name = name
    BY <1>3, <2>1 DEF LastNamed
  <2>3. c \in file.chunks
    BY <1>1, <2>2
  <2>4. /\ c.id = id /\ c.name = name /\ c.at = AssocPlace(last)
        /\ ReadDataSize(c) = assoc[last].data
    BY <1>3, <2>2
  <2> HIDE DEF c
  <2>5. ASSUME NEW d \in file.chunks, d.id = id, d.name = name
        PROVE  d.at <= c.at /\ (c.at <= d.at => d.at = c.at)
    <3>1. PICK k \in LastNamed(id, name) : d = AssocAt(k) /\ k \in 1 .. Len(assoc)
      BY <1>4, <2>5
    <3>2. k <= last
      BY <2>1
    <3>3. d.at = AssocPlace(k) /\ AssocPlace(k) \in Nat /\ AssocPlace(last) \in Nat
      BY <1>3, <2>2, <3>1
    <3>4. k = last \/ k < last
      BY <2>2, <3>1, <3>2
    <3>5. k < last => AssocPlace(k) < AssocPlace(last)
      BY <1>3, <2>2, <3>1
    <3>6. QED
      BY <2>4, <3>3, <3>4, <3>5
  <2>6. \A m \in there : m = n
    <3> SUFFICES ASSUME NEW m \in there
                 PROVE  m = n
      OBVIOUS
    <3>1. PICK d \in file.chunks :
            /\ d.id = id /\ d.name = name /\ m = <<id, name, d.at>>
            /\ \A e \in file.chunks : e.id = id /\ e.name = name => e.at <= d.at
      BY <1>5
    <3>2. c.at <= d.at
      BY <2>3, <2>4, <3>1
    <3>3. d.at = c.at
      BY <2>5, <3>1, <3>2
    <3>4. QED
      BY <3>1, <3>3
  <2>7. there # {}
    <3>1. IsNamed(c) /\ c.at < file.length
      BY <1>1, <2>3, <2>4, ChunkIs DEF IsNamed
    <3>2. PICK m \in named : m[1] = c.id /\ m[2] = c.name
      BY <2>3, <3>1 DEF LastNamedTo
    <3>3. m \in there
      BY <2>4, <3>2 DEF Lookup
    <3>4. QED
      BY <3>3
  <2>8. n[3] = c.at
    OBVIOUS
  <2> HIDE DEF there, n
  <2>9. there = {n} /\ n \in there
    BY <2>6, <2>7
  <2>10. \A d \in file.chunks : d.id = id /\ d.name = name => d.at <= c.at
    BY <2>5
  <2>11. \E m \in there, b \in file.chunks :
           /\ there = {m} /\ b.at = m[3]
           /\ ReadDataSize(b) = assoc[last].data
           /\ \A d \in file.chunks : d.id = id /\ d.name = name => d.at <= b.at
    BY <2>3, <2>4, <2>8, <2>9, <2>10
  <2>12. QED
    BY <1>7, <2>11 DEF LastRead, there
<1>8. QED
  BY <1>6, <1>7

(* A name that is not its own fourcc was given to nothing.                 *)
LEMMA NoKey ==
  ASSUME WriterTypes, NEW id, NEW name \in Names, Fourcc[name] # name
  PROVE  LastNamed(id, name) = {}
<1> SUFFICES ASSUME NEW k \in LastNamed(id, name)
             PROVE  FALSE
  OBVIOUS
<1>1. k \in 1 .. Len(assoc) /\ assoc[k].name = name
  BY AssocIs DEF LastNamed
<1>2. assoc[k].name \in Keys
  BY <1>1, AssocIs
<1>3. PICK other \in Names : Fourcc[other] = name
  BY <1>1, <1>2 DEF Keys
<1>4. QED
  BY <1>3, FourccAssumption

NameRead(id, name) ==
  LET there == Lookup(id, name)
      last == Max(LastNamed(id, name) \cup {0})
  IN  IF last = 0 \/ Fourcc[name] # name THEN there = {}
      ELSE \E n \in there, c \in file.chunks :
             /\ there = {n} /\ c.at = n[3]
             /\ ReadDataSize(c) = assoc[last].data
             /\ \A d \in file.chunks : d.id = id /\ d.name = name => d.at <= c.at

(* Of a file of WavFileSimplePcm that is whole the reader has what was put *)
(* into it in the end: the format, as many bytes of cue points and of      *)
(* samples as getDataSize() had said, and none where there are none; and   *)
(* for every name of four characters the last label and file of its fourcc.*)
THEOREM ReadsBackWhatWasWrittenAlways == Spec => []ReadsBackWhatWasWritten
<1>1. WriterInvariant /\ FileInvariant /\ DiskInvariant /\ NamedInvariant => ReadsBackWhatWasWritten
  <2> SUFFICES ASSUME WriterInvariant, FileInvariant, DiskInvariant, NamedInvariant,
                      Simply("written"), whole, loop = "done"
               PROVE  /\ found.fmt # 0
                      /\ IF points = 0 THEN found.cue = 0 ELSE \E c \in HeaderAt(found.cue) : ReadDataSize(c) = CueChunk.data
                      /\ IF DataSize(format, pieces) = 0 THEN found.data = 0
                         ELSE \E c \in HeaderAt(found.data) : ReadDataSize(c) = DataSize(format, pieces)
                      /\ \A id \in {"labl", "file"}, name \in Names : NameRead(id, name)
    BY Zenon DEF ReadsBackWhatWasWritten, NameRead
  <2>1. OwnWhole /\ OwnSimple
    BY DEF Simply, OwnWhole, OwnSimple, FileInvariant, Whose, Reading
  <2>2. FoundAll(file, found) /\ LastNamedTo(file, named, file.length)
    BY <2>1 DEF DiskInvariant, NamedInvariant, OwnSimple
  <2>3. ASSUME NEW id \in {"labl", "file"}, NEW name \in Names
        PROVE  NameRead(id, name)
    <3> DEFINE last == Max(LastNamed(id, name) \cup {0})
    <3>1. /\ last = 0 => LastNamed(id, name) = {}
          /\ last # 0 => last \in LastNamed(id, name) /\ \A k \in LastNamed(id, name) : k <= last
      BY LastIs DEF WriterInvariant
    <3> HIDE DEF last
    <3>2. LastRead(id, name, last)
      BY <2>1, <2>2, <3>1, ReadsBackNames
    <3>3. Fourcc[name] # name => last = 0
      BY <3>1, NoKey DEF WriterInvariant
    <3>4. QED
      BY <3>2, <3>3 DEF last, NameRead, LastRead
  <2>4. QED
    BY <2>1, <2>2, <2>3, ReadsBackKinds
<1>2. QED
  BY <1>1, WriterInvariantHolds, FileInvariantHolds, DiskInvariantHolds, NamedInvariantHolds, PTL

=============================================================================
