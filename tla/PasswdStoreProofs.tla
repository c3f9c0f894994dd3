-------------------------- MODULE PasswdStoreProofs --------------------------
(***************************************************************************)
(* Theorems about PasswdStore, for any users, accounts and edits.          *)
(***************************************************************************)
EXTENDS PasswdStore, FiniteSetTheorems, SequenceTheorems, WellFoundedInduction, TLAPS

EditKinds == {"changePassword", "changeMaxPasswordAge", "changeWarningPeriod"}

-----------------------------------------------------------------------------
(* Lines.                                                                  *)

LEMMA EditLineKeeps ==
  ASSUME NEW line \in ShadowLines, NEW c, c.kind \in EditKinds,
         c.kind = "changePassword" => c.arg \in Hashes,
         c.kind # "changePassword" => c.arg \in Int, Today \in Int
  PROVE  EditLine(c, line) \in ShadowLines /\ EditLine(c, line).name = line.name
<1>1. CASE c.kind = "changePassword"
  <2>1. EditLine(c, line) = WithPassword(line, c.arg, Today)
    BY <1>1 DEF EditLine
  <2>2. QED
    BY <1>1, <2>1, Zenon DEF WithPassword, ShadowLines
<1>2. CASE c.kind = "changeMaxPasswordAge"
  <2>1. EditLine(c, line) = WithMaxAge(line, c.arg, Today)
    BY <1>2 DEF EditLine
  <2>2. Off \in Int /\ c.arg \in Int
    BY <1>2 DEF Off
  <2>3. CASE c.arg < 0
    BY <2>1, <2>2, <2>3, Zenon DEF WithMaxAge, ShadowLines
  <2>4. CASE ~(c.arg < 0)
    <3>1. CASE line.lstchg < 0 /\ c.arg > 0
      BY <2>1, <2>2, <2>4, <3>1, Zenon DEF WithMaxAge, ShadowLines
    <3>2. CASE ~(line.lstchg < 0 /\ c.arg > 0)
      BY <2>1, <2>2, <2>4, <3>2, Zenon DEF WithMaxAge, ShadowLines
    <3>3. QED
      BY <3>1, <3>2
  <2>5. QED
    BY <2>3, <2>4
<1>3. CASE c.kind = "changeWarningPeriod"
  <2>1. EditLine(c, line) = WithWarning(line, c.arg)
    BY <1>3 DEF EditLine
  <2>2. (IF c.arg > 0 THEN c.arg ELSE Off) \in Int
    BY <1>3 DEF Off
  <2>3. QED
    BY <2>1, <2>2, Zenon DEF WithWarning, ShadowLines
<1>4. QED
  BY <1>1, <1>2, <1>3 DEF EditKinds

LEMMA EditedIsIntact ==
  ASSUME NEW lines \in Seq(ShadowLines), NEW c, c.kind \in EditKinds,
         c.kind = "changePassword" => c.arg \in Hashes,
         c.kind # "changePassword" => c.arg \in Int, Today \in Int
  PROVE  Edited(c, lines) \in Seq(ShadowLines) /\ NamesIn(Edited(c, lines)) = NamesIn(lines)
<1> DEFINE line(i) == IF lines[i].name = c.user THEN EditLine(c, lines[i]) ELSE lines[i]
<1>1. \A i \in DOMAIN lines : line(i) \in ShadowLines /\ line(i).name = lines[i].name
  <2> SUFFICES ASSUME NEW i \in DOMAIN lines
               PROVE  line(i) \in ShadowLines /\ line(i).name = lines[i].name
    OBVIOUS
  <2>1. lines[i] \in ShadowLines
    OBVIOUS
  <2>2. EditLine(c, lines[i]) \in ShadowLines /\ EditLine(c, lines[i]).name = lines[i].name
    BY <2>1, EditLineKeeps
  <2>3. QED
    BY <2>1, <2>2
<1>2. Edited(c, lines) = [i \in DOMAIN lines |-> line(i)]
  BY DEF Edited, EditKinds
<1> HIDE DEF line
<1>3. DOMAIN lines = 1 .. Len(lines) /\ Len(lines) \in Nat
  OBVIOUS
<1>4. Edited(c, lines) \in Seq(ShadowLines) /\ DOMAIN Edited(c, lines) = DOMAIN lines
  BY <1>1, <1>2, <1>3
<1>5. \A i \in DOMAIN lines : Edited(c, lines)[i].name = lines[i].name
  BY <1>1, <1>2
<1>6. QED
  BY <1>4, <1>5 DEF NamesIn

-----------------------------------------------------------------------------
(* The file system.                                                        *)

LEMMA LeastNat ==
  ASSUME NEW T, T \subseteq Nat, T # {}
  PROVE  \E x \in T : \A y \in T : x <= y
<1> DEFINE Less == {p \in Nat \X Nat : p[1] < p[2]}
<1>1. IsWellFoundedOn(Less, Nat)
  BY NatLessThanWellFounded, Zenon DEF OpToRel
<1>2. PICK x \in T : \A y \in T : ~ (<<y, x>> \in Less)
  BY <1>1, WFMin, Zenon
<1>3. ASSUME NEW y \in T
      PROVE  x <= y
  <2>1. ~(y < x)
    BY <1>2
  <2>2. QED
    BY <2>1
<1>4. QED
  BY <1>2, <1>3

LEMMA NamesFinite == IsFiniteSet(Names) /\ Cardinality(Names) \in Nat
<1>1. IsFiniteSet({"live", "backup", "new"}) /\ IsFiniteSet(Files)
  <2>1. IsFiniteSet({"live"}) /\ IsFiniteSet({"passwd"})
    BY FS_Singleton
  <2>2. IsFiniteSet({"live"} \cup {"backup"}) /\ IsFiniteSet({"passwd"} \cup {"shadow"})
    BY <2>1, FS_AddElement
  <2>3. IsFiniteSet(({"live"} \cup {"backup"}) \cup {"new"})
    BY <2>2, FS_AddElement
  <2>4. /\ {"live", "backup", "new"} = ({"live"} \cup {"backup"}) \cup {"new"}
        /\ Files = {"passwd"} \cup {"shadow"}
    BY DEF Files
  <2>5. QED
    BY <2>2, <2>3, <2>4
<1>2. IsFiniteSet(Names)
  BY <1>1, FS_Product DEF Names
<1>3. QED
  BY <1>2, FS_CardinalityType

(* There are more inodes than names, so one is free for a new file.        *)
LEMMA FreshIsFree ==
  ASSUME NEW p, Processes = {p}, dir \in [Names -> Inodes \cup {None}], InUse \subseteq Range(dir)
  PROVE  FreshInode \in Inodes /\ FreshInode \notin InUse
<1>1. IsFiniteSet(Names) /\ Cardinality(Names) \in Nat
  BY NamesFinite
<1>2. Cardinality(Processes) = 1
  BY FS_Singleton
<1>3. IsFiniteSet(Range(dir)) /\ Cardinality(Range(dir)) <= Cardinality(Names)
  <2>1. dir \in Surjection(Names, Range(dir))
    BY DEF Surjection, Range
  <2>2. QED
    BY <1>1, <2>1, FS_Surjection
<1>4. Cardinality(InUse) <= Cardinality(Range(dir)) /\ IsFiniteSet(InUse)
  BY <1>3, FS_Subset
<1>5. Inodes \ InUse # {}
  <2> SUFFICES ASSUME Inodes \subseteq InUse
               PROVE  FALSE
    OBVIOUS
  <2>1. Cardinality(Inodes) <= Cardinality(InUse)
    BY <1>4, FS_Subset
  <2>2. Cardinality(Inodes) = Cardinality(Names) + 2
    <3>1. Inodes = 1 .. Cardinality(Names) + 2
      BY <1>1, <1>2 DEF Inodes
    <3>2. QED
      BY <1>1, <3>1, FS_Interval
  <2>3. Cardinality(InUse) \in Nat /\ Cardinality(Range(dir)) \in Nat
    BY <1>3, <1>4, FS_CardinalityType
  <2>4. QED
    BY <1>1, <1>3, <1>4, <2>1, <2>2, <2>3
<1>6. Inodes \ InUse \subseteq Nat
  BY DEF Inodes
<1>7. \E x \in Inodes \ InUse : \A y \in Inodes \ InUse : x <= y
  BY <1>5, <1>6, LeastNat
<1>8. QED
  BY <1>7 DEF FreshInode, Min

(* A file that has a name keeps its lines.                                 *)
LEMMA NamedIsKept ==
  ASSUME NEW d, SetDisk(d), dir' \in [Names -> Inodes \cup {None}], NEW n \in Names, dir'[n] # None
  PROVE  disk'[dir'[n]] = d[dir'[n]]
BY DEF SetDisk, InUse, Range

-----------------------------------------------------------------------------
(* Without faults: the lines that are kept, and those that are added.      *)
(* What the lines kept are, in the form of a recursive definition, and that *)
(* there is such a function.                                               *)
IsKept(f, lines, user, n) ==
  /\ DOMAIN f = 0 .. n /\ f = [i \in 0 .. n |-> f[i]]
  /\ f[0] = <<>>
  /\ \A i \in 1 .. n : f[i] = IF lines[i].name = user THEN f[i - 1] ELSE Append(f[i - 1], lines[i])

LEMMA SomeKept ==
  ASSUME NEW lines, NEW user, NEW m \in Nat
  PROVE  \E f : IsKept(f, lines, user, m)
<1> DEFINE T == {n \in Nat : ~ \E f : IsKept(f, lines, user, n)}
<1> SUFFICES ASSUME T # {}
             PROVE  FALSE
  OBVIOUS
<1>1. T \subseteq Nat
  OBVIOUS
<1> HIDE DEF T
<1>2. PICK n \in T : \A k \in T : n <= k
  BY <1>1, LeastNat
<1>3. n \in Nat /\ ~ \E f : IsKept(f, lines, user, n)
  BY <1>2 DEF T
<1>4. n # 0
  <2>1. IsKept([i \in 0 .. 0 |-> <<>>], lines, user, 0)
    BY DEF IsKept
  <2>2. QED
    BY <1>3, <2>1
<1>5. n - 1 \in Nat /\ n - 1 \notin T
  BY <1>2, <1>3, <1>4
<1>6. PICK f : IsKept(f, lines, user, n - 1)
  BY <1>5 DEF T
<1> DEFINE last == IF lines[n].name = user THEN f[n - 1] ELSE Append(f[n - 1], lines[n])
           g == [i \in 0 .. n |-> IF i = n THEN last ELSE f[i]]
<1> HIDE DEF last
<1>7. IsKept(g, lines, user, n)
  <2>1. g[n] = last /\ \A i \in 0 .. n - 1 : g[i] = f[i]
    BY <1>3
  <2>2. DOMAIN g = 0 .. n /\ g = [i \in 0 .. n |-> g[i]]
    OBVIOUS
  <2> HIDE DEF g
  <2>3. g[0] = <<>>
    BY <1>5, <1>6, <2>1 DEF IsKept
  <2>4. ASSUME NEW i \in 1 .. n
        PROVE  g[i] = IF lines[i].name = user THEN g[i - 1] ELSE Append(g[i - 1], lines[i])
    <3>1. CASE i = n
      <4>1. g[i - 1] = f[n - 1]
        BY <1>5, <2>1, <3>1
      <4>2. QED
        BY <2>1, <3>1, <4>1 DEF last
    <3>2. CASE i # n
      <4>1. i \in 1 .. n - 1 /\ i \in 0 .. n - 1 /\ i - 1 \in 0 .. n - 1
        BY <1>3, <3>2
      <4>2. QED
        BY <1>6, <2>1, <4>1 DEF IsKept
    <3>3. QED
      BY <3>1, <3>2
  <2>5. QED
    BY <2>2, <2>3, <2>4 DEF IsKept
<1>8. QED
  BY <1>3, <1>7

LEMMA KeptIs ==
  ASSUME NEW lines, Len(lines) \in Nat, NEW user
  PROVE  IsKept(Remaining(lines, user), lines, user, Len(lines))
<1> DEFINE body(f) == [i \in 0 .. Len(lines) |->
                         IF i = 0 THEN <<>>
                         ELSE IF lines[i].name = user THEN f[i - 1]
                         ELSE Append(f[i - 1], lines[i])]
<1>1. Remaining(lines, user) = CHOOSE f : f = body(f)
  BY DEF Remaining
<1>2. PICK f : IsKept(f, lines, user, Len(lines))
  BY SomeKept
<1> DEFINE entry(g, i) == IF i = 0 THEN <<>>
                          ELSE IF lines[i].name = user THEN g[i - 1]
                          ELSE Append(g[i - 1], lines[i])
<1>3. f = body(f)
  <2>1. ASSUME NEW i \in 0 .. Len(lines)
        PROVE  f[i] = entry(f, i)
    <3>1. CASE i = 0
      BY <1>2, <3>1 DEF IsKept
    <3>2. CASE i # 0
      <4>1. i \in 1 .. Len(lines)
        BY <3>2
      <4>2. QED
        BY <1>2, <3>2, <4>1 DEF IsKept
    <3>3. QED
      BY <3>1, <3>2
  <2>2. body(f) = [i \in 0 .. Len(lines) |-> entry(f, i)]
    OBVIOUS
  <2>3. f = [i \in 0 .. Len(lines) |-> f[i]]
    BY <1>2 DEF IsKept
  <2> HIDE DEF entry, body
  <2>4. QED
    BY <2>1, <2>2, <2>3
<1>4. Remaining(lines, user) = body(Remaining(lines, user))
  <2> HIDE DEF body
  <2>1. QED
    BY <1>1, <1>3
<1> DEFINE k == Remaining(lines, user)
<1> HIDE DEF k
<1>5. k = body(k)
  BY <1>4 DEF k
<1>6. IsKept(k, lines, user, Len(lines))
  <2>1. body(k) = [i \in 0 .. Len(lines) |-> entry(k, i)]
    OBVIOUS
  <2>2. k = [i \in 0 .. Len(lines) |-> entry(k, i)]
    BY <1>5, <2>1
  <2> HIDE DEF entry, body
  <2>3. DOMAIN k = 0 .. Len(lines) /\ \A i \in 0 .. Len(lines) : k[i] = entry(k, i)
    BY <2>2
  <2>4. k = [i \in 0 .. Len(lines) |-> k[i]]
    BY <2>2, <2>3
  <2>5. entry(k, 0) = <<>>
    BY DEF entry
  <2>6. \A i \in 1 .. Len(lines) :
          entry(k, i) = IF lines[i].name = user THEN k[i - 1] ELSE Append(k[i - 1], lines[i])
    BY DEF entry
  <2>7. 0 \in 0 .. Len(lines) /\ \A i \in 1 .. Len(lines) : i \in 0 .. Len(lines)
    OBVIOUS
  <2>8. QED
    BY <2>3, <2>4, <2>5, <2>6, <2>7 DEF IsKept
<1>7. QED
  BY <1>6 DEF k

(* Which of the first n lines w has: each that is kept, once.              *)
Picks(g, w, lines, user, n) ==
  /\ g \in [1 .. Len(w) -> 1 .. n]
  /\ \A j, k \in 1 .. Len(w) : g[j] = g[k] => j = k
  /\ \A k \in 1 .. Len(w) : w[k] = lines[g[k]] /\ lines[g[k]].name # user
  /\ \A a \in 1 .. n : lines[a].name # user => \E k \in 1 .. Len(w) : g[k] = a

LEMMA PicksOneMore ==
  ASSUME NEW S, NEW lines \in Seq(S), NEW user, NEW n \in 1 .. Len(lines), lines[n].name # user,
         NEW w \in Seq(S), NEW g, Picks(g, w, lines, user, n - 1)
  PROVE  /\ Append(w, lines[n]) \in Seq(S)
         /\ \E h : Picks(h, Append(w, lines[n]), lines, user, n)
<1>1. PICK L \in Nat : L = Len(w)
  OBVIOUS
<1>2. PICK v \in Seq(S) : v = Append(w, lines[n])
  <2>1. PICK line \in S : line = lines[n]
    OBVIOUS
  <2>2. Append(w, line) \in Seq(S)
    OBVIOUS
  <2>3. QED
    BY <2>1, <2>2
<1>3. Len(v) = L + 1 /\ v[L + 1] = lines[n] /\ \A k \in 1 .. L : v[k] = w[k]
  BY <1>1, <1>2
<1> DEFINE h == [k \in 1 .. L + 1 |-> IF k = L + 1 THEN n ELSE g[k]]
<1>4. h \in [1 .. L + 1 -> 1 .. n] /\ h[L + 1] = n /\ \A k \in 1 .. L : h[k] = g[k] /\ g[k] \in 1 .. n - 1
  <2>1. g \in [1 .. L -> 1 .. n - 1]
    BY <1>1 DEF Picks
  <2>2. \A k \in 1 .. L + 1 : k = L + 1 \/ k \in 1 .. L
    OBVIOUS
  <2>3. \A k \in 1 .. L : k # L + 1
    OBVIOUS
  <2>4. QED
    BY <2>1, <2>2, <2>3
<1> HIDE DEF h
<1>5. \A k \in 1 .. L + 1 : k = L + 1 \/ k \in 1 .. L
  OBVIOUS
<1>6. Picks(h, v, lines, user, n)
  <2>1. ASSUME NEW j \in 1 .. L + 1, NEW k \in 1 .. L + 1, h[j] = h[k]
        PROVE  j = k
    <3>1. \A i \in 1 .. L : h[i] # n
      BY <1>4
    <3>2. CASE j = L + 1 \/ k = L + 1
      BY <1>4, <1>5, <2>1, <3>1, <3>2
    <3>3. CASE j \in 1 .. L /\ k \in 1 .. L
      BY <1>1, <1>4, <2>1, <3>3 DEF Picks
    <3>4. QED
      BY <1>5, <3>2, <3>3
  <2>2. ASSUME NEW k \in 1 .. L + 1
        PROVE  v[k] = lines[h[k]] /\ lines[h[k]].name # user
    BY <1>1, <1>3, <1>4, <1>5 DEF Picks
  <2>3. ASSUME NEW a \in 1 .. n, lines[a].name # user
        PROVE  \E k \in 1 .. L + 1 : h[k] = a
    <3>1. CASE a = n
      BY <1>4, <3>1
    <3>2. CASE a # n
      <4>1. a \in 1 .. n - 1
        BY <3>2
      <4>2. PICK k \in 1 .. L : g[k] = a
        BY <1>1, <2>3, <4>1 DEF Picks
      <4>3. k \in 1 .. L + 1
        OBVIOUS
      <4>4. QED
        BY <1>4, <4>2, <4>3
    <3>3. QED
      BY <3>1, <3>2
  <2>4. QED
    BY <1>3, <1>4, <2>1, <2>2, <2>3 DEF Picks
<1>7. QED
  BY <1>2, <1>6

LEMMA WithoutPicks ==
  ASSUME NEW S, NEW lines \in Seq(S), NEW user
  PROVE  /\ Without(lines, user) \in Seq(S)
         /\ \E g : Picks(g, Without(lines, user), lines, user, Len(lines))
<1>1. PICK L \in Nat : L = Len(lines)
  OBVIOUS
<1>2. PICK kept : kept = Remaining(lines, user) /\ IsKept(kept, lines, user, L)
  BY <1>1, KeptIs
<1> DEFINE T == {n \in 0 .. L : ~ (kept[n] \in Seq(S) /\ \E g : Picks(g, kept[n], lines, user, n))}
<1>3. T = {}
  <2> SUFFICES ASSUME T # {}
               PROVE  FALSE
    OBVIOUS
  <2>1. T \subseteq Nat
    OBVIOUS
  <2> HIDE DEF T
  <2>2. PICK n \in T : \A k \in T : n <= k
    BY <2>1, LeastNat
  <2>3. n \in 0 .. L /\ ~ (kept[n] \in Seq(S) /\ \E g : Picks(g, kept[n], lines, user, n))
    BY <2>2 DEF T
  <2>4. n # 0
    <3>1. kept[0] = <<>>
      BY <1>2 DEF IsKept
    <3>2. <<>> \in Seq(S)
      OBVIOUS
    <3>3. Picks([k \in 1 .. 0 |-> 0], <<>>, lines, user, 0)
      BY DEF Picks
    <3>4. QED
      BY <2>3, <3>1, <3>2, <3>3
  <2>5. n \in 1 .. L /\ n - 1 \in 0 .. L /\ n - 1 \notin T
    BY <2>2, <2>3, <2>4
  <2>6. PICK w \in Seq(S) : w = kept[n - 1] /\ \E g : Picks(g, w, lines, user, n - 1)
    BY <2>5 DEF T
  <2>7. PICK g : Picks(g, w, lines, user, n - 1)
    BY <2>6
  <2>8. CASE lines[n].name = user
    <3>1. kept[n] = w
      BY <1>2, <2>5, <2>6, <2>8 DEF IsKept
    <3>2. g \in [1 .. Len(w) -> 1 .. n] /\ \A a \in 1 .. n : a = n \/ a \in 1 .. n - 1
      BY <2>5, <2>7 DEF Picks
    <3>3. Picks(g, w, lines, user, n)
      BY <2>7, <2>8, <3>2 DEF Picks
    <3>4. QED
      BY <2>3, <3>1, <3>3
  <2>9. CASE lines[n].name # user
    <3>1. kept[n] = Append(w, lines[n])
      BY <1>2, <2>5, <2>6, <2>9 DEF IsKept
    <3>2. n \in 1 .. Len(lines)
      BY <1>1, <2>5
    <3>3. QED
      BY <2>3, <2>7, <2>9, <3>1, <3>2, PicksOneMore
  <2>10. QED
    BY <2>8, <2>9
<1>4. L \in 0 .. L /\ L \notin T
  BY <1>3
<1>5. kept[L] \in Seq(S) /\ \E g : Picks(g, kept[L], lines, user, L)
  BY <1>4
<1>6. QED
  BY <1>1, <1>2, <1>5 DEF Without

(* Every name at most once.                                                *)
Distinct(lines) == \A i, j \in DOMAIN lines : lines[i].name = lines[j].name => i = j

OwnUids(lines) == \A i, j \in DOMAIN lines : lines[i].uid = lines[j].uid => i = j

(* The uid of nobody is not one that is given.                             *)
NobodyApart(lines) == \A i \in DOMAIN lines : lines[i].name = "nobody" => lines[i].uid > MaxUid

LEMMA LookupIs ==
  ASSUME NEW S, NEW lines \in Seq(S), Distinct(lines), NEW i \in DOMAIN lines
  PROVE  Lookup(lines, lines[i].name) = lines[i]
<1>1. {j \in DOMAIN lines : lines[j].name = lines[i].name} = {i}
  BY DEF Distinct
<1>2. i \in Int
  OBVIOUS
<1>3. Min({i}) = i
  BY <1>2 DEF Min
<1>4. QED
  BY <1>1, <1>3 DEF Lookup

(* The lines without those of a user.                                      *)
LEMMA WithoutIs ==
  ASSUME NEW S, NEW lines \in Seq(S), NEW user, Distinct(lines)
  PROVE  /\ Without(lines, user) \in Seq(S)
         /\ NamesIn(Without(lines, user)) = NamesIn(lines) \ {user}
         /\ Distinct(Without(lines, user))
         /\ OwnUids(lines) => OwnUids(Without(lines, user))
         /\ NobodyApart(lines) => NobodyApart(Without(lines, user))
         /\ \A u \in NamesIn(lines) \ {user} : Lookup(Without(lines, user), u) = Lookup(lines, u)
<1>1. PICK w \in Seq(S) : w = Without(lines, user)
  BY WithoutPicks
<1>2. PICK g : Picks(g, w, lines, user, Len(lines))
  BY <1>1, WithoutPicks
<1>3. DOMAIN w = 1 .. Len(w) /\ DOMAIN lines = 1 .. Len(lines)
  OBVIOUS
<1>4. /\ \A k \in DOMAIN w : g[k] \in DOMAIN lines /\ w[k] = lines[g[k]] /\ lines[g[k]].name # user
      /\ \A j, k \in DOMAIN w : g[j] = g[k] => j = k
      /\ \A a \in DOMAIN lines : lines[a].name # user => \E k \in DOMAIN w : g[k] = a
  BY <1>2, <1>3 DEF Picks
<1>5. NamesIn(w) = NamesIn(lines) \ {user}
  <2>1. ASSUME NEW k \in DOMAIN w
        PROVE  w[k].name \in NamesIn(lines) \ {user}
    BY <1>4 DEF NamesIn
  <2>2. ASSUME NEW a \in DOMAIN lines, lines[a].name # user
        PROVE  lines[a].name \in NamesIn(w)
    <3>1. PICK k \in DOMAIN w : g[k] = a
      BY <1>4, <2>2
    <3>2. w[k] = lines[a]
      BY <1>4, <3>1
    <3>3. QED
      BY <3>2 DEF NamesIn
  <2>3. QED
    BY <2>1, <2>2 DEF NamesIn
<1>6. Distinct(w)
  <2>1. ASSUME NEW j \in DOMAIN w, NEW k \in DOMAIN w, w[j].name = w[k].name
        PROVE  j = k
    <3>1. lines[g[j]].name = lines[g[k]].name
      BY <1>4, <2>1
    <3>2. g[j] = g[k]
      BY <1>4, <3>1 DEF Distinct
    <3>3. QED
      BY <1>4, <3>2
  <2>2. QED
    BY <2>1 DEF Distinct
<1>7. OwnUids(lines) => OwnUids(w)
  BY <1>4 DEF OwnUids
<1>8. NobodyApart(lines) => NobodyApart(w)
  BY <1>4 DEF NobodyApart
<1>9. ASSUME NEW u \in NamesIn(lines) \ {user}
      PROVE  Lookup(w, u) = Lookup(lines, u)
  <2>1. PICK a \in DOMAIN lines : lines[a].name = u
    BY DEF NamesIn
  <2>2. PICK k \in DOMAIN w : g[k] = a
    BY <1>4, <2>1
  <2>3. w[k] = lines[a] /\ w[k].name = u
    BY <1>4, <2>1, <2>2
  <2>4. Lookup(w, w[k].name) = w[k]
    BY <1>6, LookupIs
  <2>5. Lookup(lines, lines[a].name) = lines[a]
    BY LookupIs
  <2>6. QED
    BY <2>1, <2>3, <2>4, <2>5
<1>10. QED
  BY <1>1, <1>5, <1>6, <1>7, <1>8, <1>9

(* The lines with one line more, of a new user.                            *)
LEMMA WithOneMore ==
  ASSUME NEW S, NEW lines \in Seq(S), NEW line \in S, line.name \notin NamesIn(lines), Distinct(lines)
  PROVE  /\ lines \o <<line>> \in Seq(S)
         /\ NamesIn(lines \o <<line>>) = NamesIn(lines) \cup {line.name}
         /\ Distinct(lines \o <<line>>)
         /\ Lookup(lines \o <<line>>, line.name) = line
         /\ \A u \in NamesIn(lines) : Lookup(lines \o <<line>>, u) = Lookup(lines, u)
         /\ (OwnUids(lines) /\ \A i \in DOMAIN lines : lines[i].uid # line.uid)
              => OwnUids(lines \o <<line>>)
         /\ (NobodyApart(lines) /\ line.name # "nobody") => NobodyApart(lines \o <<line>>)
<1>1. PICK L \in Nat : L = Len(lines) /\ DOMAIN lines = 1 .. L
  OBVIOUS
<1>2. PICK w \in Seq(S) : w = lines \o <<line>>
  <2>1. <<line>> \in Seq(S)
    OBVIOUS
  <2>2. lines \o <<line>> \in Seq(S)
    BY <2>1
  <2>3. QED
    BY <2>2
<1>3. /\ DOMAIN w = 1 .. L + 1 /\ w[L + 1] = line
      /\ \A i \in 1 .. L : w[i] = lines[i] /\ i \in DOMAIN w /\ i # L + 1
      /\ \A i \in DOMAIN w : i = L + 1 \/ i \in 1 .. L
      /\ L + 1 \in DOMAIN w
  BY <1>1, <1>2
<1>4. \A i \in 1 .. L : lines[i].name # line.name /\ lines[i].name \in NamesIn(lines)
  BY <1>1 DEF NamesIn
<1>5. NamesIn(w) = NamesIn(lines) \cup {line.name}
  BY <1>1, <1>3 DEF NamesIn
<1>6. Distinct(w)
  BY <1>1, <1>3, <1>4 DEF Distinct
<1>7. Lookup(w, line.name) = line
  <2>1. Lookup(w, w[L + 1].name) = w[L + 1]
    BY <1>3, <1>6, LookupIs
  <2>2. QED
    BY <1>3, <2>1
<1>8. ASSUME NEW u \in NamesIn(lines)
      PROVE  Lookup(w, u) = Lookup(lines, u)
  <2>1. PICK i \in DOMAIN lines : lines[i].name = u
    BY DEF NamesIn
  <2>2. w[i] = lines[i] /\ i \in DOMAIN w
    BY <1>1, <1>3
  <2>3. Lookup(w, w[i].name) = w[i]
    BY <1>6, <2>2, LookupIs
  <2>4. Lookup(lines, lines[i].name) = lines[i]
    BY LookupIs
  <2>5. QED
    BY <2>1, <2>2, <2>3, <2>4
<1>9. (OwnUids(lines) /\ \A i \in DOMAIN lines : lines[i].uid # line.uid) => OwnUids(w)
  BY <1>1, <1>3 DEF OwnUids
<1>10. (NobodyApart(lines) /\ line.name # "nobody") => NobodyApart(w)
  BY <1>1, <1>3 DEF NobodyApart
<1>11. QED
  BY <1>2, <1>5, <1>6, <1>7, <1>8, <1>9, <1>10

-----------------------------------------------------------------------------
(* The contents of both files, between calls.                              *)
Sound(b) ==
  /\ b.passwd \in Seq(PasswdLines) /\ b.shadow \in Seq(ShadowLines)
  /\ NamesIn(b.passwd) = NamesIn(b.shadow)
  /\ Distinct(b.passwd) /\ Distinct(b.shadow)
  /\ OwnUids(b.passwd) /\ NobodyApart(b.passwd)

(* What is called with what; nobody is not added.                          *)
Proper(c) ==
  /\ c # None /\ c.user \in Users
  /\ c.kind \in EditKinds \cup {"getUserByName", "addNewUser", "deleteUser"}
  /\ c.kind \in {"changePassword", "addNewUser"} => c.arg \in Hashes
  /\ c.kind = "addNewUser" => c.gid \in Groups /\ c.user # "nobody"
  /\ c.kind = "changeMaxPasswordAge" => c.arg \in AgeChoices
  /\ c.kind = "changeWarningPeriod" => c.arg \in WarnChoices

(* A call that does what it is called for, and what it makes of both files. *)
Effective(c, b) ==
  IF c.kind = "addNewUser" THEN c.user \notin NamesIn(b.passwd) /\ NextUid(b.passwd) <= MaxUid
  ELSE /\ c.kind # "getUserByName" /\ c.user \in NamesIn(b.passwd)
       /\ c.kind = "deleteUser" => Lookup(b.passwd, c.user).gid = UsersGroup

NewUser(c, b) == [name |-> c.user, uid |-> NextUid(b.passwd), gid |-> c.gid]

Effect(c, b) ==
  IF c.kind = "addNewUser"
  THEN [passwd |-> b.passwd \o <<NewUser(c, b)>>,
        shadow |-> b.shadow \o <<NewEntry(c.user, c.arg, Today)>>]
  ELSE IF c.kind = "deleteUser"
  THEN [passwd |-> Without(b.passwd, c.user), shadow |-> Without(b.shadow, c.user)]
  ELSE [passwd |-> b.passwd, shadow |-> Edited(c, b.shadow)]

LEMMA SoundIsPaired ==
  ASSUME NEW b, Sound(b)
  PROVE  Paired(b)
BY DEF Sound, Paired, Distinct, OwnUids, Files

LEMMA LookupType ==
  ASSUME NEW S, NEW lines \in Seq(S), Distinct(lines), NEW u \in NamesIn(lines)
  PROVE  Lookup(lines, u) \in S /\ Lookup(lines, u).name = u
<1>1. PICK i \in DOMAIN lines : lines[i].name = u
  BY DEF NamesIn
<1>2. Lookup(lines, lines[i].name) = lines[i]
  BY LookupIs
<1>3. lines[i] \in S
  OBVIOUS
<1>4. QED
  BY <1>1, <1>2, <1>3

LEMMA ProperEdit ==
  ASSUME NEW c, Proper(c), c.kind \in EditKinds
  PROVE  /\ c.kind = "changePassword" => c.arg \in Hashes
         /\ c.kind # "changePassword" => c.arg \in Int
         /\ Today \in Int
<1>1. Today \in Int /\ AgeChoices \subseteq Int /\ WarnChoices \subseteq Int
  BY InitialAssumption
<1>2. CASE c.kind = "changePassword"
  BY <1>1, <1>2 DEF Proper
<1>3. CASE c.kind = "changeMaxPasswordAge"
  BY <1>1, <1>3 DEF Proper
<1>4. CASE c.kind = "changeWarningPeriod"
  BY <1>1, <1>4 DEF Proper
<1>5. QED
  BY <1>2, <1>3, <1>4 DEF EditKinds

LEMMA EditedIs ==
  ASSUME NEW lines \in Seq(ShadowLines), Distinct(lines), NEW c, Proper(c), c.kind \in EditKinds
  PROVE  /\ Edited(c, lines) \in Seq(ShadowLines) /\ NamesIn(Edited(c, lines)) = NamesIn(lines)
         /\ Distinct(Edited(c, lines))
         /\ \A u \in NamesIn(lines) :
              Lookup(Edited(c, lines), u) =
                IF u = c.user THEN EditLine(c, Lookup(lines, u)) ELSE Lookup(lines, u)
<1>1. PICK w \in Seq(ShadowLines) : w = Edited(c, lines) /\ NamesIn(w) = NamesIn(lines)
  BY ProperEdit, EditedIsIntact
<1>2. /\ DOMAIN w = DOMAIN lines
      /\ \A i \in DOMAIN lines :
           w[i] = IF lines[i].name = c.user THEN EditLine(c, lines[i]) ELSE lines[i]
  BY <1>1 DEF Edited, EditKinds
<1>3. ASSUME NEW i \in DOMAIN lines
      PROVE  w[i].name = lines[i].name
  <2>1. lines[i] \in ShadowLines
    OBVIOUS
  <2>2. EditLine(c, lines[i]).name = lines[i].name
    BY <2>1, ProperEdit, EditLineKeeps
  <2>3. QED
    BY <1>2, <2>2
<1>4. Distinct(w)
  BY <1>2, <1>3 DEF Distinct
<1>5. ASSUME NEW u \in NamesIn(lines)
      PROVE  Lookup(w, u) = IF u = c.user THEN EditLine(c, Lookup(lines, u)) ELSE Lookup(lines, u)
  <2>1. PICK i \in DOMAIN lines : lines[i].name = u
    BY DEF NamesIn
  <2>2. Lookup(lines, lines[i].name) = lines[i]
    BY LookupIs
  <2>3. Lookup(w, w[i].name) = w[i]
    BY <1>2, <1>4, LookupIs
  <2>4. QED
    BY <1>2, <1>3, <2>1, <2>2, <2>3
<1>6. QED
  BY <1>1, <1>4, <1>5

(* The next uid is above all that count.                                   *)
LEMMA NextUidIs ==
  ASSUME NEW lines \in Seq(PasswdLines)
  PROVE  /\ NextUid(lines) \in Nat /\ NextUid(lines) >= 1000
         /\ \A i \in DOMAIN lines : lines[i].name # "nobody" => lines[i].uid < NextUid(lines)
<1>1. PICK L \in Nat : L = Len(lines) /\ DOMAIN lines = 1 .. L
  OBVIOUS
<1>2. \A i \in 1 .. L : lines[i].uid \in Nat
  <2>1. \A i \in 1 .. L : lines[i] \in PasswdLines
    BY <1>1
  <2>2. QED
    BY <2>1 DEF PasswdLines
<1> DEFINE uids(n) == {999} \cup {lines[i].uid : i \in {k \in 1 .. n : lines[k].name # "nobody"}}
           T == {n \in 0 .. L : ~ \E x \in uids(n) : \A y \in uids(n) : x >= y}
<1>3. \A n \in 0 .. L : uids(n) \subseteq Nat
  BY <1>2
<1>4. T = {}
  <2> SUFFICES ASSUME T # {}
               PROVE  FALSE
    OBVIOUS
  <2>1. T \subseteq Nat
    OBVIOUS
  <2> HIDE DEF T
  <2>2. PICK n \in T : \A k \in T : n <= k
    BY <2>1, LeastNat
  <2>3. n \in 0 .. L /\ ~ \E x \in uids(n) : \A y \in uids(n) : x >= y
    BY <2>2 DEF T
  <2>4. n # 0
    <3>1. uids(0) = {999}
      OBVIOUS
    <3>2. QED
      BY <2>3, <3>1
  <2>5. n \in 1 .. L /\ n - 1 \in 0 .. L /\ n - 1 \notin T
    BY <2>2, <2>3, <2>4
  <2>6. PICK x \in uids(n - 1) : \A y \in uids(n - 1) : x >= y
    BY <2>5 DEF T
  <2>7. uids(n) \subseteq uids(n - 1) \cup {lines[n].uid}
    <3>1. \A k \in 1 .. n : k = n \/ k \in 1 .. n - 1
      BY <2>5
    <3>2. QED
      BY <3>1
  <2>8. uids(n - 1) \subseteq uids(n)
    BY <2>5
  <2>9. lines[n].name # "nobody" => lines[n].uid \in uids(n)
    BY <2>5
  <2>10. lines[n].name = "nobody" => uids(n) = uids(n - 1)
    <3>1. \A k \in 1 .. n : k = n \/ k \in 1 .. n - 1
      BY <2>5
    <3>2. QED
      BY <2>8, <3>1
  <2>11. x \in Nat /\ lines[n].uid \in Nat /\ uids(n) \subseteq Nat
    BY <1>2, <1>3, <2>5, <2>6
  <2> HIDE DEF uids
  <2>12. QED
    BY <2>3, <2>6, <2>7, <2>8, <2>9, <2>10, <2>11
<1>5. L \in 0 .. L /\ L \notin T
  <2> HIDE DEF T
  <2>1. QED
    BY <1>4
<1>6. \E x \in uids(L) : \A y \in uids(L) : x >= y
  BY <1>5
<1>7. NextUid(lines) = 1 + Max(uids(L))
  BY <1>1 DEF NextUid
<1>8. uids(L) \subseteq Nat /\ 999 \in uids(L)
      /\ \A i \in 1 .. L : lines[i].name # "nobody" => lines[i].uid \in uids(L)
  BY <1>3, <1>5
<1> HIDE DEF uids, T
<1>9. Max(uids(L)) \in uids(L) /\ \A y \in uids(L) : Max(uids(L)) >= y
  BY <1>6 DEF Max
<1>10. QED
  BY <1>1, <1>7, <1>8, <1>9

LEMMA NewUserIs ==
  ASSUME NEW b, Sound(b), NEW c, Proper(c), c.kind = "addNewUser", Effective(c, b)
  PROVE  /\ NewUser(c, b) \in PasswdLines /\ NewUser(c, b).name = c.user
         /\ NewUser(c, b).uid = NextUid(b.passwd) /\ NewUser(c, b).gid = c.gid
         /\ NextUid(b.passwd) \in 1000 .. MaxUid
         /\ \A i \in DOMAIN b.passwd : b.passwd[i].uid # NextUid(b.passwd)
         /\ NewEntry(c.user, c.arg, Today) \in ShadowLines
         /\ NewEntry(c.user, c.arg, Today).name = c.user
<1>1. /\ NextUid(b.passwd) \in Nat /\ NextUid(b.passwd) >= 1000 /\ NextUid(b.passwd) <= MaxUid
      /\ \A i \in DOMAIN b.passwd : b.passwd[i].name # "nobody" => b.passwd[i].uid < NextUid(b.passwd)
  BY NextUidIs DEF Sound, Effective
<1>2. c.user \in Users /\ c.arg \in Hashes /\ c.gid \in Gids
  BY DEF Proper, Gids
<1>3. MaxUid \in Nat /\ Today \in Int /\ Off \in Int
  BY InitialAssumption DEF Off
<1>4. \A i \in DOMAIN b.passwd : b.passwd[i].uid \in Nat
  <2>1. \A i \in DOMAIN b.passwd : b.passwd[i] \in PasswdLines
    BY DEF Sound
  <2>2. QED
    BY <2>1 DEF PasswdLines
<1>5. \A i \in DOMAIN b.passwd : b.passwd[i].uid # NextUid(b.passwd)
  BY <1>1, <1>3, <1>4 DEF Sound, NobodyApart
<1>6. NewUser(c, b) \in PasswdLines
  BY <1>1, <1>2 DEF NewUser, PasswdLines
<1>7. NewEntry(c.user, c.arg, Today) \in ShadowLines
  BY <1>2, <1>3 DEF NewEntry, ShadowLines
<1>8. QED
  BY <1>1, <1>3, <1>5, <1>6, <1>7 DEF NewUser, NewEntry

LEMMA EffectIsSound ==
  ASSUME NEW b, Sound(b), NEW c, Proper(c), Effective(c, b)
  PROVE  Sound(Effect(c, b))
<1> USE DEF Sound
<1>1. CASE c.kind = "addNewUser"
  <2>1. /\ Effect(c, b).passwd = b.passwd \o <<NewUser(c, b)>>
        /\ Effect(c, b).shadow = b.shadow \o <<NewEntry(c.user, c.arg, Today)>>
    BY <1>1 DEF Effect
  <2>2. c.user \notin NamesIn(b.passwd) /\ c.user \notin NamesIn(b.shadow) /\ c.user # "nobody"
    BY <1>1 DEF Effective, Proper
  <2>3. PICK line \in PasswdLines : /\ line = NewUser(c, b) /\ line.name = c.user
                                   /\ \A i \in DOMAIN b.passwd : b.passwd[i].uid # line.uid
    BY <1>1, NewUserIs
  <2>4. PICK entry \in ShadowLines : entry = NewEntry(c.user, c.arg, Today) /\ entry.name = c.user
    BY <1>1, NewUserIs
  <2>5. /\ b.passwd \o <<line>> \in Seq(PasswdLines) /\ Distinct(b.passwd \o <<line>>)
        /\ NamesIn(b.passwd \o <<line>>) = NamesIn(b.passwd) \cup {c.user}
        /\ OwnUids(b.passwd \o <<line>>) /\ NobodyApart(b.passwd \o <<line>>)
    BY <2>2, <2>3, WithOneMore
  <2>6. /\ b.shadow \o <<entry>> \in Seq(ShadowLines) /\ Distinct(b.shadow \o <<entry>>)
        /\ NamesIn(b.shadow \o <<entry>>) = NamesIn(b.shadow) \cup {c.user}
    BY <2>2, <2>4, WithOneMore
  <2>7. QED
    BY <2>1, <2>3, <2>4, <2>5, <2>6
<1>2. CASE c.kind = "deleteUser"
  <2>1. /\ Effect(c, b).passwd = Without(b.passwd, c.user)
        /\ Effect(c, b).shadow = Without(b.shadow, c.user)
    BY <1>2 DEF Effect
  <2>2. PICK w \in Seq(PasswdLines) : w = Without(b.passwd, c.user)
    BY WithoutPicks
  <2>3. NamesIn(w) = NamesIn(b.passwd) \ {c.user} /\ Distinct(w) /\ OwnUids(w) /\ NobodyApart(w)
    BY <2>2, WithoutIs
  <2>4. PICK v \in Seq(ShadowLines) : v = Without(b.shadow, c.user)
    BY WithoutPicks
  <2>5. NamesIn(v) = NamesIn(b.shadow) \ {c.user} /\ Distinct(v)
    BY <2>4, WithoutIs
  <2>6. QED
    BY <2>1, <2>2, <2>3, <2>4, <2>5
<1>3. CASE c.kind \in EditKinds
  <2>1. Effect(c, b).passwd = b.passwd /\ Effect(c, b).shadow = Edited(c, b.shadow)
    BY <1>3 DEF Effect, EditKinds
  <2>2. QED
    BY <1>3, <2>1, EditedIs
<1>4. QED
  BY <1>1, <1>2, <1>3 DEF Proper, Effective, EditKinds

(* An account as the two files have it.                                    *)
Account(b, u) ==
  [uid |-> Lookup(b.passwd, u).uid, gid |-> Lookup(b.passwd, u).gid, shadow |-> Lookup(b.shadow, u)]

LEMMA AccountsAre ==
  ASSUME NEW b, Sound(b)
  PROVE  /\ AccountsIn(b) = [u \in Users |-> IF u \in NamesIn(b.passwd) THEN Account(b, u) ELSE None]
         /\ \A u \in NamesIn(b.passwd) : Account(b, u) # None
<1>1. ASSUME NEW u \in NamesIn(b.passwd)
      PROVE  Account(b, u) # None
  <2>1. Lookup(b.passwd, u) \in PasswdLines /\ Lookup(b.shadow, u) \in ShadowLines
    BY LookupType DEF Sound
  <2>2. Lookup(b.passwd, u).uid \in Nat /\ Lookup(b.passwd, u).gid \in Gids
    BY <2>1 DEF PasswdLines
  <2>3. Account(b, u) \in [uid : Nat, gid : Gids, shadow : ShadowLines]
    BY <2>1, <2>2 DEF Account
  <2>4. QED
    BY <2>3, NoneAssumption
<1>2. AccountsIn(b) = [u \in Users |-> IF u \in NamesIn(b.passwd) THEN Account(b, u) ELSE None]
  BY DEF AccountsIn, Account, Sound
<1>3. QED
  BY <1>1, <1>2

LEMMA EditOfAccount ==
  ASSUME NEW b, Sound(b), NEW c, Proper(c), c.kind \in EditKinds, Effective(c, b)
  PROVE  AccountsIn(Effect(c, b)) =
           [AccountsIn(b) EXCEPT ![c.user].shadow = EditLine(c, AccountsIn(b)[c.user].shadow)]
<1>1. Sound(Effect(c, b))
  BY EffectIsSound
<1>2. Effect(c, b).passwd = b.passwd /\ Effect(c, b).shadow = Edited(c, b.shadow)
  BY DEF Effect, EditKinds
<1>3. \A u \in NamesIn(b.passwd) :
        Lookup(Edited(c, b.shadow), u) =
          IF u = c.user THEN EditLine(c, Lookup(b.shadow, u)) ELSE Lookup(b.shadow, u)
  BY EditedIs DEF Sound
<1>4. c.user \in NamesIn(b.passwd) /\ c.user \in Users
  BY DEF Effective, Proper, EditKinds
<1> DEFINE edited(u) == [Account(b, u) EXCEPT !.shadow = EditLine(c, Account(b, u).shadow)]
<1>5. ASSUME NEW u \in NamesIn(b.passwd)
      PROVE  Account(Effect(c, b), u) = IF u = c.user THEN edited(u) ELSE Account(b, u)
  BY <1>2, <1>3 DEF Account
<1> HIDE DEF edited
<1>6. AccountsIn(Effect(c, b)) =
        [u \in Users |-> IF u \in NamesIn(b.passwd)
                         THEN IF u = c.user THEN edited(u) ELSE Account(b, u)
                         ELSE None]
  BY <1>1, <1>2, <1>5, AccountsAre
<1>7. AccountsIn(b) = [u \in Users |-> IF u \in NamesIn(b.passwd) THEN Account(b, u) ELSE None]
  BY AccountsAre
<1>8. AccountsIn(Effect(c, b)) = [AccountsIn(b) EXCEPT ![c.user] = edited(c.user)]
  BY <1>4, <1>6, <1>7
<1>9. AccountsIn(b)[c.user] = Account(b, c.user)
  BY <1>4, <1>7
<1>10. QED
  BY <1>8, <1>9 DEF edited

LEMMA DeleteOfAccount ==
  ASSUME NEW b, Sound(b), NEW c, Proper(c), c.kind = "deleteUser", Effective(c, b)
  PROVE  AccountsIn(Effect(c, b)) = [AccountsIn(b) EXCEPT ![c.user] = None]
<1>1. Sound(Effect(c, b))
  BY EffectIsSound
<1>2. /\ Effect(c, b).passwd = Without(b.passwd, c.user)
      /\ Effect(c, b).shadow = Without(b.shadow, c.user)
  BY DEF Effect
<1>3. /\ NamesIn(Effect(c, b).passwd) = NamesIn(b.passwd) \ {c.user}
      /\ \A u \in NamesIn(b.passwd) \ {c.user} :
           Lookup(Effect(c, b).passwd, u) = Lookup(b.passwd, u)
  BY <1>2, WithoutIs DEF Sound
<1>4. \A u \in NamesIn(b.passwd) \ {c.user} :
           Lookup(Effect(c, b).shadow, u) = Lookup(b.shadow, u)
  BY <1>2, WithoutIs DEF Sound
<1>5. \A u \in NamesIn(b.passwd) \ {c.user} : Account(Effect(c, b), u) = Account(b, u)
  BY <1>3, <1>4 DEF Account
<1>6. AccountsIn(Effect(c, b)) =
        [u \in Users |-> IF u \in NamesIn(b.passwd) \ {c.user} THEN Account(b, u) ELSE None]
  BY <1>1, <1>3, <1>5, AccountsAre
<1>7. AccountsIn(b) = [u \in Users |-> IF u \in NamesIn(b.passwd) THEN Account(b, u) ELSE None]
  BY AccountsAre
<1>8. QED
  BY <1>6, <1>7

LEMMA AddOfAccount ==
  ASSUME NEW b, Sound(b), NEW c, Proper(c), c.kind = "addNewUser", Effective(c, b)
  PROVE  AccountsIn(Effect(c, b)) =
           [AccountsIn(b) EXCEPT ![c.user] =
              [uid |-> NextUid(b.passwd), gid |-> c.gid, shadow |-> NewEntry(c.user, c.arg, Today)]]
<1>1. Sound(Effect(c, b))
  BY EffectIsSound
<1>2. PICK line \in PasswdLines, entry \in ShadowLines :
        /\ line = NewUser(c, b) /\ line.name = c.user
        /\ line.uid = NextUid(b.passwd) /\ line.gid = c.gid
        /\ entry = NewEntry(c.user, c.arg, Today) /\ entry.name = c.user
  BY NewUserIs
<1>3. Effect(c, b).passwd = b.passwd \o <<line>> /\ Effect(c, b).shadow = b.shadow \o <<entry>>
  BY <1>2 DEF Effect
<1>4. c.user \notin NamesIn(b.passwd) /\ c.user \notin NamesIn(b.shadow) /\ c.user \in Users
  BY DEF Effective, Sound, Proper
<1>5. /\ NamesIn(Effect(c, b).passwd) = NamesIn(b.passwd) \cup {c.user}
      /\ Lookup(Effect(c, b).passwd, c.user) = line
      /\ \A u \in NamesIn(b.passwd) : Lookup(Effect(c, b).passwd, u) = Lookup(b.passwd, u)
  <2>1. b.passwd \in Seq(PasswdLines) /\ Distinct(b.passwd) /\ line.name \notin NamesIn(b.passwd)
    BY <1>2, <1>4 DEF Sound
  <2>2. QED
    BY <1>2, <1>3, <2>1, WithOneMore
<1>6. /\ Lookup(Effect(c, b).shadow, c.user) = entry
      /\ \A u \in NamesIn(b.passwd) : Lookup(Effect(c, b).shadow, u) = Lookup(b.shadow, u)
  <2>1. /\ b.shadow \in Seq(ShadowLines) /\ Distinct(b.shadow) /\ entry.name \notin NamesIn(b.shadow)
        /\ NamesIn(b.shadow) = NamesIn(b.passwd)
    BY <1>2, <1>4 DEF Sound
  <2>2. QED
    BY <1>2, <1>3, <2>1, WithOneMore
<1> DEFINE new == [uid |-> NextUid(b.passwd), gid |-> c.gid, shadow |-> entry]
<1>7. /\ Account(Effect(c, b), c.user) = new
      /\ \A u \in NamesIn(b.passwd) : Account(Effect(c, b), u) = Account(b, u)
  BY <1>2, <1>5, <1>6 DEF Account
<1> HIDE DEF new
<1>8. AccountsIn(Effect(c, b)) =
        [u \in Users |-> IF u = c.user THEN new
                         ELSE IF u \in NamesIn(b.passwd) THEN Account(b, u) ELSE None]
  BY <1>1, <1>4, <1>5, <1>7, AccountsAre
<1>9. AccountsIn(b) = [u \in Users |-> IF u \in NamesIn(b.passwd) THEN Account(b, u) ELSE None]
  BY AccountsAre
<1>10. AccountsIn(Effect(c, b)) = [AccountsIn(b) EXCEPT ![c.user] = new]
  BY <1>4, <1>8, <1>9
<1>11. QED
  BY <1>2, <1>10 DEF new

(* A call that is asked for what it cannot do.                             *)
Vain(c, b) ==
  IF c.kind = "addNewUser" THEN c.user \in NamesIn(b.passwd)
  ELSE \/ c.user \notin NamesIn(b.passwd)
       \/ c.kind = "deleteUser" /\ Lookup(b.passwd, c.user).gid # UsersGroup

(* How a call ends: with its effect, as a lookup that finds its account, or *)
(* in vain.                                                                *)
Answered(c, b, content, answer) ==
  \/ answer = "ok" /\ Effective(c, b) /\ content = Effect(c, b)
  \/ answer = "ok" /\ c.kind = "getUserByName" /\ c.user \in NamesIn(b.passwd) /\ content = b
  \/ /\ Vain(c, b) /\ content = b
     /\ answer = IF c.kind = "getUserByName" THEN "missing" ELSE "failed"

LEMMA HeldAre ==
  ASSUME NEW b, Sound(b), Accounts = AccountsIn(b)
  PROVE  \A u \in Users : /\ Store!HeldBy(u) <=> u \in NamesIn(b.passwd)
                          /\ u \in NamesIn(b.passwd) => Accounts[u] = Account(b, u)
<1>1. Accounts = [u \in Users |-> IF u \in NamesIn(b.passwd) THEN Account(b, u) ELSE None]
  BY AccountsAre
<1>2. \A u \in NamesIn(b.passwd) : Account(b, u) # None
  BY AccountsAre
<1>3. QED
  BY <1>1, <1>2 DEF Store!HeldBy

(* A call that takes effect is answered as one of the abstract store.      *)
LEMMA DoneIsStep ==
  ASSUME NEW b, Sound(b), NEW c, Proper(c), Effective(c, b), Request = c,
         Accounts = AccountsIn(b), Accounts' = AccountsIn(Effect(c, b)),
         Request' = None, Reply' = "ok"
  PROVE  Store!Do
<1>1. \A u \in Users : /\ Store!HeldBy(u) <=> u \in NamesIn(b.passwd)
                       /\ u \in NamesIn(b.passwd) => Accounts[u] = Account(b, u)
  BY HeldAre
<1>2. c.user \in Users
  BY DEF Proper
<1>3. Store!Answer("ok")
  BY DEF Store!Answer
<1>4. CASE c.kind \in EditKinds
  <2>1. Store!HeldBy(c.user)
    BY <1>1, <1>2, <1>4 DEF Effective, EditKinds
  <2>2. Accounts' = [Accounts EXCEPT ![c.user].shadow = EditLine(c, Accounts[c.user].shadow)]
    BY <1>4, EditOfAccount
  <2>3. CASE c.kind = "changePassword"
    <3>1. EditLine(c, Accounts[c.user].shadow) = WithPassword(Accounts[c.user].shadow, c.arg, Today)
      BY <2>3 DEF EditLine
    <3>2. Store!changePassword
      BY <2>1, <2>2, <3>1
         DEF Store!changePassword, Store!Edit, Store!Entry, Store!WithPassword, WithPassword
    <3>3. QED
      BY <1>3, <2>3, <3>2 DEF Store!Do
  <2>4. CASE c.kind = "changeMaxPasswordAge"
    <3>1. EditLine(c, Accounts[c.user].shadow) = WithMaxAge(Accounts[c.user].shadow, c.arg, Today)
      BY <2>4 DEF EditLine
    <3>2. Store!changeMaxPasswordAge
      BY <2>1, <2>2, <3>1
         DEF Store!changeMaxPasswordAge, Store!Edit, Store!Entry, Store!WithMaxAge, WithMaxAge,
             Store!Off, Off
    <3>3. QED
      BY <1>3, <2>4, <3>2 DEF Store!Do
  <2>5. CASE c.kind = "changeWarningPeriod"
    <3>1. EditLine(c, Accounts[c.user].shadow) = WithWarning(Accounts[c.user].shadow, c.arg)
      BY <2>5 DEF EditLine
    <3>2. Store!changeWarningPeriod
      BY <2>1, <2>2, <3>1
         DEF Store!changeWarningPeriod, Store!Edit, Store!Entry, Store!WithWarning, WithWarning,
             Store!Off, Off
    <3>3. QED
      BY <1>3, <2>5, <3>2 DEF Store!Do
  <2>6. QED
    BY <1>4, <2>3, <2>4, <2>5 DEF EditKinds
<1>5. CASE c.kind = "deleteUser"
  <2>1. c.user \in NamesIn(b.passwd) /\ Lookup(b.passwd, c.user).gid = UsersGroup
    BY <1>5 DEF Effective
  <2>2. Account(b, c.user).gid = UsersGroup
    BY <2>1 DEF Account
  <2>3. Store!HeldBy(c.user) /\ Accounts[c.user].gid = UsersGroup
    BY <1>1, <1>2, <2>1, <2>2
  <2>4. Accounts' = [Accounts EXCEPT ![c.user] = None]
    BY <1>5, DeleteOfAccount
  <2>5. Store!deleteUser
    BY <2>3, <2>4 DEF Store!deleteUser
  <2>6. QED
    BY <1>3, <1>5, <2>5 DEF Store!Do
<1>6. CASE c.kind = "addNewUser"
  <2>1. ~ Store!HeldBy(c.user)
    BY <1>1, <1>2, <1>6 DEF Effective
  <2>2. /\ NextUid(b.passwd) \in 1000 .. MaxUid
        /\ \A i \in DOMAIN b.passwd : b.passwd[i].uid # NextUid(b.passwd)
    BY <1>6, NewUserIs
  <2>3. ASSUME NEW other \in Users, Store!HeldBy(other)
        PROVE  Accounts[other].uid # NextUid(b.passwd)
    <3>1. other \in NamesIn(b.passwd) /\ Accounts[other] = Account(b, other)
      BY <1>1, <2>3
    <3>2. PICK i \in DOMAIN b.passwd : b.passwd[i].name = other
      BY <3>1 DEF NamesIn
    <3>3. Lookup(b.passwd, b.passwd[i].name) = b.passwd[i]
      BY LookupIs DEF Sound
    <3>4. QED
      BY <2>2, <3>1, <3>2, <3>3 DEF Account
  <2>4. Accounts' = [Accounts EXCEPT ![c.user] =
              [uid |-> NextUid(b.passwd), gid |-> c.gid, shadow |-> NewEntry(c.user, c.arg, Today)]]
    BY <1>6, AddOfAccount
  <2>5. Store!addNewUser
    <3>1. Store!NewEntry(c.user, c.arg, Today) = NewEntry(c.user, c.arg, Today)
      BY DEF Store!NewEntry, NewEntry, Store!Off, Off
    <3>2. PICK uid \in 1000 .. MaxUid : uid = NextUid(b.passwd)
      BY <2>2
    <3> DEFINE gives(u) ==
                 /\ \A other \in Users : Store!HeldBy(other) => Accounts[other].uid # u
                 /\ Accounts' = [Accounts EXCEPT ![Request.user] =
                      [uid |-> u, gid |-> Request.gid,
                       shadow |-> Store!NewEntry(Request.user, Request.arg, Today)]]
    <3>3. gives(uid)
      BY <2>3, <2>4, <3>1, <3>2
    <3>4. Store!addNewUser <=> ~ Store!HeldBy(Request.user) /\ \E u \in 1000 .. MaxUid : gives(u)
      BY Zenon DEF Store!addNewUser
    <3> HIDE DEF gives
    <3>5. QED
      BY <2>1, <3>3, <3>4
  <2>6. QED
    BY <1>3, <1>6, <2>5 DEF Store!Do
<1>7. QED
  BY <1>4, <1>5, <1>6 DEF Proper, Effective

(* So is one that is asked for in vain, and a lookup.                      *)
LEMMA AnswerIsStep ==
  ASSUME NEW b, Sound(b), NEW c, Proper(c), Request = c, Accounts = AccountsIn(b),
         NEW content, Accounts' = AccountsIn(content), Request' = None,
         NEW answer, Reply' = answer, Answered(c, b, content, answer)
  PROVE  Store!Next
<1>1. \A u \in Users : /\ Store!HeldBy(u) <=> u \in NamesIn(b.passwd)
                       /\ u \in NamesIn(b.passwd) => Accounts[u] = Account(b, u)
  BY HeldAre
<1>2. c.user \in Users
  BY DEF Proper
<1>3. Store!Answer(answer)
  BY DEF Store!Answer
<1>4. CASE answer = "ok" /\ Effective(c, b) /\ content = Effect(c, b)
  BY <1>4, DoneIsStep DEF Store!Next, Proper
<1>5. CASE answer = "ok" /\ c.kind = "getUserByName" /\ c.user \in NamesIn(b.passwd) /\ content = b
  <2>1. Accounts' = Accounts /\ Store!HeldBy(c.user)
    BY <1>1, <1>2, <1>5
  <2>2. Store!Do
    BY <1>3, <1>5, <2>1 DEF Store!Do
  <2>3. QED
    BY <2>2 DEF Store!Next, Proper
<1>6. CASE /\ Vain(c, b) /\ content = b
           /\ answer = IF c.kind = "getUserByName" THEN "missing" ELSE "failed"
  <2>1. Accounts' = Accounts
    BY <1>6
  <2>2. Store!Impossible
    <3>1. CASE c.kind = "addNewUser"
      BY <1>1, <1>2, <1>6, <3>1 DEF Store!Impossible, Vain
    <3>2. CASE c.kind = "deleteUser"
      <4>1. CASE c.user \notin NamesIn(b.passwd)
        BY <1>1, <1>2, <3>2, <4>1 DEF Store!Impossible
      <4>2. CASE c.user \in NamesIn(b.passwd)
        <5>1. Lookup(b.passwd, c.user).gid # UsersGroup
          BY <1>6, <3>2, <4>2 DEF Vain
        <5>2. Accounts[c.user] = Account(b, c.user)
          BY <1>1, <1>2, <4>2
        <5>3. Account(b, c.user).gid = Lookup(b.passwd, c.user).gid
          BY DEF Account
        <5>4. Accounts[c.user].gid # UsersGroup
          BY <5>1, <5>2, <5>3
        <5>5. QED
          BY <3>2, <5>4 DEF Store!Impossible
      <4>3. QED
        BY <4>1, <4>2
    <3>3. CASE c.kind \notin {"addNewUser", "deleteUser"}
      BY <1>1, <1>2, <1>6, <3>3 DEF Store!Impossible, Vain
    <3>4. QED
      BY <3>1, <3>2, <3>3
  <2>3. Store!Refuse
    BY <1>3, <1>6, <2>1, <2>2 DEF Store!Refuse
  <2>4. QED
    BY <2>3 DEF Store!Next, Proper
<1>7. QED
  BY <1>4, <1>5, <1>6 DEF Answered

-----------------------------------------------------------------------------
(* One process on a system without faults: at every step of a call each of *)
(* the files is as it was, or its new lines are in the buffer of a stream. *)
At(f, side) == dir[<<f, side>>]

Stream(inode, mode, lines) == [inode |-> inode, mode |-> mode, lines |-> lines]

Shape(p) ==
  /\ dir \in [Names -> Inodes \cup {None}] /\ DOMAIN disk = Inodes
  /\ \A m, n \in Names : dir[m] = dir[n] => m = n \/ dir[m] = None
  /\ p \in DOMAIN at /\ p \in DOMAIN doing /\ p \in DOMAIN file /\ p \in DOMAIN out
  /\ DOMAIN old = {p}
  /\ DOMAIN out[p] = Files /\ file[p] \in Files

(* What the call makes of a file.                                          *)
Outcome(p, f) == Effect(doing[p], before)[f]

(* What stdio has written while the call was writing.                      *)
Begins(some, lines) == \E n \in 0 .. Len(lines) : some = SubSeq(lines, 1, n)

Untouched(p, f) ==
  /\ out[p][f] = Closed /\ At(f, "live") # None /\ disk[At(f, "live")] = before[f]

Pending(p, f) ==
  /\ At(f, "live") # None
  /\ \/ /\ Begins(disk[At(f, "live")], Outcome(p, f))
        /\ out[p][f] = Stream(At(f, "live"), "w", Outcome(p, f))
     \/ \E line : /\ disk[At(f, "live")] = before[f] /\ Outcome(p, f) = before[f] \o <<line>>
                  /\ out[p][f] = Stream(At(f, "live"), "a", <<line>>)

Done(p, f) ==
  /\ out[p][f] = Closed /\ At(f, "live") # None /\ disk[At(f, "live")] = Outcome(p, f)

(* The stages of the rewrite of a file.                                    *)
Rewrites(p, f) ==
  /\ at[p] \in {"open_old", "open_new"} => Untouched(p, f)
  /\ at[p] \in {"open_new", "copy"} => old[p] = At(f, "live")
  /\ at[p] \in {"copy", "backup"} => At(f, "live") # None /\ disk[At(f, "live")] = before[f]
  /\ at[p] \in {"copy", "backup", "install"} =>
       /\ At(f, "new") # None
       /\ out[p][f] = Stream(At(f, "new"), "w", IF at[p] = "copy" THEN <<>> ELSE Outcome(p, f))
  /\ at[p] \in {"backup", "install"} => Begins(disk[At(f, "new")], Outcome(p, f))

(* The other file, meanwhile: deleteUser rewrites passwd, then shadow.     *)
OtherFile(p) ==
  IF file[p] = "passwd" THEN doing[p].kind = "deleteUser" /\ Untouched(p, "shadow")
  ELSE IF doing[p].kind = "deleteUser" THEN Pending(p, "passwd") ELSE Untouched(p, "passwd")

Looking == {"check_passwd", "check_shadow", "check_group", "append_passwd"}

Rewriting == {"open_old", "open_new", "copy", "backup", "install"}

Rests(p) ==
  /\ doing[p] = None /\ Sound(Content)
  /\ \A f \in Files : out[p][f] = Closed /\ At(f, "live") # None

Works(p) ==
  /\ at[p] \in Looking \cup Rewriting \cup {"append_shadow", "close", "unwind"}
  /\ Proper(doing[p]) /\ Sound(before)
  /\ before = [passwd |-> before.passwd, shadow |-> before.shadow]
  /\ doing[p].kind = "addNewUser" => NextUid(before.passwd) <= MaxUid
  /\ at[p] \in Looking =>
       /\ \A f \in Files : Untouched(p, f)
       /\ file[p] = IF doing[p].kind = "deleteUser" THEN "passwd" ELSE "shadow"
  /\ at[p] \in {"check_shadow", "check_group"} => doing[p].user \in NamesIn(before.passwd)
  /\ at[p] = "check_group" => doing[p].kind = "deleteUser"
  /\ at[p] \in {"append_passwd", "append_shadow"} => doing[p].kind = "addNewUser"
  /\ at[p] \in {"append_passwd", "append_shadow", "close"} \cup Rewriting =>
       Effective(doing[p], before)
  /\ at[p] = "append_shadow" => Pending(p, "passwd") /\ Untouched(p, "shadow")
  /\ at[p] \in Rewriting =>
       doing[p].kind # "addNewUser" /\ Rewrites(p, file[p]) /\ OtherFile(p)
  /\ at[p] = "close" => \A f \in Files : Pending(p, f) \/ Done(p, f)
  /\ at[p] = "unwind" =>
       \/ /\ result[p] = "failed" /\ Vain(doing[p], before) /\ doing[p].kind # "getUserByName"
          /\ \A f \in Files : Untouched(p, f)
       \/ /\ result[p] = "ok" /\ Effective(doing[p], before)
          /\ \A f \in Files : Pending(p, f) \/ Done(p, f)

CallInvariant(p) ==
  Shape(p) /\ (at[p] = "idle" => Rests(p)) /\ (at[p] # "idle" => Works(p))

(* What a step is to a caller: the call is made, goes on, or is answered.  *)
Turns(p) ==
  IF at'[p] # "idle"
  THEN IF at[p] = "idle"
       THEN before' = Content /\ doing[p] = None /\ doing'[p] \in Calls[FALSE][p]
       ELSE before' = before /\ doing'[p] = doing[p]
  ELSE /\ at[p] # "idle" /\ doing'[p] = None
       /\ Answered(doing[p], before, Content', result'[p])

(* The only process, and what its calls may be.                            *)
OnlyCaller(p) == Processes = {p} /\ \A c \in Calls[FALSE][p] : Proper(c)

LEMMA NamesOf ==
  /\ \A f \in Files : <<f, "live">> \in Names /\ <<f, "backup">> \in Names /\ <<f, "new">> \in Names
  /\ \A f, g \in Files : \A a, b \in {"live", "backup", "new"} :
       <<f, a>> = <<g, b>> => f = g /\ a = b
  /\ "passwd" \in Files /\ "shadow" \in Files
BY DEF Names, Files

LEMMA ContentIs ==
  ASSUME NEW b, b = [passwd |-> b.passwd, shadow |-> b.shadow], \A f \in Files : Lines(f) = b[f]
  PROVE  Content = b
<1>1. Lines("passwd") = b.passwd /\ Lines("shadow") = b.shadow
  BY NamesOf
<1>2. QED
  BY <1>1 DEF Content

LEMMA LinesAre ==
  ASSUME NEW f, At(f, "live") # None
  PROVE  Lines(f) = disk[At(f, "live")]
BY DEF Lines, At

(* A step that has nothing to do with a file.                              *)
LEMMA StaysSame ==
  ASSUME NEW p, NEW f, At(f, "live")' = At(f, "live"), out'[p][f] = out[p][f],
         At(f, "live") # None => disk'[At(f, "live")] = disk[At(f, "live")],
         doing'[p] = doing[p], before' = before
  PROVE  /\ Untouched(p, f) => Untouched(p, f)'
         /\ Pending(p, f) => Pending(p, f)'
         /\ Done(p, f) => Done(p, f)'
         /\ Outcome(p, f)' = Outcome(p, f)
<1>1. Outcome(p, f)' = Outcome(p, f)
  BY DEF Outcome
<1>2. Untouched(p, f) => Untouched(p, f)'
  BY DEF Untouched
<1>3. Done(p, f) => Done(p, f)'
  BY <1>1 DEF Done
<1>4. Pending(p, f) => Pending(p, f)'
  BY <1>1 DEF Pending
<1>5. QED
  BY <1>1, <1>2, <1>3, <1>4

(* The end of a call.                                                      *)
LEMMA EndRests ==
  ASSUME NEW p, Shape(p), p \in DOMAIN result, NEW outcome, End(p, outcome), NEW d,
         SetDisk(d) \/ (d = disk /\ disk' = disk),
         NEW b, Sound(b), b = [passwd |-> b.passwd, shadow |-> b.shadow],
         \A f \in Files : At(f, "live") # None /\ d[At(f, "live")] = b[f]
  PROVE  /\ CallInvariant(p)' /\ Content' = b /\ at'[p] = "idle"
         /\ doing'[p] = None /\ result'[p] = outcome
<1>0. result'[p] = outcome
  BY DEF End
<1>1. /\ dir' = dir /\ at' = [at EXCEPT ![p] = "idle"] /\ doing' = [doing EXCEPT ![p] = None]
      /\ file' = [file EXCEPT ![p] = "shadow"] /\ old' = [old EXCEPT ![p] = None]
      /\ out' = [out EXCEPT ![p] = [f \in Files |-> Closed]]
  BY DEF End, Goto
<1>2. DOMAIN disk' = Inodes
  BY DEF SetDisk, Shape
<1>3. /\ Shape(p)' /\ at'[p] = "idle" /\ doing'[p] = None
      /\ \A f \in Files : out'[p][f] = Closed
  BY <1>1, <1>2, NamesOf DEF Shape
<1>4. ASSUME NEW f \in Files
      PROVE  At(f, "live")' # None /\ disk'[At(f, "live")'] = b[f]
  <2>1. At(f, "live")' = At(f, "live") /\ At(f, "live") # None /\ d[At(f, "live")] = b[f]
    BY <1>1 DEF At
  <2>2. <<f, "live">> \in Names /\ dir' \in [Names -> Inodes \cup {None}]
    BY <1>1, NamesOf DEF Shape
  <2>3. disk'[At(f, "live")'] = d[At(f, "live")']
    BY <2>1, <2>2, NamedIsKept DEF At
  <2>4. QED
    BY <2>1, <2>3
<1>5. \A f \in Files : Lines(f)' = b[f]
  BY <1>4, LinesAre DEF Lines, At
<1>6. Content' = b
  <2>1. Lines("passwd")' = b.passwd /\ Lines("shadow")' = b.shadow
    BY <1>5, NamesOf
  <2>2. QED
    BY <2>1 DEF Content
<1>7. QED
  BY <1>0, <1>3, <1>4, <1>6 DEF CallInvariant, Rests

(* A step that leaves the files and the streams alone.                     *)
LEMMA GoesOn ==
  ASSUME NEW p, Shape(p), NEW next, Goto(p, next), UNCHANGED <<dir, disk, out, doing, file, before>>,
         DOMAIN old' = {p}
  PROVE  /\ Shape(p)' /\ at'[p] = next
         /\ \A f \in Files : /\ Untouched(p, f)' <=> Untouched(p, f)
                             /\ Pending(p, f)' <=> Pending(p, f)
                             /\ Done(p, f)' <=> Done(p, f)
                             /\ Outcome(p, f)' = Outcome(p, f)
                             /\ At(f, "live")' = At(f, "live") /\ At(f, "new")' = At(f, "new")
         /\ OtherFile(p)' <=> OtherFile(p)
<1>1. Shape(p)' /\ at'[p] = next
  BY DEF Shape, Goto
<1>2. ASSUME NEW f
      PROVE  /\ At(f, "live")' = At(f, "live") /\ At(f, "new")' = At(f, "new")
             /\ Outcome(p, f)' = Outcome(p, f)
             /\ Untouched(p, f)' <=> Untouched(p, f)
             /\ Pending(p, f)' <=> Pending(p, f)
             /\ Done(p, f)' <=> Done(p, f)
  <2>1. At(f, "live")' = At(f, "live") /\ At(f, "new")' = At(f, "new") /\ Outcome(p, f)' = Outcome(p, f)
    BY DEF At, Outcome
  <2>2. Untouched(p, f)' <=> Untouched(p, f)
    BY <2>1 DEF Untouched
  <2>3. Pending(p, f)' <=> Pending(p, f)
    BY <2>1 DEF Pending
  <2>4. Done(p, f)' <=> Done(p, f)
    BY <2>1 DEF Done
  <2>5. QED
    BY <2>1, <2>2, <2>3, <2>4
<1>3. OtherFile(p)' <=> OtherFile(p)
  BY <1>2 DEF OtherFile
<1>4. QED
  BY <1>1, <1>2, <1>3

LEMMA BeginTurns ==
  ASSUME NEW p, Shape(p), Rests(p), NEW c \in Calls[FALSE][p], Proper(c), Begin(p, c)
  PROVE  CallInvariant(p)' /\ Turns(p)
<1>1. /\ at[p] = "idle" /\ Goto(p, "check_passwd") /\ UNCHANGED <<dir, disk, old, out>>
      /\ doing' = [doing EXCEPT ![p] = c]
      /\ file' = [file EXCEPT ![p] = IF c.kind = "deleteUser" THEN "passwd" ELSE "shadow"]
      /\ before' = Content
      /\ c.kind = "addNewUser" => NextUid(Lines("passwd")) <= MaxUid
  BY DEF Begin, Content
<1>2. Shape(p)' /\ at'[p] = "check_passwd" /\ doing'[p] = c
      /\ file'[p] = IF c.kind = "deleteUser" THEN "passwd" ELSE "shadow"
  BY <1>1, NamesOf DEF Shape, Goto
<1>3. ASSUME NEW f \in Files
      PROVE  Untouched(p, f)'
  <2>1. out[p][f] = Closed /\ At(f, "live") # None /\ Content[f] = Lines(f)
    BY DEF Rests, Content, Files
  <2>2. QED
    BY <1>1, <2>1, LinesAre DEF Untouched, At
<1>4. Sound(Content) /\ Content = [passwd |-> Content.passwd, shadow |-> Content.shadow]
      /\ Content.passwd = Lines("passwd")
  BY DEF Rests, Content
<1>5. Works(p)'
  BY <1>1, <1>2, <1>3, <1>4 DEF Works, Looking, Rewriting
<1>6. QED
  BY <1>1, <1>2, <1>5 DEF CallInvariant, Turns, Rests

(* A call that ends without having opened a stream to write.               *)
LEMMA EndTurns ==
  ASSUME NEW p, Shape(p), at[p] # "idle", Works(p), \A f \in Files : Untouched(p, f),
         p \in DOMAIN result, NEW outcome, End(p, outcome), disk' = disk,
         Answered(doing[p], before, before, outcome)
  PROVE  CallInvariant(p)' /\ Turns(p)
<1>1. /\ Sound(before) /\ before = [passwd |-> before.passwd, shadow |-> before.shadow]
      /\ \A f \in Files : At(f, "live") # None /\ disk[At(f, "live")] = before[f]
  BY DEF Works, Untouched
<1>2. PICK b : b = before
  OBVIOUS
<1>3. /\ CallInvariant(p)' /\ Content' = b /\ at'[p] = "idle"
      /\ doing'[p] = None /\ result'[p] = outcome
  BY <1>1, <1>2, EndRests
<1>4. QED
  BY <1>2, <1>3 DEF Turns

LEMMA LooksTurn ==
  ASSUME NEW p, Shape(p), at[p] # "idle", Works(p), p \in DOMAIN result,
         CheckPasswd(p) \/ CheckShadow(p) \/ CheckGroup(p)
  PROVE  CallInvariant(p)' /\ Turns(p)
<1>1. /\ \A f \in Files : Untouched(p, f)
      /\ file[p] = IF doing[p].kind = "deleteUser" THEN "passwd" ELSE "shadow"
      /\ Proper(doing[p]) /\ Sound(before) /\ NamesIn(before.passwd) = NamesIn(before.shadow)
      /\ at[p] \in {"check_passwd", "check_shadow", "check_group"}
  BY DEF CheckPasswd, CheckShadow, CheckGroup, Works, Looking, Sound
<1>2. /\ Lines("passwd") = before.passwd /\ Lines("shadow") = before.shadow
      /\ dir[<<"passwd", "live">>] # None /\ dir[<<"shadow", "live">>] # None
  BY <1>1, LinesAre, NamesOf DEF Untouched, At
<1>3. ASSUME NEW outcome, End(p, outcome), disk' = disk, Answered(doing[p], before, before, outcome)
      PROVE  CallInvariant(p)' /\ Turns(p)
  BY <1>1, <1>3, EndTurns
<1>4. ASSUME NEW next, Goto(p, next), UNCHANGED <<dir, disk, out, doing, file, old, before>>
      PROVE  /\ Shape(p)' /\ at'[p] = next /\ \A f \in Files : Untouched(p, f)'
             /\ OtherFile(p)' <=> OtherFile(p)
             /\ next # "idle" => Turns(p)
  <2>1. DOMAIN old' = {p}
    BY <1>4 DEF Shape
  <2>2. Shape(p)' /\ at'[p] = next /\ (OtherFile(p)' <=> OtherFile(p)) /\ \A f \in Files : Untouched(p, f)'
    BY <1>1, <1>4, <2>1, GoesOn, NamesOf
  <2>3. QED
    BY <1>4, <2>2 DEF Turns
<1>5. CASE /\ at[p] = "check_passwd" /\ doing[p].user \in NamesIn(before.passwd)
           /\ Goto(p, "check_shadow") /\ UNCHANGED <<dir, disk, doing, file, old, out, result, before>>
  <2>1. Shape(p)' /\ at'[p] = "check_shadow" /\ Turns(p) /\ \A f \in Files : Untouched(p, f)'
    BY <1>4, <1>5
  <2>2. Works(p)'
    BY <1>1, <1>5, <2>1 DEF Works, Looking, Rewriting
  <2>3. QED
    BY <2>1, <2>2 DEF CallInvariant
<1>6. CASE /\ at[p] = "check_passwd" /\ doing[p].user \notin NamesIn(before.passwd)
           /\ doing[p].kind = "addNewUser" /\ Goto(p, "append_passwd")
           /\ UNCHANGED <<dir, disk, doing, file, old, out, result, before>>
  <2>1. Shape(p)' /\ at'[p] = "append_passwd" /\ Turns(p) /\ \A f \in Files : Untouched(p, f)'
    BY <1>4, <1>6
  <2>2. Effective(doing[p], before)
    BY <1>6 DEF Effective, Works
  <2>3. Works(p)'
    BY <1>1, <1>6, <2>1, <2>2 DEF Works, Looking, Rewriting
  <2>4. QED
    BY <2>1, <2>3 DEF CallInvariant
<1>7. CASE /\ at[p] = "check_shadow" /\ doing[p].kind = "deleteUser" /\ Goto(p, "check_group")
           /\ UNCHANGED <<dir, disk, doing, file, old, out, result, before>>
  <2>1. Shape(p)' /\ at'[p] = "check_group" /\ Turns(p) /\ \A f \in Files : Untouched(p, f)'
    BY <1>4, <1>7
  <2>2. Works(p)'
    BY <1>1, <1>7, <2>1 DEF Works, Looking, Rewriting
  <2>3. QED
    BY <2>1, <2>2 DEF CallInvariant
<1>8. CASE /\ at[p] \in {"check_shadow", "check_group"} /\ Effective(doing[p], before)
           /\ doing[p].kind # "addNewUser" /\ Goto(p, "open_old")
           /\ UNCHANGED <<dir, disk, doing, file, old, out, result, before>>
  <2>1. /\ Shape(p)' /\ at'[p] = "open_old" /\ Turns(p) /\ \A f \in Files : Untouched(p, f)'
        /\ OtherFile(p)' <=> OtherFile(p)
    BY <1>4, <1>8
  <2>2. OtherFile(p)
    BY <1>1, NamesOf DEF OtherFile
  <2>3. Rewrites(p, file[p])'
    BY <1>8, <2>1 DEF Rewrites, Shape
  <2>4. Works(p)'
    BY <1>1, <1>8, <2>1, <2>2, <2>3 DEF Works, Looking, Rewriting
  <2>5. QED
    BY <2>1, <2>4 DEF CallInvariant
<1>9. CASE at[p] = "check_group" /\ Return(p, "failed") /\ Vain(doing[p], before)
  <2>0. result'[p] = "failed" /\ doing[p].kind = "deleteUser"
    BY <1>9 DEF Return, Works
  <2>1. Goto(p, "unwind") /\ UNCHANGED <<dir, disk, doing, file, old, out, before>>
    BY <1>9 DEF Return, files
  <2>2. Shape(p)' /\ at'[p] = "unwind" /\ Turns(p) /\ \A f \in Files : Untouched(p, f)'
    BY <1>4, <2>1
  <2>3. Works(p)'
    BY <1>1, <1>9, <2>0, <2>1, <2>2 DEF Works, Looking, Rewriting
  <2>4. QED
    BY <2>2, <2>3 DEF CallInvariant
<1>10. CASE CheckPasswd(p)
  <2>1. at[p] = "check_passwd" /\ disk' = disk
    BY <1>10 DEF CheckPasswd
  <2>2. CASE doing[p].user \in NamesIn(before.passwd)
    BY <1>2, <1>5, <1>10, <2>1, <2>2 DEF CheckPasswd
  <2>3. CASE doing[p].user \notin NamesIn(before.passwd) /\ doing[p].kind = "addNewUser"
    BY <1>2, <1>6, <1>10, <2>1, <2>3 DEF CheckPasswd, UserMissing
  <2>4. CASE doing[p].user \notin NamesIn(before.passwd) /\ doing[p].kind # "addNewUser"
    <3>1. PICK outcome : outcome = IF doing[p].kind = "getUserByName" THEN "missing" ELSE "failed"
      OBVIOUS
    <3>2. End(p, outcome)
      BY <1>2, <1>10, <2>4, <3>1 DEF CheckPasswd, UserMissing
    <3>3. Answered(doing[p], before, before, outcome)
      BY <2>4, <3>1 DEF Answered, Vain
    <3>4. QED
      BY <1>3, <2>1, <3>2, <3>3
  <2>5. QED
    BY <2>2, <2>3, <2>4
<1>11. CASE CheckShadow(p)
  <2>1. at[p] = "check_shadow" /\ doing[p].user \in NamesIn(Lines("shadow"))
    BY <1>1, <1>2, <1>11 DEF CheckShadow, Works
  <2>2. UserPresent(p) /\ disk' = disk
    BY <1>2, <1>11, <2>1 DEF CheckShadow
  <2>3. CASE doing[p].kind \in {"addNewUser", "getUserByName"}
    <3>1. PICK outcome : outcome = IF doing[p].kind = "getUserByName" THEN "ok" ELSE "failed"
      OBVIOUS
    <3>2. End(p, outcome)
      BY <2>2, <2>3, <3>1 DEF UserPresent
    <3>3. doing[p].user \in NamesIn(before.passwd)
      BY <1>1, <1>2, <2>1
    <3>4. Answered(doing[p], before, before, outcome)
      BY <2>3, <3>1, <3>3 DEF Answered, Vain
    <3>5. QED
      BY <1>3, <2>2, <3>2, <3>4
  <2>4. CASE doing[p].kind = "deleteUser"
    BY <1>7, <2>1, <2>2, <2>4 DEF UserPresent
  <2>5. CASE doing[p].kind \in EditKinds
    <3>1. Effective(doing[p], before)
      BY <1>1, <1>2, <2>1, <2>5 DEF Effective, EditKinds
    <3>2. Goto(p, "open_old") /\ UNCHANGED <<dir, doing, file, old, out, result, before>>
      BY <2>2, <2>5 DEF UserPresent, EditKinds
    <3>3. QED
      BY <1>8, <2>1, <2>2, <2>5, <3>1, <3>2 DEF EditKinds
  <2>6. QED
    BY <1>1, <2>3, <2>4, <2>5 DEF Proper
<1>12. CASE CheckGroup(p)
  <2>1. /\ at[p] = "check_group" /\ doing[p].kind = "deleteUser"
        /\ doing[p].user \in NamesIn(before.passwd)
    BY <1>12 DEF CheckGroup, Works
  <2>2. CASE Lookup(before.passwd, doing[p].user).gid # UsersGroup
    BY <1>2, <1>9, <1>12, <2>1, <2>2 DEF CheckGroup, Throw, Vain
  <2>3. CASE Lookup(before.passwd, doing[p].user).gid = UsersGroup
    <3>1. Effective(doing[p], before)
      BY <2>1, <2>3 DEF Effective
    <3>2. Goto(p, "open_old") /\ UNCHANGED <<files, doing, file, old, out, result, before>>
      BY <1>2, <1>12, <2>1, <2>3 DEF CheckGroup
    <3>3. QED
      BY <1>8, <2>1, <3>1, <3>2 DEF files
  <2>4. QED
    BY <2>2, <2>3
<1>13. QED
  BY <1>10, <1>11, <1>12

(* The other file of a rewrite, when a step leaves it alone.               *)
LEMMA OtherStays ==
  ASSUME NEW p, Shape(p), OtherFile(p), dir' \in [Names -> Inodes \cup {None}], NEW d, SetDisk(d),
         UNCHANGED <<doing, file, before>>, NEW g, g = IF file[p] = "passwd" THEN "shadow" ELSE "passwd",
         At(g, "live")' = At(g, "live"), out'[p][g] = out[p][g],
         At(g, "live") # None => d[At(g, "live")] = disk[At(g, "live")]
  PROVE  OtherFile(p)'
<1>1. At(g, "live") # None => disk'[At(g, "live")] = disk[At(g, "live")]
  <2>1. <<g, "live">> \in Names
    BY NamesOf
  <2>2. QED
    BY <2>1, NamedIsKept DEF At
<1>2. (Untouched(p, g) => Untouched(p, g)') /\ (Pending(p, g) => Pending(p, g)')
  BY <1>1, StaysSame
<1>3. CASE file[p] = "passwd"
  BY <1>2, <1>3 DEF OtherFile
<1>4. CASE file[p] # "passwd"
  BY <1>2, <1>4 DEF OtherFile
<1>5. QED
  BY <1>3, <1>4

LEMMA OpenOldTurns ==
  ASSUME NEW p, Shape(p), Works(p), OpenOld(p)
  PROVE  CallInvariant(p)' /\ Turns(p)
<1>1. PICK f \in Files : f = file[p]
  BY DEF Shape
<1>2. /\ at[p] = "open_old" /\ Untouched(p, f) /\ OtherFile(p) /\ Effective(doing[p], before)
      /\ doing[p].kind # "addNewUser"
  BY <1>1 DEF OpenOld, Works, Rewriting, Rewrites
<1>3. /\ old' = [old EXCEPT ![p] = At(f, "live")] /\ Goto(p, "open_new")
      /\ UNCHANGED <<files, doing, file, out, before>>
  BY <1>1, <1>2 DEF OpenOld, Untouched, At
<1>4. old'[p] = At(f, "live") /\ DOMAIN old' = {p}
  BY <1>3 DEF Shape
<1>5. Shape(p)' /\ at'[p] = "open_new" /\ (OtherFile(p)' <=> OtherFile(p))
      /\ (Untouched(p, f)' <=> Untouched(p, f)) /\ At(f, "live")' = At(f, "live")
  BY <1>3, <1>4, GoesOn DEF files
<1>6. Rewrites(p, f)'
  BY <1>2, <1>4, <1>5 DEF Rewrites
<1>7. Works(p)'
  BY <1>1, <1>2, <1>3, <1>5, <1>6 DEF Works, Looking, Rewriting
<1>8. QED
  BY <1>2, <1>3, <1>5, <1>7 DEF CallInvariant, Turns

LEMMA OpenNewTurns ==
  ASSUME NEW p, Processes = {p}, Shape(p), Works(p), OpenNew(p)
  PROVE  CallInvariant(p)' /\ Turns(p)
<1>1. PICK f \in Files : f = file[p]
  BY DEF Shape
<1>2. /\ at[p] = "open_new" /\ Untouched(p, f) /\ OtherFile(p) /\ Effective(doing[p], before)
      /\ doing[p].kind # "addNewUser" /\ old[p] = At(f, "live")
  BY <1>1 DEF OpenNew, Works, Rewriting, Rewrites
<1>3. PICK g \in Files : g = IF f = "passwd" THEN "shadow" ELSE "passwd"
  BY NamesOf
<1>4. g # f /\ \A h \in Files : h = f \/ h = g
  BY <1>3 DEF Files
<1>5. out[p][g] = Closed \/ (At(g, "live") # None /\ \E mode, lines : out[p][g] = Stream(At(g, "live"), mode, lines))
  BY <1>1, <1>2, <1>3 DEF OtherFile, Untouched, Pending
<1>6. out[p][g].inode \in Range(dir) \cup {None}
  <2>1. At(g, "live") \in Range(dir)
    <3>1. <<g, "live">> \in Names
      BY NamesOf
    <3>2. QED
      BY <3>1 DEF At, Range, Shape
  <2>2. CASE out[p][g] = Closed
    BY <2>2 DEF Closed
  <2>3. CASE \E mode, lines : out[p][g] = Stream(At(g, "live"), mode, lines)
    BY <2>1, <2>3 DEF Stream
  <2>4. QED
    BY <1>5, <2>2, <2>3
<1>7. InUse \subseteq Range(dir)
  <2>1. old[p] \in Range(dir)
    BY <1>2, NamesOf DEF At, Range, Shape
  <2>2. out[p][f].inode = None
    BY <1>2 DEF Untouched, Closed
  <2>3. Range(old) = {old[p]}
    BY DEF Range, Shape
  <2>4. \A h \in Files : out[p][h].inode \in Range(dir) \cup {None}
    BY <1>4, <1>6, <2>2
  <2>5. QED
    BY <2>1, <2>3, <2>4 DEF InUse
<1>8. PICK inode : inode = IF At(f, "new") = None THEN FreshInode ELSE At(f, "new")
  OBVIOUS
<1>9. /\ dir' = [dir EXCEPT ![<<f, "new">>] = inode]
      /\ out' = [out EXCEPT ![p][f] = Stream(inode, "w", <<>>)]
      /\ Goto(p, "copy") /\ UNCHANGED <<doing, file, old, before>> /\ SetDisk([disk EXCEPT ![inode] = <<>>])
  BY <1>1, <1>8 DEF OpenNew, At, Stream
<1>10. inode \in Inodes /\ \A n \in Names : n # <<f, "new">> => dir[n] # inode
  <2>1. CASE At(f, "new") = None
    <3>1. FreshInode \in Inodes /\ FreshInode \notin InUse
      BY <1>7, FreshIsFree DEF Shape
    <3>2. \A n \in Names : dir[n] \in Range(dir)
      BY DEF Shape, Range
    <3>3. QED
      BY <1>8, <2>1, <3>1, <3>2, NoneAssumption DEF InUse
  <2>2. CASE At(f, "new") # None
    BY <1>8, <2>2, NamesOf DEF At, Shape
  <2>3. QED
    BY <2>1, <2>2
<1>11. /\ dir' \in [Names -> Inodes \cup {None}] /\ At(f, "new")' = inode
       /\ \A h \in Files : At(h, "live")' = At(h, "live")
       /\ \A m, n \in Names : dir'[m] = dir'[n] => m = n \/ dir'[m] = None
  <2>1. dir' \in [Names -> Inodes \cup {None}]
    BY <1>9, <1>10 DEF Shape
  <2>2. dir'[<<f, "new">>] = inode /\ \A n \in Names : n # <<f, "new">> => dir'[n] = dir[n]
    <3>1. <<f, "new">> \in Names /\ dir \in [Names -> Inodes \cup {None}]
      BY NamesOf DEF Shape
    <3>2. dir' = [dir EXCEPT ![<<f, "new">>] = inode]
      BY <1>9
    <3>3. QED
      BY <3>1, <3>2
  <2>3. \A m, n \in Names : dir'[m] = dir'[n] => m = n \/ dir'[m] = None
    BY <1>10, <2>2 DEF Shape
  <2>4. \A h \in Files : <<h, "live">> \in Names /\ <<h, "live">> # <<f, "new">>
    BY NamesOf
  <2>5. QED
    BY <2>1, <2>2, <2>3, <2>4 DEF At
<1>12. inode # None /\ \A h \in Files : At(h, "live") # inode
  <2>1. \A h \in Files : <<h, "live">> \in Names /\ <<h, "live">> # <<f, "new">>
    BY NamesOf
  <2>2. QED
    BY <1>10, <2>1, NoneAssumption DEF At
<1> DEFINE d == [disk EXCEPT ![inode] = <<>>]
<1>13. d[inode] = <<>> /\ \A i : i # inode => d[i] = disk[i]
  BY <1>10 DEF Shape
<1>14. SetDisk(d)
  BY <1>9
<1> HIDE DEF d
<1>15. disk'[inode] = <<>> /\ disk'[At(f, "live")] = disk[At(f, "live")]
  <2>1. disk'[inode] = d[inode]
    <3>1. <<f, "new">> \in Names /\ dir'[<<f, "new">>] = inode
      BY <1>11, NamesOf DEF At
    <3>2. QED
      BY <1>11, <1>12, <1>14, <3>1, NamedIsKept
  <2>2. disk'[At(f, "live")] = d[At(f, "live")]
    <3>1. <<f, "live">> \in Names /\ dir'[<<f, "live">>] = At(f, "live") /\ At(f, "live") # None
      BY <1>2, <1>11, NamesOf DEF At, Untouched
    <3>2. QED
      BY <1>11, <1>14, <3>1, NamedIsKept
  <2>3. QED
    BY <1>12, <1>13, <2>1, <2>2
<1>16. /\ out'[p][f] = Stream(inode, "w", <<>>) /\ out'[p][g] = out[p][g]
       /\ p \in DOMAIN out' /\ DOMAIN out'[p] = Files
  BY <1>4, <1>9 DEF Shape
<1>17. Shape(p)' /\ at'[p] = "copy"
  <2>1. DOMAIN disk' = Inodes
    BY <1>14 DEF SetDisk
  <2>2. p \in DOMAIN at' /\ at'[p] = "copy"
    BY <1>9 DEF Goto, Shape
  <2>3. QED
    BY <1>9, <1>11, <1>16, <2>1, <2>2 DEF Shape
<1>18. OtherFile(p)'
  BY <1>1, <1>2, <1>3, <1>9, <1>11, <1>12, <1>13, <1>14, <1>16, OtherStays
<1>19. Rewrites(p, f)'
  BY <1>2, <1>9, <1>11, <1>12, <1>15, <1>16, <1>17 DEF Rewrites, Untouched
<1>20. Works(p)'
  BY <1>1, <1>2, <1>9, <1>17, <1>18, <1>19 DEF Works, Looking, Rewriting
<1>21. QED
  BY <1>2, <1>9, <1>17, <1>20 DEF CallInvariant, Turns

LEMMA CopyTurns ==
  ASSUME NEW p, Shape(p), Works(p), Copy(p)
  PROVE  CallInvariant(p)' /\ Turns(p)
<1>1. PICK f \in Files : f = file[p]
  BY DEF Shape
<1>2. /\ at[p] = "copy" /\ OtherFile(p) /\ Effective(doing[p], before)
      /\ doing[p].kind # "addNewUser" /\ old[p] = At(f, "live") /\ Proper(doing[p]) /\ Sound(before)
      /\ At(f, "live") # None /\ disk[At(f, "live")] = before[f]
      /\ At(f, "new") # None /\ out[p][f] = Stream(At(f, "new"), "w", <<>>)
  BY <1>1 DEF Copy, Works, Rewriting, Rewrites
<1>3. Edited(doing[p], before[f]) = Outcome(p, f)
  <2>1. CASE doing[p].kind = "deleteUser"
    BY <1>2, <2>1 DEF Edited, Outcome, Effect, Files
  <2>2. CASE doing[p].kind \in EditKinds
    <3>1. f = "shadow"
      BY <1>1, <1>2, <2>2 DEF OtherFile, EditKinds, Files
    <3>2. QED
      BY <2>2, <3>1 DEF Outcome, Effect, EditKinds
  <2>3. QED
    BY <1>2, <2>1, <2>2 DEF Proper, Effective
<1>4. CopyLines(p, Outcome(p, f))
  BY <1>1, <1>2, <1>3 DEF Copy
<1>5. out[p][f].inode = At(f, "new")
  BY <1>2 DEF Stream
<1>6. PICK some : Begins(some, Outcome(p, f)) /\ SetDisk([disk EXCEPT ![At(f, "new")] = some])
  BY <1>1, <1>4, <1>5 DEF CopyLines, Begins
<1>7. /\ out' = [out EXCEPT ![p][f].lines = Outcome(p, f)] /\ Goto(p, "backup")
      /\ UNCHANGED <<dir, doing, file, old, before>>
  BY <1>1, <1>4 DEF CopyLines
<1> DEFINE d == [disk EXCEPT ![At(f, "new")] = some]
<1>8. d[At(f, "new")] = some /\ \A i : i # At(f, "new") => d[i] = disk[i]
  <2>1. At(f, "new") \in DOMAIN disk
    BY <1>2, NamesOf DEF At, Shape
  <2>2. QED
    BY <2>1
<1>9. SetDisk(d)
  BY <1>6
<1> HIDE DEF d
<1>10. /\ out'[p][f] = Stream(At(f, "new"), "w", Outcome(p, f))
       /\ \A g \in Files : g # f => out'[p][g] = out[p][g]
       /\ p \in DOMAIN out' /\ DOMAIN out'[p] = Files
  <2>1. [out[p][f] EXCEPT !.lines = Outcome(p, f)] = Stream(At(f, "new"), "w", Outcome(p, f))
    BY <1>2 DEF Stream
  <2>2. out' = [out EXCEPT ![p][f] = Stream(At(f, "new"), "w", Outcome(p, f))]
    BY <1>7, <2>1
  <2>3. QED
    BY <2>2 DEF Shape
<1>11. Shape(p)' /\ at'[p] = "backup"
  <2>1. DOMAIN disk' = Inodes /\ p \in DOMAIN at' /\ at'[p] = "backup"
    BY <1>7, <1>9 DEF SetDisk, Goto, Shape
  <2>2. QED
    BY <1>7, <1>10, <2>1 DEF Shape
<1>12. \A g \in Files : At(g, "live")' = At(g, "live") /\ At(g, "new")' = At(g, "new")
                        /\ Outcome(p, g)' = Outcome(p, g)
  BY <1>7 DEF At, Outcome
<1>13. \A g \in Files : At(g, "live") # At(f, "new") \/ At(g, "live") = None
  <2>1. \A g \in Files : /\ <<g, "live">> \in Names /\ <<f, "new">> \in Names
                         /\ <<g, "live">> # <<f, "new">>
    BY NamesOf
  <2>2. QED
    BY <2>1 DEF At, Shape
<1>14. disk'[At(f, "new")] = some /\ disk'[At(f, "live")] = disk[At(f, "live")]
  <2>1. \A n \in Names : dir'[n] # None => disk'[dir'[n]] = d[dir'[n]]
    BY <1>9, <1>11, NamedIsKept DEF Shape
  <2>2. disk'[At(f, "new")] = d[At(f, "new")] /\ disk'[At(f, "live")] = d[At(f, "live")]
    BY <1>2, <1>7, <2>1, NamesOf DEF At
  <2>3. QED
    BY <1>2, <1>8, <1>13, <2>2
<1>15. OtherFile(p)'
  <2>1. PICK g \in Files : g = IF f = "passwd" THEN "shadow" ELSE "passwd"
    BY NamesOf
  <2>2. g # f
    BY <2>1
  <2>3. dir' \in [Names -> Inodes \cup {None}] /\ out'[p][g] = out[p][g]
    BY <1>10, <1>11, <2>2 DEF Shape
  <2>4. At(g, "live") # None => d[At(g, "live")] = disk[At(g, "live")]
    BY <1>8, <1>13
  <2>5. QED
    BY <1>1, <1>2, <1>7, <1>9, <1>12, <2>1, <2>3, <2>4, OtherStays
<1>16. Rewrites(p, f)'
  BY <1>2, <1>6, <1>7, <1>10, <1>11, <1>12, <1>14 DEF Rewrites, Begins
<1>17. Works(p)'
  BY <1>1, <1>2, <1>7, <1>11, <1>15, <1>16 DEF Works, Looking, Rewriting
<1>18. QED
  BY <1>2, <1>7, <1>11, <1>17 DEF CallInvariant, Turns

(* A file gets another name.                                               *)
LEMMA RenameTurns ==
  ASSUME NEW p, Shape(p), NEW from \in Names, NEW to \in Names, from # to, Rename(from, to),
         SetDisk(disk), NEW next, Goto(p, next), UNCHANGED <<old, out>>, DOMAIN doing' = DOMAIN doing,
         p \in DOMAIN file', file'[p] \in Files
  PROVE  /\ Shape(p)' /\ at'[p] = next
         /\ dir'[to] = dir[from] /\ \A n \in Names \ {from, to} : dir'[n] = dir[n]
         /\ \A n \in Names : dir'[n] # None => disk'[dir'[n]] = disk[dir'[n]]
<1>1. dir' = [dir EXCEPT ![to] = dir[from], ![from] = None]
  BY DEF Rename
<1>2. /\ dir' \in [Names -> Inodes \cup {None}] /\ dir'[to] = dir[from] /\ dir'[from] = None
      /\ \A n \in Names \ {from, to} : dir'[n] = dir[n]
  BY <1>1 DEF Shape
<1>3. \A m, n \in Names : dir'[m] = dir'[n] => m = n \/ dir'[m] = None
  BY <1>2 DEF Shape
<1>4. \A n \in Names : dir'[n] # None => disk'[dir'[n]] = disk[dir'[n]]
  BY <1>2, NamedIsKept
<1>5. DOMAIN disk' = Inodes /\ p \in DOMAIN at' /\ at'[p] = next
  BY DEF SetDisk, Goto, Shape
<1>6. Shape(p)'
  BY <1>2, <1>3, <1>5 DEF Shape
<1>7. QED
  BY <1>2, <1>4, <1>5, <1>6

LEMMA RenameToBackupTurns ==
  ASSUME NEW p, Shape(p), Works(p), RenameToBackup(p)
  PROVE  CallInvariant(p)' /\ Turns(p)
<1>1. PICK f \in Files : f = file[p]
  BY DEF Shape
<1>2. /\ at[p] = "backup" /\ OtherFile(p) /\ Effective(doing[p], before)
      /\ doing[p].kind # "addNewUser" /\ At(f, "live") # None
      /\ At(f, "new") # None /\ Begins(disk[At(f, "new")], Outcome(p, f))
      /\ out[p][f] = Stream(At(f, "new"), "w", Outcome(p, f))
  BY <1>1 DEF RenameToBackup, Works, Rewriting, Rewrites
<1>3. /\ Rename(<<f, "live">>, <<f, "backup">>) /\ Goto(p, "install")
      /\ UNCHANGED <<doing, file, old, out, before>> /\ SetDisk(disk)
  BY <1>1, <1>2 DEF RenameToBackup, At
<1>4. PICK g \in Files : g = IF f = "passwd" THEN "shadow" ELSE "passwd"
  BY NamesOf
<1>5. g # f
  BY <1>4
<1>6. /\ <<f, "live">> \in Names /\ <<f, "backup">> \in Names /\ <<f, "live">> # <<f, "backup">>
      /\ <<f, "new">> \in Names \ {<<f, "live">>, <<f, "backup">>}
      /\ <<g, "live">> \in Names \ {<<f, "live">>, <<f, "backup">>}
  BY <1>5, NamesOf
<1>7. /\ Shape(p)' /\ at'[p] = "install"
      /\ \A n \in Names \ {<<f, "live">>, <<f, "backup">>} : dir'[n] = dir[n]
      /\ \A n \in Names : dir'[n] # None => disk'[dir'[n]] = disk[dir'[n]]
  <2>1. p \in DOMAIN file' /\ file'[p] \in Files /\ DOMAIN doing' = DOMAIN doing
    BY <1>3 DEF Shape
  <2>2. QED
    BY <1>3, <1>6, <2>1, RenameTurns
<1>8. /\ At(f, "new")' = At(f, "new") /\ At(g, "live")' = At(g, "live")
      /\ disk'[At(f, "new")] = disk[At(f, "new")]
  BY <1>2, <1>6, <1>7 DEF At
<1>9. OtherFile(p)'
  <2>1. dir' \in [Names -> Inodes \cup {None}] /\ out'[p][g] = out[p][g]
    BY <1>3, <1>7 DEF Shape
  <2>2. QED
    BY <1>1, <1>2, <1>3, <1>4, <1>8, <2>1, OtherStays
<1>10. Outcome(p, f)' = Outcome(p, f)
  BY <1>3 DEF Outcome
<1>11. Rewrites(p, f)'
  BY <1>2, <1>3, <1>7, <1>8, <1>10 DEF Rewrites
<1>12. Works(p)'
  BY <1>1, <1>2, <1>3, <1>7, <1>9, <1>11 DEF Works, Looking, Rewriting
<1>13. QED
  BY <1>2, <1>3, <1>7, <1>12 DEF CallInvariant, Turns

LEMMA RenameToLiveTurns ==
  ASSUME NEW p, Shape(p), Works(p), RenameToLive(p)
  PROVE  CallInvariant(p)' /\ Turns(p)
<1>1. PICK f \in Files : f = file[p]
  BY DEF Shape
<1>2. /\ at[p] = "install" /\ OtherFile(p) /\ Effective(doing[p], before)
      /\ doing[p].kind # "addNewUser"
      /\ At(f, "new") # None /\ Begins(disk[At(f, "new")], Outcome(p, f))
      /\ out[p][f] = Stream(At(f, "new"), "w", Outcome(p, f))
  BY <1>1 DEF RenameToLive, Works, Rewriting, Rewrites
<1>3. PICK next : next = IF f = "passwd" THEN "open_old" ELSE "close"
  OBVIOUS
<1>4. /\ Rename(<<f, "new">>, <<f, "live">>) /\ Goto(p, next)
      /\ UNCHANGED <<doing, old, out, before>> /\ SetDisk(disk)
      /\ p \in DOMAIN file' /\ file'[p] = "shadow"
  <2>1. /\ Rename(<<f, "new">>, <<f, "live">>) /\ UNCHANGED <<doing, old, out, before>> /\ SetDisk(disk)
    BY <1>1, <1>2 DEF RenameToLive, At
  <2>2. f = "passwd" => Goto(p, "open_old") /\ file' = [file EXCEPT ![p] = "shadow"]
    BY <1>1, <1>2 DEF RenameToLive, At
  <2>3. f = "shadow" => Goto(p, "close") /\ file' = file
    BY <1>1, <1>2 DEF RenameToLive, At
  <2>4. f = "passwd" \/ f = "shadow"
    BY DEF Files
  <2>5. QED
    BY <1>1, <1>3, <2>1, <2>2, <2>3, <2>4 DEF Shape
<1>5. PICK g \in Files : g = IF f = "passwd" THEN "shadow" ELSE "passwd"
  BY NamesOf
<1>6. g # f /\ \A h \in Files : h = f \/ h = g
  BY <1>5 DEF Files
<1>7. /\ <<f, "new">> \in Names /\ <<f, "live">> \in Names /\ <<f, "new">> # <<f, "live">>
      /\ <<g, "live">> \in Names \ {<<f, "new">>, <<f, "live">>}
  BY <1>6, NamesOf
<1>8. /\ Shape(p)' /\ at'[p] = next /\ dir'[<<f, "live">>] = dir[<<f, "new">>]
      /\ \A n \in Names \ {<<f, "new">>, <<f, "live">>} : dir'[n] = dir[n]
      /\ \A n \in Names : dir'[n] # None => disk'[dir'[n]] = disk[dir'[n]]
  <2>1. p \in DOMAIN file' /\ file'[p] \in Files /\ DOMAIN doing' = DOMAIN doing
    BY <1>4, NamesOf
  <2>2. QED
    BY <1>4, <1>7, <2>1, RenameTurns
<1>9. /\ At(f, "live")' = At(f, "new") /\ At(g, "live")' = At(g, "live")
      /\ disk'[At(f, "new")] = disk[At(f, "new")]
      /\ At(g, "live") # None => disk'[At(g, "live")] = disk[At(g, "live")]
  BY <1>2, <1>7, <1>8 DEF At
<1>10. Pending(p, f)'
  <2>1. Outcome(p, f)' = Outcome(p, f)
    BY <1>4 DEF Outcome
  <2>2. QED
    BY <1>2, <1>4, <1>9, <2>1 DEF Pending
<1>11. /\ Untouched(p, g) => Untouched(p, g)'
       /\ Pending(p, g) => Pending(p, g)'
  BY <1>4, <1>9, StaysSame
<1>12. CASE f = "passwd"
  <2>1. g = "shadow" /\ next = "open_old" /\ doing[p].kind = "deleteUser" /\ Untouched(p, g)'
    BY <1>1, <1>2, <1>3, <1>5, <1>11, <1>12 DEF OtherFile
  <2>2. Rewrites(p, "shadow")' /\ OtherFile(p)'
    BY <1>4, <1>8, <1>10, <1>12, <2>1 DEF Rewrites, OtherFile
  <2>3. Works(p)'
    BY <1>2, <1>4, <1>8, <2>1, <2>2 DEF Works, Looking, Rewriting
  <2>4. QED
    BY <1>2, <1>4, <1>8, <2>1, <2>3 DEF CallInvariant, Turns
<1>13. CASE f = "shadow"
  <2>1. g = "passwd" /\ next = "close"
    BY <1>3, <1>5, <1>13
  <2>2. Pending(p, g)' \/ Done(p, g)'
    <3>1. CASE doing[p].kind = "deleteUser"
      BY <1>1, <1>2, <1>11, <1>13, <2>1, <3>1 DEF OtherFile
    <3>2. CASE doing[p].kind # "deleteUser"
      <4>1. Untouched(p, g)'
        BY <1>1, <1>2, <1>11, <1>13, <2>1, <3>2 DEF OtherFile
      <4>2. Outcome(p, g)' = before'[g]
        BY <1>2, <1>4, <2>1, <3>2 DEF Outcome, Effect
      <4>3. QED
        BY <4>1, <4>2 DEF Untouched, Done
    <3>3. QED
      BY <3>1, <3>2
  <2>3. \A h \in Files : Pending(p, h)' \/ Done(p, h)'
    BY <1>6, <1>10, <2>2
  <2>4. Works(p)'
    BY <1>2, <1>4, <1>8, <2>1, <2>3 DEF Works, Looking, Rewriting
  <2>5. QED
    BY <1>2, <1>4, <1>8, <2>1, <2>4 DEF CallInvariant, Turns
<1>14. QED
  BY <1>12, <1>13 DEF Files

(* addNewUser opens a file and leaves its line in the buffer.              *)
LEMMA AppendTurns ==
  ASSUME NEW p, Shape(p), NEW f \in Files, NEW line, NEW next, Append1(p, f, line, next),
         Untouched(p, f), Outcome(p, f) = before[f] \o <<line>>
  PROVE  /\ Shape(p)' /\ at'[p] = next /\ Pending(p, f)' /\ UNCHANGED <<doing, file, before>>
         /\ \A g \in Files : g # f => /\ Untouched(p, g) => Untouched(p, g)'
                                      /\ Pending(p, g) => Pending(p, g)'
<1>1. At(f, "live") # None /\ disk[At(f, "live")] = before[f]
  BY DEF Untouched
<1>2. /\ dir' = [dir EXCEPT ![<<f, "live">>] = At(f, "live")]
      /\ out' = [out EXCEPT ![p][f] = Stream(At(f, "live"), "a", <<line>>)]
      /\ Goto(p, next) /\ UNCHANGED <<doing, file, old, before>> /\ SetDisk(disk)
  BY <1>1 DEF Append1, At, Stream
<1>3. dir' = dir
  BY <1>2, NamesOf DEF At, Shape
<1>4. /\ out'[p][f] = Stream(At(f, "live"), "a", <<line>>)
      /\ \A g \in Files : g # f => out'[p][g] = out[p][g]
      /\ p \in DOMAIN out' /\ DOMAIN out'[p] = Files
  BY <1>2 DEF Shape
<1>5. Shape(p)' /\ at'[p] = next
  <2>1. DOMAIN disk' = Inodes /\ p \in DOMAIN at' /\ at'[p] = next
    BY <1>2 DEF SetDisk, Goto, Shape
  <2>2. UNCHANGED <<dir, doing, file, old>>
    BY <1>2, <1>3
  <2>3. QED
    BY <1>4, <2>1, <2>2, SMTT(30) DEF Shape
<1>6. \A g \in Files : /\ At(g, "live")' = At(g, "live")
                       /\ At(g, "live") # None => disk'[At(g, "live")] = disk[At(g, "live")]
  <2>1. \A n \in Names : dir'[n] # None => disk'[dir'[n]] = disk[dir'[n]]
    BY <1>2, <1>5, NamedIsKept DEF Shape
  <2>2. QED
    BY <1>3, <2>1, NamesOf DEF At
<1>7. Outcome(p, f)' = Outcome(p, f)
  BY <1>2 DEF Outcome
<1>8. Pending(p, f)'
  BY <1>1, <1>2, <1>4, <1>6, <1>7 DEF Pending
<1>9. ASSUME NEW g \in Files, g # f
      PROVE  (Untouched(p, g) => Untouched(p, g)') /\ (Pending(p, g) => Pending(p, g)')
  BY <1>2, <1>4, <1>6, <1>9, StaysSame
<1>10. QED
  BY <1>2, <1>5, <1>8, <1>9

LEMMA AppendsTurn ==
  ASSUME NEW p, Shape(p), Works(p), AppendPasswd(p) \/ AppendShadow(p)
  PROVE  CallInvariant(p)' /\ Turns(p)
<1>1. /\ at[p] \in {"append_passwd", "append_shadow"} /\ doing[p].kind = "addNewUser"
      /\ Effective(doing[p], before)
  BY DEF AppendPasswd, AppendShadow, Works
<1>2. /\ Effect(doing[p], before).passwd = before.passwd \o <<NewUser(doing[p], before)>>
      /\ Effect(doing[p], before).shadow = before.shadow \o <<NewEntry(doing[p].user, doing[p].arg, Today)>>
  BY <1>1 DEF Effect
<1>3. CASE AppendPasswd(p)
  <2>1. at[p] = "append_passwd" /\ \A f \in Files : Untouched(p, f)
    BY <1>3 DEF AppendPasswd, Works, Looking
  <2>2. Lines("passwd") = before.passwd
    BY <2>1, LinesAre, NamesOf DEF Untouched
  <2>3. Append1(p, "passwd", NewUser(doing[p], before), "append_shadow")
    BY <1>3, <2>2 DEF AppendPasswd, NewUser
  <2>4. Outcome(p, "passwd") = before.passwd \o <<NewUser(doing[p], before)>>
    BY <1>2 DEF Outcome
  <2>5. /\ Shape(p)' /\ at'[p] = "append_shadow" /\ Pending(p, "passwd")'
        /\ UNCHANGED <<doing, file, before>> /\ Untouched(p, "shadow")'
    BY <2>1, <2>3, <2>4, NamesOf, AppendTurns
  <2>6. Works(p)'
    BY <1>1, <2>5 DEF Works, Looking, Rewriting
  <2>7. QED
    BY <2>1, <2>5, <2>6 DEF CallInvariant, Turns
<1>4. CASE AppendShadow(p)
  <2>1. at[p] = "append_shadow" /\ Pending(p, "passwd") /\ Untouched(p, "shadow")
    BY <1>4 DEF AppendShadow, Works
  <2>2. Append1(p, "shadow", NewEntry(doing[p].user, doing[p].arg, Today), "close")
    BY <1>4 DEF AppendShadow
  <2>3. Outcome(p, "shadow") = before.shadow \o <<NewEntry(doing[p].user, doing[p].arg, Today)>>
    BY <1>2 DEF Outcome
  <2>4. /\ Shape(p)' /\ at'[p] = "close" /\ Pending(p, "shadow")'
        /\ UNCHANGED <<doing, file, before>> /\ Pending(p, "passwd")'
    BY <2>1, <2>2, <2>3, NamesOf, AppendTurns
  <2>5. \A f \in Files : Pending(p, f)' \/ Done(p, f)'
    BY <2>4 DEF Files
  <2>6. Works(p)'
    BY <1>1, <2>4, <2>5 DEF Works, Looking, Rewriting
  <2>7. QED
    BY <2>1, <2>4, <2>6 DEF CallInvariant, Turns
<1>5. QED
  BY <1>3, <1>4

LEMMA CloseTurns ==
  ASSUME NEW p, Shape(p), Works(p), p \in DOMAIN result, Close(p)
  PROVE  CallInvariant(p)' /\ Turns(p)
<1>0. result'[p] = "ok"
  BY DEF Close, Return
<1>1. /\ at[p] = "close" /\ Effective(doing[p], before)
      /\ \A f \in Files : Pending(p, f) \/ Done(p, f)
  BY DEF Close, Works
<1>2. Goto(p, "unwind") /\ UNCHANGED <<dir, disk, out, doing, file, old, before>>
  BY DEF Close, Return, files
<1>3. /\ Shape(p)' /\ at'[p] = "unwind"
      /\ \A f \in Files : (Pending(p, f)' <=> Pending(p, f)) /\ (Done(p, f)' <=> Done(p, f))
  <2>1. DOMAIN old' = {p}
    BY <1>2 DEF Shape
  <2>2. QED
    BY <1>2, <2>1, GoesOn
<1>4. Works(p)'
  BY <1>0, <1>1, <1>2, <1>3 DEF Works, Looking, Rewriting
<1>5. QED
  BY <1>1, <1>2, <1>3, <1>4 DEF CallInvariant, Turns

LEMMA BeginsThenRest ==
  ASSUME NEW S, NEW lines \in Seq(S), NEW n \in 0 .. Len(lines)
  PROVE  \E some \in Seq(S) : /\ some = SubSeq(lines, 1, n)
                              /\ lines \o SubSeq(some, Len(lines) + 1, Len(some)) = lines
<1>1. PICK some \in Seq(S) : some = SubSeq(lines, 1, n) /\ Len(some) = n
  <2> DEFINE first == SubSeq(lines, 1, n)
  <2>1. 1 \in 1 .. Len(lines) + 1 /\ n \in 1 - 1 .. Len(lines)
    OBVIOUS
  <2>2. first \in Seq(S) /\ Len(first) = IF 1 <= n THEN n - 1 + 1 ELSE 0
    BY <2>1, SubSeqProperties
  <2>3. (IF 1 <= n THEN n - 1 + 1 ELSE 0) = n
    OBVIOUS
  <2> HIDE DEF first
  <2>4. first \in Seq(S) /\ Len(first) = n
    BY <2>2, <2>3
  <2>5. QED
    BY <2>4 DEF first
<1>2. SubSeq(some, Len(lines) + 1, Len(some)) = <<>>
  BY <1>1
<1>3. lines \o <<>> = lines
  OBVIOUS
<1>4. QED
  BY <1>1, <1>2, <1>3

(* Closing a stream: the file has the lines the call is to give it.        *)
LEMMA FlushedIs ==
  ASSUME NEW p, Shape(p), NEW f \in Files, Pending(p, f) \/ Done(p, f), NEW S, Outcome(p, f) \in Seq(S)
  PROVE  /\ Flushed(disk, out[p][f])[At(f, "live")] = Outcome(p, f)
         /\ \A i : i # At(f, "live") => Flushed(disk, out[p][f])[i] = disk[i]
<1>1. PICK lines \in Seq(S) : lines = Outcome(p, f)
  OBVIOUS
<1>2. At(f, "live") # None
  BY DEF Pending, Done
<1>3. At(f, "live") \in DOMAIN disk
  BY <1>2, NamesOf DEF At, Shape
<1>4. CASE Done(p, f)
  BY <1>4 DEF Done, Flushed, Closed
<1>5. CASE Begins(disk[At(f, "live")], lines) /\ out[p][f] = Stream(At(f, "live"), "w", lines)
  <2>0. PICK n \in 0 .. Len(lines) : disk[At(f, "live")] = SubSeq(lines, 1, n)
    BY <1>5 DEF Begins
  <2>1. PICK some \in Seq(S) : /\ some = SubSeq(lines, 1, n)
                               /\ lines \o SubSeq(some, Len(lines) + 1, Len(some)) = lines
    BY BeginsThenRest
  <2>2. Flushed(disk, out[p][f]) =
          [disk EXCEPT ![At(f, "live")] =
             lines \o SubSeq(disk[At(f, "live")], Len(lines) + 1, Len(disk[At(f, "live")]))]
    <3>1. /\ out[p][f].mode = "w" /\ out[p][f].inode = At(f, "live")
          /\ out[p][f].lines = lines
      BY <1>5 DEF Stream
    <3>2. QED
      BY <3>1 DEF Flushed
  <2>3. Flushed(disk, out[p][f]) = [disk EXCEPT ![At(f, "live")] = lines]
    BY <2>0, <2>1, <2>2
  <2>4. QED
    BY <1>1, <1>3, <2>3
<1>6. ASSUME NEW line, disk[At(f, "live")] = before[f], lines = before[f] \o <<line>>,
             out[p][f] = Stream(At(f, "live"), "a", <<line>>)
      PROVE  /\ Flushed(disk, out[p][f])[At(f, "live")] = lines
             /\ \A i : i # At(f, "live") => Flushed(disk, out[p][f])[i] = disk[i]
  <2>1. Flushed(disk, out[p][f]) = [disk EXCEPT ![At(f, "live")] = disk[At(f, "live")] \o <<line>>]
    <3>1. /\ out[p][f].mode = "a" /\ out[p][f].inode = At(f, "live")
          /\ out[p][f].lines = <<line>>
      BY <1>6 DEF Stream
    <3>2. QED
      BY <3>1 DEF Flushed
  <2>2. Flushed(disk, out[p][f]) = [disk EXCEPT ![At(f, "live")] = lines]
    BY <1>6, <2>1
  <2>3. QED
    BY <1>3, <2>2
<1>7. QED
  BY <1>1, <1>4, <1>5, <1>6 DEF Pending

LEMMA UnwindTurns ==
  ASSUME NEW p, Shape(p), Works(p), p \in DOMAIN result, Unwind(p)
  PROVE  CallInvariant(p)' /\ Turns(p)
<1>1. PICK f \in Files : f = IF "shadow" \in OpenStreams(p) THEN "shadow" ELSE "passwd"
  BY NamesOf
<1>2. /\ at[p] = "unwind" /\ SetDisk(Flushed(disk, out[p][f]))
      /\ OpenStreams(p) \subseteq {f} => End(p, result[p])
      /\ ~ (OpenStreams(p) \subseteq {f}) =>
           /\ out' = [out EXCEPT ![p][f] = Closed]
           /\ UNCHANGED <<dir, at, doing, file, old, result, before>>
  BY <1>1 DEF Unwind
<1>3. Sound(before) /\ before = [passwd |-> before.passwd, shadow |-> before.shadow] /\ Proper(doing[p])
  BY <1>2 DEF Works
<1>4. Closed.mode = "closed"
  BY DEF Closed
<1>5. CASE /\ result[p] = "failed" /\ Vain(doing[p], before) /\ doing[p].kind # "getUserByName"
           /\ \A g \in Files : Untouched(p, g)
  <2>1. out[p][f].mode = "closed" /\ OpenStreams(p) \subseteq {f}
    BY <1>4, <1>5 DEF Untouched, OpenStreams
  <2>2. Flushed(disk, out[p][f]) = disk
    BY <2>1 DEF Flushed
  <2>3. \A g \in Files : At(g, "live") # None /\ disk[At(g, "live")] = before[g]
    BY <1>5 DEF Untouched
  <2>4. PICK b : b = before
    OBVIOUS
  <2>5. /\ CallInvariant(p)' /\ Content' = b /\ at'[p] = "idle"
        /\ doing'[p] = None /\ result'[p] = result[p]
    BY <1>2, <1>3, <2>1, <2>2, <2>3, <2>4, EndRests
  <2>6. Answered(doing[p], before, Content', result'[p])
    BY <1>5, <2>4, <2>5 DEF Answered
  <2>7. QED
    BY <1>2, <2>5, <2>6 DEF Turns
<1>6. CASE /\ result[p] = "ok" /\ Effective(doing[p], before)
           /\ \A g \in Files : Pending(p, g) \/ Done(p, g)
  <2>1. PICK b : b = Effect(doing[p], before)
    OBVIOUS
  <2>2. Sound(b) /\ b = [passwd |-> b.passwd, shadow |-> b.shadow]
    <3>1. Sound(b)
      BY <1>3, <1>6, <2>1, EffectIsSound
    <3>2. b = [passwd |-> b.passwd, shadow |-> b.shadow]
      BY <2>1 DEF Effect
    <3>3. QED
      BY <3>1, <3>2
  <2>3. \A g \in Files : Outcome(p, g) = b[g]
    BY <2>1 DEF Outcome
  <2>4. \E S : Outcome(p, f) \in Seq(S)
    BY <2>2, <2>3 DEF Sound, Files
  <2>5. PICK d : d = Flushed(disk, out[p][f])
    OBVIOUS
  <2>6. d[At(f, "live")] = Outcome(p, f) /\ \A i : i # At(f, "live") => d[i] = disk[i]
    BY <1>6, <2>4, <2>5, FlushedIs
  <2>7. \A g \in Files : /\ At(g, "live") # None
                         /\ g # f => At(g, "live") # At(f, "live")
    <3>1. \A g \in Files : At(g, "live") # None
      BY <1>6 DEF Pending, Done
    <3>2. QED
      BY <3>1, NamesOf DEF At, Shape
  <2>8. \A g \in Files : g \notin OpenStreams(p) => Done(p, g)
    <3>1. ASSUME NEW g \in Files, Pending(p, g)
          PROVE  out[p][g].mode # "closed"
      <4>1. PICK inode, lines : \/ out[p][g] = Stream(inode, "w", lines)
                                \/ out[p][g] = Stream(inode, "a", lines)
        BY <3>1 DEF Pending
      <4>2. QED
        BY <4>1 DEF Stream
    <3>2. QED
      BY <1>6, <3>1 DEF OpenStreams
  <2>9. CASE OpenStreams(p) \subseteq {f}
    <3>1. \A g \in Files : d[At(g, "live")] = b[g]
      BY <2>3, <2>6, <2>7, <2>8, <2>9 DEF Done
    <3>2. /\ CallInvariant(p)' /\ Content' = b /\ at'[p] = "idle"
          /\ doing'[p] = None /\ result'[p] = result[p]
      BY <1>2, <2>2, <2>5, <2>7, <2>9, <3>1, EndRests
    <3>3. Answered(doing[p], before, Content', result'[p])
      BY <1>6, <2>1, <3>2 DEF Answered
    <3>4. QED
      BY <1>2, <3>2, <3>3 DEF Turns
  <2>10. CASE ~ (OpenStreams(p) \subseteq {f})
    <3>1. f = "shadow" /\ \A g \in Files : g = f \/ g = "passwd"
      BY <1>1, <2>10 DEF OpenStreams, Files
    <3>2. /\ out' = [out EXCEPT ![p][f] = Closed] /\ SetDisk(d)
          /\ UNCHANGED <<dir, at, doing, file, old, result, before>>
      BY <1>2, <2>5, <2>10
    <3>3. /\ out'[p][f] = Closed /\ out'[p]["passwd"] = out[p]["passwd"]
          /\ p \in DOMAIN out' /\ DOMAIN out'[p] = Files
      BY <3>1, <3>2 DEF Shape
    <3>4. Shape(p)'
      BY <3>2, <3>3 DEF Shape, SetDisk
    <3>5. \A g \in Files : At(g, "live")' = At(g, "live") /\ disk'[At(g, "live")] = d[At(g, "live")]
      <4>1. \A n \in Names : dir'[n] # None => disk'[dir'[n]] = d[dir'[n]]
        BY <3>2, <3>4, NamedIsKept DEF Shape
      <4>2. QED
        BY <2>7, <3>2, <4>1, NamesOf DEF At
    <3>6. Done(p, f)'
      <4>1. Outcome(p, f)' = Outcome(p, f)
        BY <3>2 DEF Outcome
      <4>2. QED
        BY <2>6, <2>7, <3>3, <3>5, <4>1 DEF Done
    <3>7. Pending(p, "passwd")' \/ Done(p, "passwd")'
      <4>1. disk'[At("passwd", "live")] = disk[At("passwd", "live")]
        BY <2>6, <2>7, <3>1, <3>5, NamesOf
      <4>2. /\ Pending(p, "passwd") => Pending(p, "passwd")'
            /\ Done(p, "passwd") => Done(p, "passwd")'
        BY <3>2, <3>3, <3>5, <4>1, NamesOf, StaysSame
      <4>3. QED
        BY <1>6, <4>2, NamesOf
    <3>8. \A g \in Files : Pending(p, g)' \/ Done(p, g)'
      BY <3>1, <3>6, <3>7
    <3>9. Works(p)'
      BY <1>2, <1>6, <3>2, <3>8 DEF Works, Looking, Rewriting
    <3>10. QED
      BY <1>2, <3>2, <3>4, <3>9 DEF CallInvariant, Turns
  <2>11. QED
    BY <2>9, <2>10
<1>7. QED
  BY <1>2, <1>5, <1>6 DEF Works

LEMMA OperationTurns ==
  ASSUME NEW p, Processes = {p}, ~faulty, Shape(p), Works(p), p \in DOMAIN result, Operation(p)
  PROVE  CallInvariant(p)' /\ Turns(p)
<1>1. at[p] # "idle"
  BY DEF Works, Looking, Rewriting
<1>2. CASE CheckPasswd(p) \/ CheckShadow(p) \/ CheckGroup(p)
  BY <1>1, <1>2, LooksTurn
<1>3. CASE OpenOld(p)
  BY <1>3, OpenOldTurns
<1>4. CASE OpenNew(p)
  BY <1>4, OpenNewTurns
<1>5. CASE Copy(p)
  BY <1>5, CopyTurns
<1>6. CASE RenameToBackup(p)
  BY <1>6, RenameToBackupTurns
<1>7. CASE RenameToLive(p)
  BY <1>7, RenameToLiveTurns
<1>8. CASE AppendPasswd(p) \/ AppendShadow(p)
  BY <1>8, AppendsTurn
<1>9. CASE Close(p)
  BY <1>9, CloseTurns
<1>10. CASE Unwind(p)
  BY <1>10, UnwindTurns
<1>11. ~ SaltFails(p)
  BY DEF SaltFails
<1>12. QED
  BY <1>2, <1>3, <1>4, <1>5, <1>6, <1>7, <1>8, <1>9, <1>10, <1>11 DEF Operation

LEMMA ShapeAtFirst ==
  ASSUME NEW p, Processes = {p}, StoreInit
  PROVE  /\ Shape(p) /\ at[p] = "idle" /\ doing[p] = None /\ result[p] = "none"
         /\ file[p] = "shadow" /\ \A f \in Files : out[p][f] = Closed
         /\ At("passwd", "live") = 1 /\ At("shadow", "live") = 2
         /\ 1 \in Inodes /\ 2 \in Inodes
<1>1. 1 \in Inodes /\ 2 \in Inodes
  <2>1. Cardinality(Names) \in Nat
    BY NamesFinite
  <2>2. Cardinality(Processes) = 1
    BY FS_Singleton
  <2>3. QED
    BY <2>1, <2>2 DEF Inodes
<1>2. /\ At("passwd", "live") = 1 /\ At("shadow", "live") = 2
      /\ \A n \in Names \ {<<"passwd", "live">>, <<"shadow", "live">>} : dir[n] = None
  BY NamesOf DEF StoreInit, At
<1>3. dir \in [Names -> Inodes \cup {None}]
  <2>1. dir = [n \in Names |-> dir[n]]
    BY DEF StoreInit
  <2>2. QED
    BY <1>1, <1>2, <2>1 DEF At
<1>4. \A m, n \in Names : dir[m] = dir[n] => m = n \/ dir[m] = None
  BY <1>1, <1>2, NoneAssumption DEF At
<1>5. /\ at = [q \in Processes |-> "idle"] /\ doing = [q \in Processes |-> None]
      /\ file = [q \in Processes |-> "shadow"] /\ old = [q \in Processes |-> None]
      /\ out = [q \in Processes |-> [f \in Files |-> Closed]] /\ DOMAIN disk = Inodes
  BY DEF StoreInit
<1>6. /\ Shape(p) /\ at[p] = "idle" /\ doing[p] = None /\ file[p] = "shadow"
      /\ \A f \in Files : out[p][f] = Closed
  BY <1>3, <1>4, <1>5, NamesOf DEF Shape
<1>7. result[p] = "none"
  BY DEF StoreInit
<1>8. QED
  BY <1>1, <1>2, <1>6, <1>7

LEMMA RestsAtFirst ==
  ASSUME NEW p, Processes = {p}, Paired(Initial), NobodyApart(Initial.passwd), StoreInit
  PROVE  CallInvariant(p) /\ AccountsIn(Content) = AccountsIn(Initial)
<1>1. 1 \in Inodes /\ 2 \in Inodes
  BY ShapeAtFirst
<1>2. At("passwd", "live") = 1 /\ At("shadow", "live") = 2
  BY ShapeAtFirst
<1>6. /\ Shape(p) /\ at[p] = "idle" /\ doing[p] = None
      /\ \A f \in Files : out[p][f] = Closed
  BY ShapeAtFirst
<1>7. disk[1] = Initial.passwd /\ disk[2] = Initial.shadow
  BY <1>1 DEF StoreInit
<1>8. \A f \in Files : At(f, "live") # None
  BY <1>1, <1>2, NoneAssumption DEF Files
<1>9. Content.passwd = Initial.passwd /\ Content.shadow = Initial.shadow
  BY <1>2, <1>7, <1>8, LinesAre, NamesOf DEF Content
<1>10. Sound(Content)
  <2>1. Initial.passwd \in Seq(PasswdLines) /\ Initial.shadow \in Seq(ShadowLines)
    BY InitialAssumption
  <2>2. /\ NamesIn(Initial.passwd) = NamesIn(Initial.shadow)
        /\ Distinct(Initial.passwd) /\ Distinct(Initial.shadow) /\ OwnUids(Initial.passwd)
    BY NamesOf DEF Paired, Distinct, OwnUids
  <2>3. QED
    BY <1>9, <2>1, <2>2 DEF Sound
<1>11. AccountsIn(Content) = AccountsIn(Initial)
  BY <1>9 DEF AccountsIn
<1>12. QED
  BY <1>6, <1>8, <1>10, <1>11 DEF CallInvariant, Rests

LEMMA StandsStill ==
  ASSUME NEW p, CallInvariant(p), UNCHANGED storeVars
  PROVE  CallInvariant(p)'
<1>1. UNCHANGED <<dir, disk, at, doing, file, old, out, result, before>>
  BY DEF storeVars
<1>2. Shape(p)' <=> Shape(p)
  BY <1>1 DEF Shape
<1>3. ASSUME NEW f
      PROVE  /\ At(f, "live")' = At(f, "live") /\ At(f, "new")' = At(f, "new")
             /\ Outcome(p, f)' = Outcome(p, f) /\ Lines(f)' = Lines(f)
  BY <1>1 DEF At, Outcome, Lines
<1>4. ASSUME NEW f
      PROVE  /\ Untouched(p, f)' <=> Untouched(p, f)
             /\ Pending(p, f)' <=> Pending(p, f)
             /\ Done(p, f)' <=> Done(p, f)
  BY <1>1, <1>3 DEF Untouched, Pending, Done
<1>5. Content' = Content
  BY <1>3 DEF Content
<1>6. Rests(p)' <=> Rests(p)
  BY <1>1, <1>3, <1>5 DEF Rests
<1>7. OtherFile(p)' <=> OtherFile(p)
  BY <1>1, <1>4 DEF OtherFile
<1>8. Rewrites(p, file[p])' <=> Rewrites(p, file[p])
  BY <1>1, <1>3, <1>4 DEF Rewrites
<1>9. Works(p)' <=> Works(p)
  BY <1>1, <1>4, <1>7, <1>8 DEF Works
<1>10. QED
  BY <1>1, <1>2, <1>6, <1>9 DEF CallInvariant

(* As long as only one process calls.                                      *)
Invariant(p) ==
  /\ faulty \in Faults /\ DOMAIN result = Processes
  /\ ~faulty => CallInvariant(p)

LEMMA ResultsStay ==
  ASSUME DOMAIN result = Processes, [StoreNext]_storeVars
  PROVE  DOMAIN result' = Processes
<1>1. CASE UNCHANGED storeVars
  BY <1>1 DEF storeVars
<1>2. CASE StoreNext
  <2>1. \A outcome : \A p \in Processes : End(p, outcome) => DOMAIN result' = Processes
    BY DEF End
  <2>2. \A outcome : \A p \in Processes : Return(p, outcome) => DOMAIN result' = Processes
    BY DEF Return
  <2>3. PICK p \in Processes : (\E c \in Calls[faulty][p] : Begin(p, c)) \/ Operation(p) \/ Die(p)
    BY <1>2 DEF StoreNext
  <2>4. CASE \E c \in Calls[faulty][p] : Begin(p, c)
    BY <2>4 DEF Begin
  <2>5. CASE Die(p)
    BY <2>1, <2>5 DEF Die, Dead
  <2>6. CASE CheckPasswd(p) \/ CheckShadow(p) \/ CheckGroup(p)
    BY <2>1, <2>2, <2>6 DEF CheckPasswd, CheckShadow, CheckGroup, UserMissing, UserPresent, Dead, Throw
  <2>7. CASE OpenOld(p) \/ OpenNew(p) \/ Copy(p)
    BY <2>1, <2>2, <2>7 DEF OpenOld, OpenNew, Copy, CopyLines, Dead, Throw
  <2>8. CASE RenameToBackup(p) \/ RenameToLive(p) \/ AppendPasswd(p) \/ AppendShadow(p)
    BY <2>2, <2>8 DEF RenameToBackup, RenameToLive, AppendPasswd, AppendShadow, Append1, Throw
  <2>9. CASE SaltFails(p) \/ Close(p) \/ Unwind(p)
    BY <2>1, <2>2, <2>9 DEF SaltFails, Close, Unwind, Throw
  <2>10. QED
    BY <2>3, <2>4, <2>5, <2>6, <2>7, <2>8, <2>9 DEF Operation
<1>3. QED
  BY <1>1, <1>2

LEMMA InvariantKeeps ==
  ASSUME NEW p, Processes = {p},
         \A c \in Calls[FALSE][p] : c.kind = "addNewUser" => c.user # "nobody",
         Invariant(p), [StoreNext]_storeVars
  PROVE  /\ Invariant(p)' /\ faulty' = faulty
         /\ UNCHANGED storeVars \/ faulty \/ Turns(p)
<1>1. CASE UNCHANGED storeVars
  <2>1. faulty' = faulty /\ result' = result
    BY <1>1 DEF storeVars
  <2>2. QED
    BY <1>1, <2>1, StandsStill DEF Invariant
<1>2. CASE StoreNext
  <2>1. faulty' = faulty /\ DOMAIN result' = Processes
    BY <1>2, ResultsStay DEF StoreNext, Invariant
  <2>2. CASE faulty
    BY <2>1, <2>2 DEF Invariant
  <2>3. CASE ~faulty
    <3>1. faulty = FALSE /\ FALSE \in Faults
      BY <2>3, FaultsAssumption DEF Invariant
    <3>2. ASSUME NEW c \in Calls[FALSE][p]
          PROVE  Proper(c)
      <4>1. p \in Processes
        OBVIOUS
      <4>2. QED
        BY <3>1, <4>1, CallsAssumption, NoneAssumption DEF Proper, EditKinds
    <3>3. (\E c \in Calls[FALSE][p] : Begin(p, c)) \/ Operation(p)
      BY <1>2, <3>1 DEF StoreNext, Die
    <3>4. CASE \E c \in Calls[FALSE][p] : Begin(p, c)
      <4>1. PICK c \in Calls[FALSE][p] : Begin(p, c)
        BY <3>4
      <4>2. Shape(p) /\ Rests(p)
        BY <2>3, <4>1 DEF Begin, Invariant, CallInvariant
      <4>3. CallInvariant(p)' /\ Turns(p)
        BY <3>2, <4>1, <4>2, BeginTurns
      <4>4. QED
        BY <2>1, <4>3 DEF Invariant
    <3>5. CASE Operation(p)
      <4>1. at[p] # "idle"
        BY <3>1, <3>5 DEF Operation, CheckPasswd, CheckShadow, CheckGroup, OpenOld, OpenNew, Copy,
                          RenameToBackup, RenameToLive, AppendPasswd, AppendShadow, SaltFails,
                          Close, Unwind
      <4>2. Shape(p) /\ Works(p)
        BY <2>3, <4>1 DEF Invariant, CallInvariant
      <4>3. CallInvariant(p)' /\ Turns(p)
        BY <2>3, <3>5, <4>2, OperationTurns DEF Invariant
      <4>4. QED
        BY <2>1, <4>3 DEF Invariant
    <3>6. QED
      BY <3>3, <3>4, <3>5
  <2>4. QED
    BY <2>2, <2>3
<1>3. QED
  BY <1>1, <1>2

(* Without faults, whenever no call is running, every account has one line *)
(* in each of the two files and accounts do not share a uid, whatever calls *)
(* one process makes: provided that it is so at first, that nobody's uid,  *)
(* which addNewUser does not count, is above those that are given, and     *)
(* that nobody is not added by a call.                                     *)
THEOREM PairedWhenQuietAlways ==
  ASSUME NEW p, Processes = {p}, Paired(Initial), NobodyApart(Initial.passwd),
         \A c \in Calls[FALSE][p] : c.kind = "addNewUser" => c.user # "nobody"
  PROVE  StoreSpec => []PairedWhenQuiet
<1>1. StoreInit => Invariant(p)
  <2>1. StoreInit => faulty \in Faults /\ DOMAIN result = Processes
    BY DEF StoreInit
  <2>2. QED
    BY <2>1, RestsAtFirst DEF Invariant
<1>2. Invariant(p) /\ [StoreNext]_storeVars => Invariant(p)'
  BY InvariantKeeps
<1>3. Invariant(p) => PairedWhenQuiet
  <2> SUFFICES ASSUME Invariant(p), Quiet, ~faulty
               PROVE  Paired(Content)
    BY DEF PairedWhenQuiet
  <2>1. Sound(Content)
    BY DEF Quiet, Invariant, CallInvariant, Rests
  <2>2. QED
    BY <2>1, SoundIsPaired DEF Content, Sound, Paired, Distinct, OwnUids, Files
<1>4. QED
  BY <1>1, <1>2, <1>3, PTL DEF StoreSpec

(* The calls of one process do what smart/passwd.h says of them: each is   *)
(* answered as one step on a set of accounts would be.  A call that returns *)
(* has made its one change to one account; a call that throws was one that *)
(* cannot be done, and has changed nothing; a lookup says whether the      *)
(* account is there.  (Same provisos.)                                     *)
THEOREM ImplementsAccountStore ==
  ASSUME NEW p, Processes = {p}, Paired(Initial), NobodyApart(Initial.passwd),
         \A c \in Calls[FALSE][p] : c.kind = "addNewUser" => c.user # "nobody"
  PROVE  StoreSpec => ImplementsStore
<1>0. Caller = p
  BY DEF Caller
<1>1. StoreInit => Invariant(p) /\ Store!Init
  <2> SUFFICES ASSUME StoreInit
               PROVE  Invariant(p) /\ Store!Init
    OBVIOUS
  <2>1. CallInvariant(p) /\ AccountsIn(Content) = AccountsIn(Initial)
    BY RestsAtFirst
  <2>2. faulty \in Faults /\ Quiet /\ DOMAIN result = Processes
    BY DEF StoreInit, Quiet
  <2>3. Accounts = AccountsIn(Initial)
    BY <2>1, <2>2 DEF Accounts
  <2>4. Request = None /\ Reply = "none"
    BY <1>0, ShapeAtFirst DEF Request, Reply
  <2>5. QED
    BY <2>1, <2>2, <2>3, <2>4 DEF Invariant, Store!Init
<1>2. Invariant(p) /\ [StoreNext]_storeVars => Invariant(p)'
  BY InvariantKeeps
<1>3. Invariant(p) /\ [StoreNext]_storeVars => [Store!Next]_<<Accounts, Request, Reply>>
  <2> SUFFICES ASSUME Invariant(p), [StoreNext]_storeVars
               PROVE  [Store!Next]_<<Accounts, Request, Reply>>
    OBVIOUS
  <2>1. faulty' = faulty /\ (UNCHANGED storeVars \/ faulty \/ Turns(p))
    BY InvariantKeeps
  <2>2. (Quiet <=> at[p] = "idle") /\ (Quiet' <=> at'[p] = "idle")
    BY DEF Quiet
  <2>3. CASE faulty
    BY <2>1, <2>3 DEF Accounts, Request, Reply
  <2>4. CASE ~faulty
    <3>1. /\ Accounts = AccountsIn(IF at[p] = "idle" THEN Content ELSE before)
          /\ Accounts' = AccountsIn(IF at'[p] = "idle" THEN Content' ELSE before')
          /\ Request = doing[p] /\ Request' = doing'[p]
          /\ Reply = IF at[p] = "idle" THEN result[p] ELSE "none"
          /\ Reply' = IF at'[p] = "idle" THEN result'[p] ELSE "none"
      BY <1>0, <2>1, <2>2, <2>4 DEF Accounts, Request, Reply
    <3>2. CASE UNCHANGED storeVars
      <4>1. Content' = Content /\ before' = before /\ at' = at /\ doing' = doing /\ result' = result
        BY <3>2 DEF storeVars, Content, Lines
      <4>2. QED
        BY <3>1, <4>1
    <3>3. CASE Turns(p) /\ at[p] = "idle"
      <4>1. at'[p] # "idle" /\ before' = Content /\ doing[p] = None /\ doing'[p] \in Calls[FALSE][p]
        BY <3>3 DEF Turns
      <4>2. Accounts' = Accounts /\ Request = None /\ Request' = doing'[p] /\ Reply' = "none"
        BY <3>1, <3>3, <4>1
      <4>3. Store!Ask(doing'[p])
        BY <4>2 DEF Store!Ask
      <4>4. QED
        BY <1>0, <4>1, <4>3 DEF Store!Next
    <3>4. CASE Turns(p) /\ at[p] # "idle" /\ at'[p] # "idle"
      BY <3>1, <3>4 DEF Turns
    <3>5. CASE Turns(p) /\ at[p] # "idle" /\ at'[p] = "idle"
      <4>1. Works(p)
        BY <2>4, <3>5 DEF Invariant, CallInvariant
      <4>2. PICK b, c : b = before /\ c = doing[p]
        OBVIOUS
      <4>3. Sound(b) /\ Proper(c) /\ Answered(c, b, Content', result'[p]) /\ doing'[p] = None
        BY <3>5, <4>1, <4>2 DEF Works, Turns
      <4>4. /\ Accounts = AccountsIn(b) /\ Accounts' = AccountsIn(Content') /\ Request = c
            /\ Request' = None /\ Reply' = result'[p]
        BY <3>1, <3>5, <4>2, <4>3
      <4>5. QED
        BY <4>3, <4>4, AnswerIsStep
    <3>6. QED
      BY <2>1, <2>4, <3>2, <3>3, <3>4, <3>5
  <2>5. QED
    BY <2>3, <2>4
<1>4. QED
  BY <1>1, <1>2, <1>3, PTL DEF StoreSpec, ImplementsStore, Store!Spec

-----------------------------------------------------------------------------
(* One process that makes edits of lines of /etc/shadow and may die.       *)
EditSteps ==
  {"idle", "check_passwd", "check_shadow", "open_old", "open_new", "copy", "backup", "install",
   "close", "unwind"}

HeldIn(d, side) == IF At("shadow", side) = None THEN <<>> ELSE d[At("shadow", side)]

(* The new file is open.                                                   *)
WritesTo(p, side) ==
  At("shadow", side) # None /\ \E lines : out[p]["shadow"] = Stream(At("shadow", side), "w", lines)

(* Where the old lines are at each step of the edit.                       *)
Edits(p) ==
  /\ at[p] \in EditSteps /\ file[p] = "shadow" /\ out[p]["passwd"] = Closed
  /\ at[p] # "idle" => doing[p].kind \in EditKinds
  /\ at[p] \in {"idle", "check_passwd", "check_shadow", "open_old", "open_new"} =>
       out[p]["shadow"] = Closed
  /\ at[p] \in {"check_passwd", "check_shadow", "open_old", "open_new", "copy", "backup"} =>
       Held("live") = before.shadow
  /\ at[p] \in {"open_new", "copy", "backup"} => At("shadow", "live") # None
  /\ at[p] \in {"open_new", "copy"} => old[p] = At("shadow", "live")
  /\ at[p] \in {"copy", "backup", "install"} => WritesTo(p, "new")
  /\ at[p] \in {"install", "close"} => Held("backup") = before.shadow
  /\ at[p] = "close" => WritesTo(p, "live")
  /\ at[p] = "unwind" =>
       IF out[p]["shadow"] = Closed THEN Held("live") = before.shadow
       ELSE WritesTo(p, "live") /\ Held("backup") = before.shadow

Keeps == \E side \in {"live", "backup"} : Held(side)' = before.shadow

LEMMA HeldNames ==
  /\ \A side \in {"live", "backup", "new"} : <<"shadow", side>> \in Names
  /\ \A a, b \in {"live", "backup", "new"} : <<"shadow", a>> = <<"shadow", b>> => a = b
BY DEF Names, Files

LEMMA HeldStays ==
  ASSUME NEW d, SetDisk(d), dir' \in [Names -> Inodes \cup {None}], NEW side \in {"live", "backup", "new"},
         At("shadow", side)' = At("shadow", side)
  PROVE  Held(side)' = HeldIn(d, side)
<1>1. CASE At("shadow", side) = None
  BY <1>1 DEF Held, HeldIn, At
<1>2. CASE At("shadow", side) # None
  BY <1>2, HeldNames, NamedIsKept DEF Held, HeldIn, At
<1>3. QED
  BY <1>1, <1>2

(* The end of an edit, however it comes.                                   *)
LEMMA EditEnds ==
  ASSUME NEW p, Shape(p), NEW outcome, End(p, outcome), NEW d,
         SetDisk(d) \/ (d = disk /\ disk' = disk), NEW side \in {"live", "backup"},
         HeldIn(d, side) = before.shadow
  PROVE  Shape(p)' /\ Edits(p)' /\ Keeps
<1>1. /\ dir' = dir /\ at' = [at EXCEPT ![p] = "idle"] /\ doing' = [doing EXCEPT ![p] = None]
      /\ file' = [file EXCEPT ![p] = "shadow"] /\ old' = [old EXCEPT ![p] = None]
      /\ out' = [out EXCEPT ![p] = [f \in Files |-> Closed]]
  BY DEF End, Goto
<1>2. DOMAIN disk' = Inodes
  BY DEF SetDisk, Shape
<1>3. Shape(p)' /\ at'[p] = "idle" /\ file'[p] = "shadow" /\ \A f \in Files : out'[p][f] = Closed
  BY <1>1, <1>2, NamesOf DEF Shape
<1>4. Edits(p)'
  BY <1>3, NamesOf DEF Edits, EditSteps
<1>5. Held(side)' = HeldIn(d, side)
  <2>1. CASE SetDisk(d)
    BY <1>1, <2>1, HeldStays DEF Shape, At
  <2>2. CASE d = disk /\ disk' = disk
    BY <1>1, <2>2 DEF Held, HeldIn, At
  <2>3. QED
    BY <2>1, <2>2
<1>6. QED
  BY <1>3, <1>4, <1>5 DEF Keeps

(* A step that leaves the files and the streams alone.                     *)
LEMMA EditGoesOn ==
  ASSUME NEW p, Shape(p), NEW next, Goto(p, next), UNCHANGED <<dir, disk, out, doing, file, before>>,
         DOMAIN old' = {p}
  PROVE  /\ Shape(p)' /\ at'[p] = next /\ \A side : Held(side)' = Held(side)
         /\ \A side : (WritesTo(p, side)' <=> WritesTo(p, side)) /\ At("shadow", side)' = At("shadow", side)
<1>1. Shape(p)' /\ at'[p] = next
  BY DEF Shape, Goto
<1>2. \A side : Held(side)' = Held(side) /\ At("shadow", side)' = At("shadow", side)
  BY DEF Held, At
<1>3. \A side : WritesTo(p, side)' <=> WritesTo(p, side)
  BY DEF WritesTo, At
<1>4. QED
  BY <1>1, <1>2, <1>3

LEMMA EditLooks ==
  ASSUME NEW p, Shape(p), Edits(p), CheckPasswd(p) \/ CheckShadow(p) \/ CheckGroup(p)
  PROVE  Shape(p)' /\ Edits(p)' /\ Keeps
<1>1. /\ at[p] \in {"check_passwd", "check_shadow"} /\ disk' = disk
      /\ Held("live") = before.shadow /\ out[p]["shadow"] = Closed /\ doing[p].kind \in EditKinds
      /\ out[p]["passwd"] = Closed /\ file[p] = "shadow"
  BY DEF CheckPasswd, CheckShadow, CheckGroup, Edits, EditSteps
<1>2. ASSUME NEW outcome, End(p, outcome)
      PROVE  Shape(p)' /\ Edits(p)' /\ Keeps
  <2>1. HeldIn(disk, "live") = before.shadow
    BY <1>1 DEF HeldIn, Held, At
  <2>2. QED
    BY <1>1, <1>2, <2>1, EditEnds
<1>3. ASSUME NEW next \in {"check_shadow", "open_old"}, Goto(p, next),
             UNCHANGED <<dir, doing, file, old, out, result, before>>
      PROVE  Shape(p)' /\ Edits(p)' /\ Keeps
  <2>1. Shape(p)' /\ at'[p] = next /\ \A side : Held(side)' = Held(side)
    <3>1. DOMAIN old' = {p}
      BY <1>3 DEF Shape
    <3>2. QED
      BY <1>1, <1>3, <3>1, EditGoesOn
  <2>2. Edits(p)'
    BY <1>1, <1>3, <2>1 DEF Edits, EditSteps
  <2>3. QED
    BY <1>1, <2>1, <2>2 DEF Keeps
<1>4. QED
  BY <1>1, <1>2, <1>3 DEF CheckPasswd, CheckShadow, CheckGroup, UserMissing, UserPresent, EditKinds

LEMMA EditBegins ==
  ASSUME NEW p, Shape(p), Edits(p), NEW c, c.kind \in EditKinds, Begin(p, c)
  PROVE  Shape(p)' /\ Edits(p)'
<1>1. /\ at[p] = "idle" /\ Goto(p, "check_passwd") /\ UNCHANGED <<dir, disk, old, out>>
      /\ doing' = [doing EXCEPT ![p] = c] /\ before'.shadow = Lines("shadow")
      /\ file' = [file EXCEPT ![p] = "shadow"]
  BY DEF Begin, EditKinds
<1>2. Shape(p)' /\ at'[p] = "check_passwd" /\ doing'[p] = c /\ file'[p] = "shadow"
  BY <1>1, NamesOf DEF Shape, Goto
<1>3. Held("live")' = before'.shadow
  BY <1>1 DEF Held, Lines
<1>4. QED
  BY <1>1, <1>2, <1>3 DEF Edits, EditSteps

LEMMA EditReturns ==
  ASSUME NEW p, Shape(p), Edits(p), NEW outcome, Return(p, outcome), doing[p].kind \in EditKinds,
         IF out[p]["shadow"] = Closed THEN Held("live") = before.shadow
         ELSE WritesTo(p, "live") /\ Held("backup") = before.shadow
  PROVE  Shape(p)' /\ Edits(p)' /\ Keeps
<1>1. Goto(p, "unwind") /\ UNCHANGED <<dir, disk, out, doing, file, old, before>> /\ DOMAIN old' = {p}
  BY DEF Return, files, Shape
<1>2. /\ Shape(p)' /\ at'[p] = "unwind" /\ \A side : Held(side)' = Held(side)
      /\ \A side : WritesTo(p, side)' <=> WritesTo(p, side)
  BY <1>1, EditGoesOn
<1>3. Edits(p)'
  BY <1>1, <1>2 DEF Edits, EditSteps
<1>4. QED
  BY <1>2, <1>3 DEF Keeps

LEMMA EditCloses ==
  ASSUME NEW p, Shape(p), Edits(p), Close(p) \/ SaltFails(p)
  PROVE  Shape(p)' /\ Edits(p)' /\ Keeps
<1>1. CASE Close(p)
  <2>1. /\ at[p] = "close" /\ Return(p, "ok") /\ doing[p].kind \in EditKinds
        /\ WritesTo(p, "live") /\ Held("backup") = before.shadow
    BY <1>1 DEF Close, Edits
  <2>2. out[p]["shadow"] # Closed
    BY <2>1 DEF WritesTo, Stream, Closed
  <2>3. QED
    BY <2>1, <2>2, EditReturns
<1>2. CASE SaltFails(p)
  <2>1. /\ at[p] = "open_old" /\ Return(p, "failed") /\ doing[p].kind \in EditKinds
        /\ out[p]["shadow"] = Closed /\ Held("live") = before.shadow
    BY <1>2 DEF SaltFails, Throw, Edits, EditSteps
  <2>2. QED
    BY <2>1, EditReturns
<1>3. QED
  BY <1>1, <1>2

LEMMA EditOpensOld ==
  ASSUME NEW p, Shape(p), Edits(p), OpenOld(p)
  PROVE  Shape(p)' /\ Edits(p)' /\ Keeps
<1>1. /\ at[p] = "open_old" /\ Held("live") = before.shadow /\ file[p] = "shadow"
      /\ out[p]["shadow"] = Closed /\ out[p]["passwd"] = Closed /\ doing[p].kind \in EditKinds
  BY DEF OpenOld, Edits
<1>2. CASE At("shadow", "live") = None
  <2>1. Return(p, "failed")
    BY <1>1, <1>2 DEF OpenOld, At, Throw, EditKinds
  <2>2. QED
    BY <1>1, <2>1, EditReturns
<1>3. CASE At("shadow", "live") # None
  <2>1. /\ old' = [old EXCEPT ![p] = At("shadow", "live")] /\ Goto(p, "open_new")
        /\ UNCHANGED <<dir, disk, doing, file, out, before>>
    BY <1>1, <1>3 DEF OpenOld, At, files
  <2>2. old'[p] = At("shadow", "live") /\ DOMAIN old' = {p}
    BY <2>1 DEF Shape
  <2>3. /\ Shape(p)' /\ at'[p] = "open_new" /\ \A side : Held(side)' = Held(side)
        /\ At("shadow", "live")' = At("shadow", "live")
    BY <2>1, <2>2, EditGoesOn
  <2>4. Edits(p)'
    BY <1>1, <1>3, <2>1, <2>2, <2>3 DEF Edits, EditSteps
  <2>5. QED
    BY <1>1, <2>3, <2>4 DEF Keeps
<1>4. QED
  BY <1>2, <1>3

(* The lines of the new file go to an inode of its own.                    *)
LEMMA EditOpensNew ==
  ASSUME NEW p, Processes = {p}, Shape(p), Edits(p), OpenNew(p)
  PROVE  Shape(p)' /\ Edits(p)' /\ Keeps
<1>1. /\ at[p] = "open_new" /\ Held("live") = before.shadow /\ file[p] = "shadow"
      /\ out[p]["shadow"] = Closed /\ out[p]["passwd"] = Closed /\ doing[p].kind \in EditKinds
      /\ At("shadow", "live") # None /\ old[p] = At("shadow", "live")
  BY DEF OpenNew, Edits
<1>2. PICK inode : inode = IF At("shadow", "new") = None THEN FreshInode ELSE At("shadow", "new")
  OBVIOUS
<1>3. /\ dir' = [dir EXCEPT ![<<"shadow", "new">>] = inode]
      /\ out' = [out EXCEPT ![p]["shadow"] = Stream(inode, "w", <<>>)]
      /\ Goto(p, "copy") /\ UNCHANGED <<doing, file, old, before>>
      /\ SetDisk([disk EXCEPT ![inode] = <<>>])
  BY <1>1, <1>2 DEF OpenNew, At, Stream
<1>4. InUse \subseteq Range(dir)
  <2>1. old[p] \in Range(dir)
    BY <1>1, HeldNames DEF At, Range, Shape
  <2>2. \A f \in Files : out[p][f].inode = None
    BY <1>1 DEF Files, Closed
  <2>3. Range(old) = {old[p]}
    BY DEF Range, Shape
  <2>4. QED
    BY <2>1, <2>2, <2>3 DEF InUse
<1>5. inode \in Inodes /\ \A n \in Names : n # <<"shadow", "new">> => dir[n] # inode
  <2>1. CASE At("shadow", "new") = None
    <3>1. FreshInode \in Inodes /\ FreshInode \notin InUse
      BY <1>4, FreshIsFree DEF Shape
    <3>2. \A n \in Names : dir[n] \in Range(dir)
      BY DEF Shape, Range
    <3>3. QED
      BY <1>2, <2>1, <3>1, <3>2, NoneAssumption DEF InUse
  <2>2. CASE At("shadow", "new") # None
    BY <1>2, <2>2, HeldNames DEF At, Shape
  <2>3. QED
    BY <2>1, <2>2
<1>6. /\ dir' \in [Names -> Inodes \cup {None}] /\ dir'[<<"shadow", "new">>] = inode
      /\ \A n \in Names : n # <<"shadow", "new">> => dir'[n] = dir[n]
  <2>1. <<"shadow", "new">> \in Names /\ dir \in [Names -> Inodes \cup {None}]
    BY HeldNames DEF Shape
  <2>2. QED
    BY <1>3, <1>5, <2>1
<1>7. \A m, n \in Names : dir'[m] = dir'[n] => m = n \/ dir'[m] = None
  BY <1>5, <1>6 DEF Shape
<1>8. At("shadow", "new")' = inode /\ At("shadow", "live")' = At("shadow", "live") /\ inode # None
  BY <1>5, <1>6, HeldNames, NoneAssumption DEF At
<1>9. /\ out'[p]["shadow"] = Stream(inode, "w", <<>>) /\ out'[p]["passwd"] = Closed
      /\ p \in DOMAIN out' /\ DOMAIN out'[p] = Files
  BY <1>1, <1>3, NamesOf DEF Shape
<1>10. Shape(p)' /\ at'[p] = "copy"
  <2>1. DOMAIN disk' = Inodes /\ p \in DOMAIN at' /\ at'[p] = "copy"
    BY <1>3 DEF SetDisk, Goto, Shape
  <2>2. QED
    BY <1>3, <1>6, <1>7, <1>9, <2>1 DEF Shape
<1>11. Held("live")' = Held("live")
  <2> DEFINE d == [disk EXCEPT ![inode] = <<>>]
  <2>1. At("shadow", "live") # inode
    BY <1>5, HeldNames DEF At
  <2>2. d[At("shadow", "live")] = disk[At("shadow", "live")]
    BY <2>1
  <2>3. SetDisk(d)
    BY <1>3
  <2> HIDE DEF d
  <2>4. Held("live")' = HeldIn(d, "live")
    BY <1>6, <1>8, <2>3, HeldStays
  <2>5. QED
    BY <1>1, <2>2, <2>4 DEF Held, HeldIn, At
<1>12. WritesTo(p, "new")'
  BY <1>8, <1>9 DEF WritesTo
<1>13. Edits(p)'
  BY <1>1, <1>3, <1>8, <1>9, <1>10, <1>11, <1>12 DEF Edits, EditSteps
<1>14. QED
  BY <1>1, <1>10, <1>11, <1>13 DEF Keeps

LEMMA EditCopies ==
  ASSUME NEW p, Shape(p), Edits(p), Copy(p)
  PROVE  Shape(p)' /\ Edits(p)' /\ Keeps
<1>1. /\ at[p] = "copy" /\ Held("live") = before.shadow /\ file[p] = "shadow"
      /\ out[p]["passwd"] = Closed /\ doing[p].kind \in EditKinds
      /\ At("shadow", "live") # None /\ old[p] = At("shadow", "live") /\ WritesTo(p, "new")
  BY DEF Copy, Edits
<1>2. PICK lines : lines = Edited(doing[p], disk[old[p]])
  OBVIOUS
<1>3. PICK inode : inode = At("shadow", "new")
  OBVIOUS
<1>4. out[p]["shadow"].inode = inode /\ inode # None
  BY <1>1, <1>3 DEF WritesTo, Stream
<1>5. CopyLines(p, lines)
  BY <1>1, <1>2 DEF Copy
<1>6. PICK some : SetDisk([disk EXCEPT ![inode] = some])
  BY <1>1, <1>4, <1>5 DEF CopyLines
<1>7. /\ out' = [out EXCEPT ![p]["shadow"].lines = lines] /\ Goto(p, "backup")
      /\ UNCHANGED <<dir, doing, file, old, before>>
  BY <1>1, <1>5 DEF CopyLines
<1>8. /\ out'[p]["shadow"] = Stream(inode, "w", lines) /\ out'[p]["passwd"] = Closed
      /\ p \in DOMAIN out' /\ DOMAIN out'[p] = Files
  <2>1. PICK first : out[p]["shadow"] = Stream(inode, "w", first)
    BY <1>1, <1>3 DEF WritesTo
  <2>2. [out[p]["shadow"] EXCEPT !.lines = lines] = Stream(inode, "w", lines)
    BY <2>1 DEF Stream
  <2>3. out' = [out EXCEPT ![p]["shadow"] = Stream(inode, "w", lines)]
    BY <1>7, <2>2
  <2>4. QED
    BY <1>1, <2>3, NamesOf DEF Shape
<1>9. Shape(p)' /\ at'[p] = "backup"
  <2>1. DOMAIN disk' = Inodes /\ p \in DOMAIN at' /\ at'[p] = "backup"
    BY <1>6, <1>7 DEF SetDisk, Goto, Shape
  <2>2. QED
    BY <1>7, <1>8, <2>1 DEF Shape
<1>10. \A side : At("shadow", side)' = At("shadow", side)
  BY <1>7 DEF At
<1>11. Held("live")' = Held("live")
  <2> DEFINE d == [disk EXCEPT ![inode] = some]
  <2>1. At("shadow", "live") # inode
    BY <1>1, <1>3, HeldNames DEF At, Shape
  <2>2. d[At("shadow", "live")] = disk[At("shadow", "live")]
    BY <2>1
  <2>3. SetDisk(d)
    BY <1>6
  <2> HIDE DEF d
  <2>4. Held("live")' = HeldIn(d, "live")
    BY <1>9, <1>10, <2>3, HeldStays DEF Shape
  <2>5. QED
    BY <1>1, <2>2, <2>4 DEF Held, HeldIn, At
<1>12. WritesTo(p, "new")'
  BY <1>3, <1>4, <1>8, <1>10 DEF WritesTo
<1>13. Edits(p)'
  BY <1>1, <1>7, <1>8, <1>9, <1>10, <1>11, <1>12 DEF Edits, EditSteps
<1>14. QED
  BY <1>1, <1>9, <1>11, <1>13 DEF Keeps

LEMMA EditRenames ==
  ASSUME NEW p, Shape(p), Edits(p), RenameToBackup(p) \/ RenameToLive(p)
  PROVE  Shape(p)' /\ Edits(p)' /\ Keeps
<1>1. /\ file[p] = "shadow" /\ out[p]["passwd"] = Closed /\ doing[p].kind \in EditKinds
      /\ WritesTo(p, "new") /\ at[p] \in {"backup", "install"}
  BY DEF RenameToBackup, RenameToLive, Edits
<1>2. PICK lines : out[p]["shadow"] = Stream(At("shadow", "new"), "w", lines)
  BY <1>1 DEF WritesTo
<1>3. ASSUME NEW from \in {"live", "new"}, NEW to \in {"live", "backup"}, from # to, NEW next,
             Rename(<<"shadow", from>>, <<"shadow", to>>), SetDisk(disk), Goto(p, next),
             UNCHANGED <<doing, file, old, out, result, before>>
      PROVE  /\ Shape(p)' /\ at'[p] = next /\ At("shadow", to)' = At("shadow", from)
             /\ \A side \in {"live", "backup", "new"} \ {from, to} :
                  At("shadow", side)' = At("shadow", side)
             /\ \A n \in Names : dir'[n] # None => disk'[dir'[n]] = disk[dir'[n]]
  <2>1. <<"shadow", from>> \in Names /\ <<"shadow", to>> \in Names /\ <<"shadow", from>> # <<"shadow", to>>
    BY <1>3, HeldNames
  <2>2. DOMAIN doing' = DOMAIN doing /\ p \in DOMAIN file' /\ file'[p] \in Files
    BY <1>3 DEF Shape
  <2>3. /\ Shape(p)' /\ at'[p] = next
        /\ dir'[<<"shadow", to>>] = dir[<<"shadow", from>>]
        /\ \A n \in Names \ {<<"shadow", from>>, <<"shadow", to>>} : dir'[n] = dir[n]
        /\ \A n \in Names : dir'[n] # None => disk'[dir'[n]] = disk[dir'[n]]
    BY <1>3, <2>1, <2>2, RenameTurns
  <2>4. \A side \in {"live", "backup", "new"} \ {from, to} : dir'[<<"shadow", side>>] = dir[<<"shadow", side>>]
    BY <2>3, HeldNames
  <2>5. QED
    BY <2>3, <2>4 DEF At
<1>4. CASE RenameToBackup(p)
  <2>1. at[p] = "backup" /\ At("shadow", "live") # None /\ Held("live") = before.shadow
    BY <1>4 DEF RenameToBackup, Edits
  <2>2. /\ Rename(<<"shadow", "live">>, <<"shadow", "backup">>) /\ SetDisk(disk) /\ Goto(p, "install")
        /\ UNCHANGED <<doing, file, old, out, result, before>>
    BY <1>1, <1>4, <2>1 DEF RenameToBackup, At
  <2>3. /\ Shape(p)' /\ at'[p] = "install" /\ At("shadow", "backup")' = At("shadow", "live")
        /\ At("shadow", "new")' = At("shadow", "new")
        /\ \A n \in Names : dir'[n] # None => disk'[dir'[n]] = disk[dir'[n]]
    BY <1>3, <2>2
  <2>4. Held("backup")' = Held("live")
    <3>1. /\ <<"shadow", "backup">> \in Names
          /\ dir'[<<"shadow", "backup">>] = At("shadow", "live") /\ At("shadow", "live") # None
      BY <2>1, <2>3, HeldNames DEF At
    <3>2. disk'[At("shadow", "live")] = disk[At("shadow", "live")]
      BY <2>3, <3>1
    <3>3. QED
      BY <3>1, <3>2 DEF Held, At
  <2>5. WritesTo(p, "new")'
    BY <1>1, <1>2, <2>2, <2>3 DEF WritesTo
  <2>6. Edits(p)'
    BY <1>1, <2>1, <2>2, <2>3, <2>4, <2>5 DEF Edits, EditSteps
  <2>7. QED
    BY <2>1, <2>3, <2>4, <2>6 DEF Keeps
<1>5. CASE RenameToLive(p)
  <2>1. at[p] = "install" /\ At("shadow", "new") # None /\ Held("backup") = before.shadow
    BY <1>1, <1>5 DEF RenameToLive, Edits, WritesTo
  <2>2. /\ Rename(<<"shadow", "new">>, <<"shadow", "live">>) /\ SetDisk(disk) /\ Goto(p, "close")
        /\ UNCHANGED <<doing, file, old, out, result, before>>
    BY <1>1, <1>5, <2>1 DEF RenameToLive, At
  <2>3. /\ Shape(p)' /\ at'[p] = "close" /\ At("shadow", "live")' = At("shadow", "new")
        /\ At("shadow", "backup")' = At("shadow", "backup")
        /\ \A n \in Names : dir'[n] # None => disk'[dir'[n]] = disk[dir'[n]]
    BY <1>3, <2>2
  <2>4. Held("backup")' = Held("backup")
    <3>1. <<"shadow", "backup">> \in Names /\ dir'[<<"shadow", "backup">>] = dir[<<"shadow", "backup">>]
      BY <2>3, HeldNames DEF At
    <3>2. QED
      BY <2>3, <3>1 DEF Held
  <2>5. WritesTo(p, "live")'
    BY <1>1, <1>2, <2>1, <2>2, <2>3 DEF WritesTo
  <2>6. Edits(p)'
    BY <1>1, <2>1, <2>2, <2>3, <2>4, <2>5 DEF Edits, EditSteps
  <2>7. QED
    BY <2>1, <2>3, <2>4, <2>6 DEF Keeps
<1>6. QED
  BY <1>4, <1>5

(* The destructors write the new lines, which only now reach the file as a *)
(* whole; the backup is another file.                                      *)
LEMMA EditUnwinds ==
  ASSUME NEW p, Shape(p), Edits(p), Unwind(p)
  PROVE  Shape(p)' /\ Edits(p)' /\ Keeps
<1>1. PICK f : f = IF "shadow" \in OpenStreams(p) THEN "shadow" ELSE "passwd"
  OBVIOUS
<1>2. /\ at[p] = "unwind" /\ SetDisk(Flushed(disk, out[p][f]))
      /\ OpenStreams(p) \subseteq {f} => End(p, result[p])
  BY <1>1 DEF Unwind
<1>3. out[p]["passwd"] = Closed /\ Closed.mode = "closed"
  BY DEF Edits, Closed
<1>4. End(p, result[p])
  BY <1>1, <1>2, <1>3 DEF OpenStreams, Files
<1>5. PICK d : d = Flushed(disk, out[p][f])
  OBVIOUS
<1>6. CASE out[p]["shadow"] = Closed
  <2>1. f = "passwd" /\ Held("live") = before.shadow
    BY <1>1, <1>2, <1>3, <1>6 DEF OpenStreams, Edits
  <2>2. d = disk
    BY <1>3, <1>5, <2>1 DEF Flushed
  <2>3. HeldIn(d, "live") = before.shadow
    BY <2>1, <2>2 DEF HeldIn, Held, At
  <2>4. QED
    BY <1>2, <1>4, <1>5, <2>3, EditEnds
<1>7. CASE out[p]["shadow"] # Closed
  <2>1. WritesTo(p, "live") /\ Held("backup") = before.shadow
    BY <1>2, <1>7 DEF Edits
  <2>2. PICK lines : out[p]["shadow"] = Stream(At("shadow", "live"), "w", lines)
    BY <2>1 DEF WritesTo
  <2>3. /\ out[p]["shadow"].mode = "w" /\ out[p]["shadow"].inode = At("shadow", "live")
        /\ out[p]["shadow"].lines = lines
    BY <2>2 DEF Stream
  <2>4. f = "shadow"
    BY <1>1, <2>3, NamesOf DEF OpenStreams
  <2>5. d = [disk EXCEPT ![At("shadow", "live")] = lines \o SubSeq(@, Len(lines) + 1, Len(@))]
    BY <1>5, <2>3, <2>4 DEF Flushed
  <2>6. \A i : i # At("shadow", "live") => d[i] = disk[i]
    BY <2>5
  <2>7. At("shadow", "backup") # At("shadow", "live")
    BY <2>1, HeldNames DEF At, Shape, WritesTo
  <2>8. HeldIn(d, "backup") = before.shadow
    BY <2>1, <2>6, <2>7 DEF HeldIn, Held, At
  <2>9. QED
    BY <1>2, <1>4, <1>5, <2>8, EditEnds
<1>8. QED
  BY <1>6, <1>7

LEMMA EditDies ==
  ASSUME NEW p, Shape(p), Edits(p), Die(p)
  PROVE  Shape(p)' /\ Edits(p)' /\ Keeps
<1>1. End(p, "died") /\ SetDisk(disk) /\ at[p] # "idle" /\ at[p] \in EditSteps
  BY DEF Die, Dead, Edits
<1>2. Held("live") = before.shadow \/ Held("backup") = before.shadow
  BY <1>1 DEF Edits, EditSteps
<1>3. HeldIn(disk, "live") = Held("live") /\ HeldIn(disk, "backup") = Held("backup")
  BY DEF HeldIn, Held, At
<1>4. QED
  BY <1>1, <1>2, <1>3, EditEnds

LEMMA EditOperates ==
  ASSUME NEW p, Processes = {p}, Shape(p), Edits(p), Operation(p) \/ Die(p)
  PROVE  Shape(p)' /\ Edits(p)' /\ Keeps
<1>1. CASE CheckPasswd(p) \/ CheckShadow(p) \/ CheckGroup(p)
  BY <1>1, EditLooks
<1>2. CASE OpenOld(p)
  BY <1>2, EditOpensOld
<1>3. CASE OpenNew(p)
  BY <1>3, EditOpensNew
<1>4. CASE Copy(p)
  BY <1>4, EditCopies
<1>5. CASE RenameToBackup(p) \/ RenameToLive(p)
  BY <1>5, EditRenames
<1>6. ~ AppendPasswd(p) /\ ~ AppendShadow(p)
  BY DEF AppendPasswd, AppendShadow, Edits, EditSteps
<1>7. CASE Close(p) \/ SaltFails(p)
  BY <1>7, EditCloses
<1>8. CASE Unwind(p)
  BY <1>8, EditUnwinds
<1>9. CASE Die(p)
  BY <1>9, EditDies
<1>10. QED
  BY <1>1, <1>2, <1>3, <1>4, <1>5, <1>6, <1>7, <1>8, <1>9 DEF Operation

EditInvariant(p) == faulty \in Faults /\ (faulty => Shape(p) /\ Edits(p))

LEMMA EditStep ==
  ASSUME NEW p, Processes = {p}, \A c \in Calls[TRUE][p] : c.kind \in EditKinds,
         EditInvariant(p), [StoreNext]_storeVars
  PROVE  EditInvariant(p)' /\ (UNCHANGED storeVars \/ (faulty /\ at[p] # "idle" => Keeps))
<1>1. CASE UNCHANGED storeVars
  <2>1. UNCHANGED <<dir, disk, at, doing, file, old, out, before, faulty>>
    BY <1>1 DEF storeVars
  <2>2. Shape(p)' <=> Shape(p)
    BY <2>1 DEF Shape
  <2>3. \A side : /\ Held(side)' = Held(side) /\ At("shadow", side)' = At("shadow", side)
                  /\ WritesTo(p, side)' <=> WritesTo(p, side)
    BY <2>1 DEF Held, At, WritesTo
  <2>4. Edits(p)' <=> Edits(p)
    BY <2>1, <2>3 DEF Edits
  <2>5. QED
    BY <1>1, <2>1, <2>2, <2>4 DEF EditInvariant
<1>2. CASE StoreNext
  <2>1. faulty' = faulty
    BY <1>2 DEF StoreNext
  <2>2. CASE ~faulty
    BY <2>1, <2>2 DEF EditInvariant
  <2>3. CASE faulty
    <3>1. faulty = TRUE /\ Shape(p) /\ Edits(p)
      BY <2>3, FaultsAssumption DEF EditInvariant
    <3>2. (\E c \in Calls[TRUE][p] : Begin(p, c)) \/ Operation(p) \/ Die(p)
      BY <1>2, <3>1 DEF StoreNext
    <3>3. CASE \E c \in Calls[TRUE][p] : Begin(p, c)
      <4>1. at[p] = "idle"
        BY <3>3 DEF Begin
      <4>2. QED
        BY <2>1, <3>1, <3>3, <4>1, EditBegins DEF EditInvariant
    <3>4. CASE Operation(p) \/ Die(p)
      BY <2>1, <3>1, <3>4, EditOperates DEF EditInvariant
    <3>5. QED
      BY <3>2, <3>3, <3>4
  <2>4. QED
    BY <2>2, <2>3
<1>3. QED
  BY <1>1, <1>2

(* At every step of an edit, the one in which its process dies included,   *)
(* what /etc/shadow held when the edit began is held by /etc/shadow or by  *)
(* its backup: one process, which calls changePassword,                    *)
(* changeMaxPasswordAge and changeWarningPeriod and may die at any step.   *)
THEOREM OldContentKeptAlways ==
  ASSUME NEW p, Processes = {p}, \A c \in Calls[TRUE][p] : c.kind \in EditKinds
  PROVE  StoreSpec => OldContentKept
<1>1. StoreInit => EditInvariant(p)
  <2>1. ASSUME StoreInit
        PROVE  EditInvariant(p)
    <3>1. /\ Shape(p) /\ at[p] = "idle" /\ file[p] = "shadow"
          /\ \A f \in Files : out[p][f] = Closed
      BY <2>1, ShapeAtFirst
    <3>2. faulty \in Faults
      BY <2>1 DEF StoreInit
    <3>3. QED
      BY <3>1, <3>2, NamesOf DEF EditInvariant, Edits, EditSteps
  <2>2. QED
    BY <2>1
<1>2. EditInvariant(p) /\ [StoreNext]_storeVars => EditInvariant(p)'
  BY EditStep
<1>3. EditInvariant(p) /\ [StoreNext]_storeVars => [KeepsOldContent]_storeVars
  <2>1. ASSUME EditInvariant(p), [StoreNext]_storeVars
        PROVE  UNCHANGED storeVars \/ (faulty /\ at[p] # "idle" => Keeps)
    BY <2>1, EditStep
  <2>2. QED
    BY <2>1 DEF Keeps, KeepsOldContent
<1>4. QED
  BY <1>1, <1>2, <1>3, PTL DEF StoreSpec, OldContentKept

=============================================================================
