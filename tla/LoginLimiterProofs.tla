-------------------------- MODULE LoginLimiterProofs --------------------------
(***************************************************************************)
(* The limit on guesses, for any number of clients and threads, any limit,  *)
(* window and waiting time.                                                 *)
(***************************************************************************)
EXTENDS LoginLimiter, FiniteSetTheorems, WellFoundedInduction, TLAPS

-----------------------------------------------------------------------------
(* The inductive invariant.                                                  *)

\* The recorded failures f and the guesses g are the ends of one sequence of
\* events, and what f lacks has expired.
Covers(f, g) ==
    /\ \A i \in 0 .. Len(f) - 1 : i < Len(g) => f[Len(f) - i] = g[Len(g) - i]
    /\ \A j \in 1 .. Len(g) : j <= Len(g) - Len(f) => g[j] >= Window

Types ==
    /\ failures \in [Clients -> Seq(Ages)]
    /\ pending \in [Clients -> Int]
    /\ threads \in [Threads -> Jobs]
    /\ guesses \in [Clients -> Seq(Ages)]

\* Failures and reservations together respect the limit; the failures cover the
\* guesses; and the reservations are the attempts in progress.
IInv ==
    /\ Types
    /\ \A c \in Clients : Len(failures[c]) + pending[c] <= Limit
    /\ \A c \in Clients : Covers(failures[c], guesses[c])
    /\ PendingExact

-----------------------------------------------------------------------------
(* Dropping old ages.                                                        *)

LEMMA LeastExists ==
  ASSUME NEW S, S \subseteq Nat, S # {}
  PROVE  \E m \in S : \A n \in S : m <= n
<1>1. \E m \in S : \A n \in S : <<n, m>> \notin OpToRel(<, Nat)
  BY NatLessThanWellFounded, WFMin, Zenon
<1>2. \E m \in S : \A n \in S : ~(n < m)
  BY <1>1, Zenon DEF OpToRel
<1>3. QED
  BY <1>2

LEMMA AgesType == Ages \subseteq Int /\ MaxAge \in Nat /\ 0 \in Ages
BY LimiterAssumption DEF Ages, MaxAge

LEMMA SeqElementInt ==
  ASSUME NEW ages \in Seq(Ages)
  PROVE  \A j \in 1 .. Len(ages) : ages[j] \in Int
<1>1. \A j \in 1 .. Len(ages) : ages[j] \in Ages
  OBVIOUS
<1>2. QED
  BY <1>1, AgesType

LEMMA DropOldDrops ==
  ASSUME NEW ages \in Seq(Ages), NEW old \in Int
  PROVE  \E k \in 0 .. Len(ages) :
            /\ DropOld(ages, old) = SubSeq(ages, k + 1, Len(ages))
            /\ \A j \in 1 .. k : ages[j] >= old
            /\ k < Len(ages) => ages[k + 1] < old
<1> DEFINE S == {i \in 1 .. Len(ages) + 1 : i <= Len(ages) => ages[i] < old}
           P(i) == /\ \A j \in 1 .. i - 1 : ages[j] >= old
                   /\ i <= Len(ages) => ages[i] < old
           first == CHOOSE i \in 1 .. Len(ages) + 1 : P(i)
<1>1. S \subseteq Nat /\ Len(ages) + 1 \in S
  OBVIOUS
<1> HIDE DEF S
<1>2. PICK m \in S : \A n \in S : m <= n
  BY <1>1, LeastExists
<1> USE DEF S
<1>3. \A j \in 1 .. Len(ages) : ages[j] \in Int
  BY SeqElementInt
<1>4. P(m)
  <2>1. m \in 1 .. Len(ages) + 1 /\ (m <= Len(ages) => ages[m] < old)
    OBVIOUS
  <2>2. ASSUME NEW j \in 1 .. m - 1
        PROVE  ages[j] >= old
    <3>1. j \in 1 .. Len(ages) /\ j < m
      BY <2>1
    <3>2. j \notin S
      BY <1>2, <2>1, <3>1
    <3>3. QED
      BY <1>3, <3>1, <3>2
  <2>3. QED
    BY <2>1, <2>2
<1>5. first \in 1 .. Len(ages) + 1 /\ P(first)
  BY <1>2, <1>4
<1>6. DropOld(ages, old) = SubSeq(ages, first, Len(ages))
  BY DEF DropOld
<1> HIDE DEF first
<1>7. first - 1 \in 0 .. Len(ages) /\ (first - 1) + 1 = first
  BY <1>5
<1> DEFINE k == first - 1
<1>8. k \in 0 .. Len(ages) /\ first = k + 1
  BY <1>7
<1>9. /\ \A j \in 1 .. k : ages[j] >= old
      /\ k < Len(ages) => ages[k + 1] < old
  <2> HIDE DEF first
  <2>1. k + 1 = first /\ (k < Len(ages) => first <= Len(ages))
    BY <1>5
  <2>2. QED
    BY <1>5, <2>1
<1> HIDE DEF k
<1>10. QED
  BY <1>6, <1>8, <1>9

\* A sequence of ages without its first k elements.
LEMMA WithoutFirst ==
  ASSUME NEW ages \in Seq(Ages), NEW k \in 0 .. Len(ages)
  PROVE  LET rest == SubSeq(ages, k + 1, Len(ages)) IN
         /\ rest \in Seq(Ages) /\ Len(rest) = Len(ages) - k
         /\ \A i \in 1 .. Len(ages) - k : rest[i] = ages[i + k]
OBVIOUS

LEMMA OlderAges ==
  ASSUME NEW ages \in Seq(Ages)
  PROVE  /\ Older(ages) \in Seq(Ages) /\ Len(Older(ages)) = Len(ages)
         /\ \A i \in 1 .. Len(ages) :
                Older(ages)[i] = IF ages[i] < MaxAge THEN ages[i] + 1 ELSE MaxAge
<1>1. \A i \in 1 .. Len(ages) : ages[i] \in Ages
  OBVIOUS
<1>2. \A a \in Ages : (IF a < MaxAge THEN a + 1 ELSE MaxAge) \in Ages
  BY LimiterAssumption DEF Ages, MaxAge
<1>3. DOMAIN ages = 1 .. Len(ages)
  OBVIOUS
<1>4. QED
  BY <1>1, <1>2, <1>3 DEF Older

-----------------------------------------------------------------------------
(* What keeps the failures covering the guesses.                             *)

LEMMA CoversAppend ==
  ASSUME NEW f \in Seq(Ages), NEW g \in Seq(Ages), Covers(f, g)
  PROVE  Covers(Append(f, 0), Append(g, 0))
<1> DEFINE ff == Append(f, 0)
           gg == Append(g, 0)
<1>1. /\ Len(ff) = Len(f) + 1 /\ ff[Len(f) + 1] = 0
      /\ \A i \in 1 .. Len(f) : ff[i] = f[i]
  BY AgesType
<1>2. /\ Len(gg) = Len(g) + 1 /\ gg[Len(g) + 1] = 0
      /\ \A i \in 1 .. Len(g) : gg[i] = g[i]
  BY AgesType
<1> HIDE DEF ff, gg
<1>3. ASSUME NEW i \in 0 .. Len(ff) - 1, i < Len(gg)
      PROVE  ff[Len(ff) - i] = gg[Len(gg) - i]
  <2>1. CASE i = 0
    BY <1>1, <1>2, <2>1
  <2>2. CASE i > 0
    <3> DEFINE a == Len(f) - (i - 1)
               b == Len(g) - (i - 1)
    <3>1. i - 1 \in 0 .. Len(f) - 1 /\ i - 1 < Len(g)
      BY <1>1, <1>2, <1>3, <2>2
    <3>2. f[a] = g[b]
      BY <3>1 DEF Covers
    <3>3. a \in 1 .. Len(f) /\ b \in 1 .. Len(g)
      BY <1>1, <1>2, <1>3, <2>2
    <3>4. Len(ff) - i = a /\ Len(gg) - i = b
      BY <1>1, <1>2, <1>3
    <3> HIDE DEF a, b
    <3>5. ff[a] = gg[b]
      BY <1>1, <1>2, <3>2, <3>3
    <3>6. QED
      BY <3>4, <3>5
  <2>3. QED
    BY <1>1, <1>3, <2>1, <2>2
<1>4. ASSUME NEW j \in 1 .. Len(gg), j <= Len(gg) - Len(ff)
      PROVE  gg[j] >= Window
  BY <1>1, <1>2, <1>4 DEF Covers
<1>5. QED
  BY <1>3, <1>4 DEF Covers, ff, gg

LEMMA CoversOlder ==
  ASSUME NEW f \in Seq(Ages), NEW g \in Seq(Ages), Covers(f, g)
  PROVE  Covers(Older(f), Older(g))
<1>1. \A i \in 1 .. Len(g) : g[i] \in Int /\ Older(g)[i] >= g[i]
  BY AgesType, OlderAges, LimiterAssumption DEF Ages, MaxAge
<1>2. ASSUME NEW i \in 0 .. Len(f) - 1, i < Len(g)
      PROVE  Older(f)[Len(f) - i] = Older(g)[Len(g) - i]
  <2>1. f[Len(f) - i] = g[Len(g) - i]
    BY <1>2 DEF Covers
  <2>2. Len(f) - i \in 1 .. Len(f) /\ Len(g) - i \in 1 .. Len(g)
    BY <1>2
  <2>3. QED
    BY <2>1, <2>2, OlderAges
<1>3. ASSUME NEW j \in 1 .. Len(g), j <= Len(g) - Len(f)
      PROVE  Older(g)[j] >= Window
  <2>1. g[j] >= Window
    BY <1>3 DEF Covers
  <2>2. QED
    BY <1>1, <2>1, OlderAges, AgesType, LimiterAssumption
<1>4. QED
  BY <1>2, <1>3, OlderAges DEF Covers

\* The history may drop any of its oldest guesses.
LEMMA CoversFewerGuesses ==
  ASSUME NEW f \in Seq(Ages), NEW g \in Seq(Ages), Covers(f, g), NEW k \in 0 .. Len(g)
  PROVE  Covers(f, SubSeq(g, k + 1, Len(g)))
<1> DEFINE rest == SubSeq(g, k + 1, Len(g))
<1>1. Len(rest) = Len(g) - k /\ \A i \in 1 .. Len(g) - k : rest[i] = g[i + k]
  BY WithoutFirst
<1> HIDE DEF rest
<1>2. ASSUME NEW i \in 0 .. Len(f) - 1, i < Len(rest)
      PROVE  f[Len(f) - i] = rest[Len(rest) - i]
  <2>1. rest[Len(rest) - i] = g[Len(g) - i]
    BY <1>1, <1>2
  <2>2. QED
    BY <1>1, <1>2, <2>1 DEF Covers
<1>3. ASSUME NEW j \in 1 .. Len(rest), j <= Len(rest) - Len(f)
      PROVE  rest[j] >= Window
  BY <1>1, <1>3 DEF Covers
<1>4. QED
  BY <1>2, <1>3 DEF Covers, rest

\* The failures may drop their oldest ones when these have expired.
LEMMA CoversFewerFailures ==
  ASSUME NEW f \in Seq(Ages), NEW g \in Seq(Ages), Covers(f, g), NEW k \in 0 .. Len(f),
         \A j \in 1 .. k : f[j] >= Window
  PROVE  Covers(SubSeq(f, k + 1, Len(f)), g)
<1> DEFINE rest == SubSeq(f, k + 1, Len(f))
<1>1. Len(rest) = Len(f) - k /\ \A i \in 1 .. Len(f) - k : rest[i] = f[i + k]
  BY WithoutFirst
<1> HIDE DEF rest
<1>2. ASSUME NEW i \in 0 .. Len(rest) - 1, i < Len(g)
      PROVE  rest[Len(rest) - i] = g[Len(g) - i]
  <2>1. rest[Len(rest) - i] = f[Len(f) - i]
    BY <1>1, <1>2
  <2>2. QED
    BY <1>1, <1>2, <2>1 DEF Covers
<1>3. ASSUME NEW j \in 1 .. Len(g), j <= Len(g) - Len(rest)
      PROVE  g[j] >= Window
  <2>1. CASE j <= Len(g) - Len(f)
    BY <2>1 DEF Covers
  <2>2. CASE j > Len(g) - Len(f)
    <3> DEFINE i == Len(g) - j
    <3>1. i \in 0 .. Len(f) - 1 /\ i < Len(g) /\ Len(f) - i \in 1 .. k
      BY <1>1, <1>3, <2>2
    <3>2. f[Len(f) - i] = g[Len(g) - i] /\ Len(g) - i = j
      BY <3>1 DEF Covers
    <3>3. QED
      BY <3>1, <3>2
  <2>3. QED
    BY <2>1, <2>2
<1>4. QED
  BY <1>2, <1>3 DEF Covers, rest

\* There are no more recent guesses than recorded failures.
LEMMA CoveredCount ==
  ASSUME NEW f \in Seq(Ages), NEW g \in Seq(Ages), Covers(f, g)
  PROVE  LET recent == {i \in DOMAIN g : g[i] < Window + 0} IN
         Cardinality(recent) \in Nat /\ Cardinality(recent) <= Len(f)
<1> DEFINE recent == {i \in DOMAIN g : g[i] < Window + 0}
           a == IF Len(g) > Len(f) THEN Len(g) - Len(f) + 1 ELSE 1
<1>1. a \in Int /\ Len(g) \in Int
  OBVIOUS
<1>2. IsFiniteSet(a .. Len(g)) /\ Cardinality(a .. Len(g)) <= Len(f)
  <2>1. (IF a > Len(g) THEN 0 ELSE Len(g) - a + 1) <= Len(f)
    OBVIOUS
  <2> HIDE DEF a
  <2>2. QED
    BY <1>1, <2>1, FS_Interval
<1>3. \A i \in 1 .. Len(g) : g[i] \in Int
  BY SeqElementInt
<1>4. recent \in SUBSET (a .. Len(g))
  <2> SUFFICES ASSUME NEW i \in 1 .. Len(g), g[i] < Window
               PROVE  i \in a .. Len(g)
    BY LimiterAssumption
  <2>1. ~(i <= Len(g) - Len(f))
    BY <1>3, LimiterAssumption DEF Covers
  <2>2. QED
    BY <2>1
<1> HIDE DEF recent, a
<1>5. Cardinality(recent) \in Nat /\ Cardinality(a .. Len(g)) \in Nat
  BY <1>2, <1>4, FS_Subset, FS_CardinalityType
<1>6. Cardinality(recent) <= Cardinality(a .. Len(g))
  BY <1>2, <1>4, FS_Subset
<1>7. QED
  BY <1>2, <1>5, <1>6 DEF recent

-----------------------------------------------------------------------------
(* What keeps the failures from outliving the guesses.                       *)

\* Older failures come first, and what f has beyond g has expired for every thread.
Ordered(f) == \A i, j \in 1 .. Len(f) : i <= j => f[j] <= f[i]
Outlives(f, g) == \A j \in 1 .. Len(f) : j <= Len(f) - Len(g) => f[j] >= MaxAge

Founded(f, g) == Ordered(f) /\ Outlives(f, g)

\* An invariant, together with IInv.
Records == \A c \in Clients : Founded(failures[c], guesses[c])

LEMMA FoundedAppend ==
  ASSUME NEW f \in Seq(Ages), NEW g \in Seq(Ages), Founded(f, g)
  PROVE  Founded(Append(f, 0), Append(g, 0))
<1> DEFINE ff == Append(f, 0)
           gg == Append(g, 0)
<1>1. /\ Len(ff) = Len(f) + 1 /\ ff[Len(f) + 1] = 0 /\ Len(gg) = Len(g) + 1
      /\ \A i \in 1 .. Len(f) : ff[i] = f[i]
  BY AgesType
<1>2. \A i \in 1 .. Len(f) : f[i] \in Int /\ f[i] >= 0
  <2>1. \A i \in 1 .. Len(f) : f[i] \in Ages
    OBVIOUS
  <2>2. \A n \in Ages : n \in Int /\ n >= 0
    BY AgesType DEF Ages
  <2>3. QED
    BY <2>1, <2>2
<1> HIDE DEF ff, gg
<1>3. Ordered(ff)
  <2> SUFFICES ASSUME NEW i \in 1 .. Len(ff), NEW j \in 1 .. Len(ff), i <= j
               PROVE  ff[j] <= ff[i]
    BY DEF Ordered
  <2>1. CASE j = Len(f) + 1
    BY <1>1, <1>2, <2>1
  <2>2. CASE j # Len(f) + 1
    <3>1. i \in 1 .. Len(f) /\ j \in 1 .. Len(f)
      BY <1>1, <2>2
    <3>2. QED
      BY <1>1, <3>1 DEF Founded, Ordered
  <2>3. QED
    BY <2>1, <2>2
<1>4. Outlives(ff, gg)
  <2> SUFFICES ASSUME NEW j \in 1 .. Len(ff), j <= Len(ff) - Len(gg)
               PROVE  ff[j] >= MaxAge
    BY DEF Outlives
  <2>1. Len(g) \in Nat /\ Len(f) \in Nat
    OBVIOUS
  <2>2. j \in 1 .. Len(f) \/ j = Len(f) + 1
    BY <1>1
  <2>3. j # Len(f) + 1
    BY <1>1, <2>1
  <2>4. QED
    BY <1>1, <2>1, <2>2, <2>3 DEF Founded, Outlives
<1>5. QED
  BY <1>3, <1>4 DEF Founded, ff, gg

LEMMA FoundedOlder ==
  ASSUME NEW f \in Seq(Ages), NEW g \in Seq(Ages), Founded(f, g)
  PROVE  Founded(Older(f), Older(g))
<1>1. /\ \A i \in 1 .. Len(f) : f[i] \in 0 .. MaxAge
      /\ MaxAge \in Nat
  BY AgesType DEF Ages
<1>2. /\ Len(Older(f)) = Len(f) /\ Len(Older(g)) = Len(g)
      /\ \A i \in 1 .. Len(f) :
            Older(f)[i] = IF f[i] < MaxAge THEN f[i] + 1 ELSE MaxAge
  BY OlderAges
<1>3. Ordered(Older(f))
  <2> SUFFICES ASSUME NEW i \in 1 .. Len(f), NEW j \in 1 .. Len(f), i <= j
               PROVE  Older(f)[j] <= Older(f)[i]
    BY <1>2 DEF Ordered
  <2>1. f[j] <= f[i]
    BY DEF Founded, Ordered
  <2>2. QED
    BY <1>1, <1>2, <2>1
<1>4. Outlives(Older(f), Older(g))
  BY <1>1, <1>2 DEF Founded, Outlives
<1>5. QED
  BY <1>3, <1>4 DEF Founded

\* The failures may drop any of their oldest ones.
LEMMA FoundedFewerFailures ==
  ASSUME NEW f \in Seq(Ages), NEW g \in Seq(Ages), Founded(f, g), NEW k \in 0 .. Len(f)
  PROVE  Founded(SubSeq(f, k + 1, Len(f)), g)
<1> DEFINE rest == SubSeq(f, k + 1, Len(f))
<1>1. Len(rest) = Len(f) - k /\ \A i \in 1 .. Len(f) - k : rest[i] = f[i + k]
  BY WithoutFirst
<1> HIDE DEF rest
<1>2. \A i \in 1 .. Len(rest) : i + k \in 1 .. Len(f)
  BY <1>1
<1>3. Ordered(rest)
  <2> SUFFICES ASSUME NEW i \in 1 .. Len(rest), NEW j \in 1 .. Len(rest), i <= j
               PROVE  rest[j] <= rest[i]
    BY DEF Ordered
  <2>1. f[j + k] <= f[i + k]
    <3>1. i + k \in 1 .. Len(f) /\ j + k \in 1 .. Len(f) /\ i + k <= j + k
      BY <1>2
    <3>2. QED
      BY <3>1 DEF Founded, Ordered
  <2>2. QED
    BY <1>1, <2>1
<1>4. Outlives(rest, g)
  <2> SUFFICES ASSUME NEW j \in 1 .. Len(rest), j <= Len(rest) - Len(g)
               PROVE  rest[j] >= MaxAge
    BY DEF Outlives
  <2>1. j + k \in 1 .. Len(f) /\ j + k <= Len(f) - Len(g)
    BY <1>1, <1>2
  <2>2. QED
    BY <1>1, <2>1 DEF Founded, Outlives
<1>5. QED
  BY <1>3, <1>4 DEF Founded, rest

\* The history may drop its oldest guesses when these have expired for every thread:
\* as long as they are recorded, the failures are as old.
LEMMA FoundedFewerGuesses ==
  ASSUME NEW f \in Seq(Ages), NEW g \in Seq(Ages), Covers(f, g), Founded(f, g),
         NEW k \in 0 .. Len(g), \A j \in 1 .. k : g[j] >= MaxAge
  PROVE  Founded(f, SubSeq(g, k + 1, Len(g)))
<1> DEFINE rest == SubSeq(g, k + 1, Len(g))
<1>1. Len(rest) = Len(g) - k
  BY WithoutFirst
<1> HIDE DEF rest
<1>2. ASSUME NEW j \in 1 .. Len(f), j <= Len(f) - Len(rest)
      PROVE  f[j] >= MaxAge
  <2>1. CASE j <= Len(f) - Len(g)
    BY <2>1 DEF Founded, Outlives
  <2>2. CASE j > Len(f) - Len(g)
    <3> DEFINE i == Len(f) - j
    <3>1. i \in 0 .. Len(f) - 1 /\ i < Len(g) /\ Len(g) - i \in 1 .. k /\ Len(f) - i = j
      BY <1>1, <1>2, <2>2
    <3>2. f[Len(f) - i] = g[Len(g) - i]
      BY <3>1 DEF Covers
    <3>3. QED
      BY <3>1, <3>2
  <2>3. QED
    BY <2>1, <2>2
<1>3. QED
  BY <1>2 DEF Founded, Outlives, rest

\* What is left of the failures when those from before old are dropped are guesses that
\* are younger than that.
LEMMA KeptAreGuesses ==
  ASSUME NEW f \in Seq(Ages), NEW g \in Seq(Ages), Covers(f, g), Founded(f, g),
         NEW old \in Int, old <= MaxAge
  PROVE  LET young == {i \in DOMAIN g : g[i] < old} IN
         /\ Cardinality(young) \in Nat
         /\ Len(DropOld(f, old)) \in Nat /\ Len(DropOld(f, old)) <= Cardinality(young)
<1> DEFINE young == {i \in DOMAIN g : g[i] < old}
<1>1. PICK k \in 0 .. Len(f) : /\ DropOld(f, old) = SubSeq(f, k + 1, Len(f))
                               /\ k < Len(f) => f[k + 1] < old
  BY DropOldDrops
<1>2. Len(DropOld(f, old)) = Len(f) - k
  BY <1>1, WithoutFirst
<1> DEFINE a == Len(g) - (Len(f) - k) + 1
<1>3. \A j \in 1 .. Len(f) : j > k => f[j] < old /\ f[j] < MaxAge /\ f[j] \in Int
  <2> SUFFICES ASSUME NEW j \in 1 .. Len(f), j > k
               PROVE  f[j] < old /\ f[j] < MaxAge /\ f[j] \in Int
    OBVIOUS
  <2>1. k + 1 \in 1 .. Len(f) /\ k + 1 <= j
    OBVIOUS
  <2>2. f[j] <= f[k + 1]
    BY <2>1 DEF Founded, Ordered
  <2>3. f[j] \in Int /\ f[k + 1] \in Int /\ MaxAge \in Int
    BY <2>1, SeqElementInt, AgesType
  <2>4. QED
    BY <1>1, <2>1, <2>2, <2>3
<1>4. \A j \in 1 .. Len(f) : j > k => j > Len(f) - Len(g)
  BY <1>3, AgesType DEF Founded, Outlives
<1>5. a >= 1
  <2>1. CASE k = Len(f)
    BY <2>1
  <2>2. CASE k < Len(f)
    <3>1. k + 1 \in 1 .. Len(f)
      BY <2>2
    <3>2. k + 1 > Len(f) - Len(g)
      BY <1>4, <3>1
    <3>3. QED
      BY <3>2
  <2>3. QED
    BY <2>1, <2>2
<1>6. a .. Len(g) \in SUBSET young
  <2> SUFFICES ASSUME NEW n \in a .. Len(g)
               PROVE  n \in DOMAIN g /\ g[n] < old
    OBVIOUS
  <2> DEFINE i == Len(g) - n
  <2>1. n \in 1 .. Len(g) /\ n \in DOMAIN g
    BY <1>5
  <2>2. i \in 0 .. Len(f) - 1 /\ i < Len(g) /\ Len(f) - i \in 1 .. Len(f) /\ Len(f) - i > k
    BY <2>1
  <2>3. f[Len(f) - i] = g[Len(g) - i] /\ Len(g) - i = n
    BY <2>2 DEF Covers
  <2>4. f[Len(f) - i] < old
    BY <1>3, <2>2
  <2>5. QED
    BY <2>1, <2>3, <2>4
<1>7. young \in SUBSET (1 .. Len(g)) /\ IsFiniteSet(1 .. Len(g))
  BY FS_Interval
<1>8. IsFiniteSet(young) /\ Cardinality(young) \in Nat
  BY <1>7, FS_Subset, FS_CardinalityType
<1>9. Cardinality(a .. Len(g)) = Len(f) - k
  <2>1. a \in Int /\ Len(g) \in Int
    OBVIOUS
  <2>2. (IF a > Len(g) THEN 0 ELSE Len(g) - a + 1) = Len(f) - k
    OBVIOUS
  <2> HIDE DEF a
  <2>3. QED
    BY <2>1, <2>2, FS_Interval
<1> HIDE DEF a, young
<1>10. Cardinality(a .. Len(g)) <= Cardinality(young)
  BY <1>6, <1>8, FS_Subset
<1>11. QED
  BY <1>2, <1>8, <1>9, <1>10 DEF young

-----------------------------------------------------------------------------
(* The attempts in progress.                                                 *)

LEMMA InFlightFinite ==
  ASSUME NEW c
  PROVE  IsFiniteSet(InFlight(c)) /\ Cardinality(InFlight(c)) \in Nat
<1>1. InFlight(c) \in SUBSET Threads
  BY DEF InFlight
<1>2. QED
  BY <1>1, ThreadsAssumption, FS_Subset, FS_CardinalityType

\* A thread that starts to check a password.
LEMMA InFlightEnters ==
  ASSUME Types, NEW t \in Threads, NEW c \in Clients, threads[t].at # "checking",
         threads' = [threads EXCEPT ![t] = [at |-> "checking", client |-> c]]
  PROVE  /\ Cardinality(InFlight(c))' = Cardinality(InFlight(c)) + 1
         /\ \A d \in Clients : d # c => InFlight(d)' = InFlight(d)
<1>1. InFlight(c)' = InFlight(c) \cup {t} /\ t \notin InFlight(c)
  BY DEF InFlight, Checking, Types
<1>2. \A d \in Clients : d # c => InFlight(d)' = InFlight(d)
  BY DEF InFlight, Checking, Types
<1>3. QED
  BY <1>1, <1>2, InFlightFinite, FS_AddElement

LEMMA InFlightLeaves ==
  ASSUME Types, NEW t \in Threads, NEW c \in Clients, Checking(t, c),
         threads' = [threads EXCEPT ![t] = Idle]
  PROVE  /\ Cardinality(InFlight(c))' = Cardinality(InFlight(c)) - 1
         /\ \A d \in Clients : d # c => InFlight(d)' = InFlight(d)
<1>1. InFlight(c)' = InFlight(c) \ {t} /\ t \in InFlight(c)
  BY DEF InFlight, Checking, Types, Idle
<1>2. \A d \in Clients : d # c => InFlight(d)' = InFlight(d)
  BY DEF InFlight, Checking, Types, Idle
<1>3. QED
  BY <1>1, <1>2, InFlightFinite, FS_RemoveElement

\* A thread that does something else.
LEMMA InFlightStays ==
  ASSUME Types, NEW t \in Threads, threads[t].at # "checking", NEW job, job.at # "checking",
         threads' = [threads EXCEPT ![t] = job]
  PROVE  \A d \in Clients : InFlight(d)' = InFlight(d)
BY DEF InFlight, Checking, Types

LEMMA WaitingJob ==
  ASSUME Types, NEW t \in Threads, Waiting(t)
  PROVE  threads[t].client \in Clients /\ threads[t].waited \in 0 .. MaxWait
BY DEF Types, Jobs, Waiting, Idle

LEMMA KeptCovers ==
  ASSUME Types, NEW t \in Threads, Waiting(t), NEW g \in Seq(Ages),
         Covers(failures[threads[t].client], g)
  PROVE  LET kept == Kept(failures[threads[t].client], threads[t].waited) IN
         /\ kept \in Seq(Ages) /\ Len(kept) <= Len(failures[threads[t].client])
         /\ Covers(kept, g)
<1> DEFINE f == failures[threads[t].client]
           old == Window + threads[t].waited
<1>1. f \in Seq(Ages) /\ old \in Int /\ old >= Window
  BY WaitingJob, LimiterAssumption DEF Types
<1>2. Kept(f, threads[t].waited) = DropOld(f, old)
  BY DEF Kept
<1> HIDE DEF f, old
<1>3. PICK k \in 0 .. Len(f) : /\ DropOld(f, old) = SubSeq(f, k + 1, Len(f))
                               /\ \A j \in 1 .. k : f[j] >= old
  BY <1>1, DropOldDrops
<1>4. \A j \in 1 .. k : f[j] >= Window
  <2>1. \A j \in 1 .. k : f[j] \in Int
    BY <1>1, SeqElementInt
  <2>2. Window \in Int
    BY LimiterAssumption
  <2>3. QED
    BY <1>1, <1>3, <2>1, <2>2
<1>5. Covers(SubSeq(f, k + 1, Len(f)), g)
  BY <1>1, <1>4, CoversFewerFailures DEF f
<1>6. SubSeq(f, k + 1, Len(f)) \in Seq(Ages) /\ Len(SubSeq(f, k + 1, Len(f))) <= Len(f)
  BY <1>1, WithoutFirst
<1>7. QED
  BY <1>2, <1>3, <1>5, <1>6 DEF f
-----------------------------------------------------------------------------
(* Each step keeps the invariant.                                            *)

LEMMA ReadClockKeeps ==
  ASSUME IInv, NEW t \in Threads, NEW c \in Clients, ReadClock(t, c)
  PROVE  IInv'
<1> DEFINE job == [at |-> "waiting", client |-> c, waited |-> 0]
<1>1. job \in Jobs /\ job.at # "checking" /\ threads[t].at # "checking"
  BY LimiterAssumption DEF Jobs, ReadClock, Idle
<1>2. threads' = [threads EXCEPT ![t] = job]
  BY DEF ReadClock
<1>3. Types /\ UNCHANGED <<failures, pending, guesses>>
  BY DEF ReadClock, IInv
<1> HIDE DEF job
<1>4. Types'
  BY <1>1, <1>2, <1>3 DEF Types
<1>5. \A d \in Clients : InFlight(d)' = InFlight(d)
  BY <1>1, <1>2, <1>3, InFlightStays
<1>6. QED
  BY <1>3, <1>4, <1>5 DEF IInv, PendingExact

LEMMA ReserveKeeps ==
  ASSUME IInv, NEW t \in Threads, Reserve(t)
  PROVE  IInv'
<1>1. PICK c \in Clients : c = threads[t].client /\ Waiting(t) /\ Types
  BY WaitingJob DEF Reserve, IInv
<1> DEFINE kept == Kept(failures[c], threads[t].waited)
           job == [at |-> "checking", client |-> c]
<1>2. /\ Len(kept) + pending[c] < Limit
      /\ failures' = [failures EXCEPT ![c] = kept]
      /\ pending' = [pending EXCEPT ![c] = pending[c] + 1]
      /\ threads' = [threads EXCEPT ![t] = job]
      /\ guesses' = guesses
  BY <1>1 DEF Reserve, MayTry
<1>3. kept \in Seq(Ages) /\ Covers(kept, guesses[c])
  BY <1>1, KeptCovers DEF IInv, Types
<1>4. job \in Jobs /\ threads[t].at # "checking"
  BY <1>1 DEF Jobs, Waiting
<1>5. /\ Cardinality(InFlight(c))' = Cardinality(InFlight(c)) + 1
      /\ \A d \in Clients : d # c => InFlight(d)' = InFlight(d)
  BY <1>1, <1>2, <1>4, InFlightEnters
<1> HIDE DEF job, kept
<1>6. Types'
  BY <1>1, <1>2, <1>3, <1>4 DEF Types
<1>7. \A d \in Clients : Len(failures'[d]) + pending'[d] <= Limit
  BY <1>1, <1>2, <1>3, LimiterAssumption DEF IInv, Types
<1>8. \A d \in Clients : Covers(failures'[d], guesses'[d])
  BY <1>1, <1>2, <1>3 DEF IInv, Types
<1>9. PendingExact'
  BY <1>1, <1>2, <1>5 DEF IInv, Types, PendingExact
<1>10. QED
  BY <1>6, <1>7, <1>8, <1>9 DEF IInv

LEMMA DenyKeeps ==
  ASSUME IInv, NEW t \in Threads, Deny(t)
  PROVE  IInv'
<1>1. PICK c \in Clients : c = threads[t].client /\ Waiting(t) /\ Types
  BY WaitingJob DEF Deny, IInv
<1> DEFINE kept == Kept(failures[c], threads[t].waited)
<1>2. /\ failures' = [failures EXCEPT ![c] = kept]
      /\ threads' = [threads EXCEPT ![t] = Idle]
      /\ UNCHANGED <<pending, guesses>>
  BY <1>1 DEF Deny
<1>3. kept \in Seq(Ages) /\ Len(kept) <= Len(failures[c]) /\ Covers(kept, guesses[c])
  BY <1>1, KeptCovers DEF IInv, Types
<1>4. Idle \in Jobs /\ Idle.at # "checking" /\ threads[t].at # "checking"
  BY <1>1 DEF Jobs, Waiting, Idle
<1>5. \A d \in Clients : InFlight(d)' = InFlight(d)
  BY <1>1, <1>2, <1>4, InFlightStays
<1> HIDE DEF kept
<1>6. Types'
  BY <1>1, <1>2, <1>3, <1>4 DEF Types
<1>7. \A d \in Clients : Len(failures'[d]) + pending'[d] <= Limit
  BY <1>1, <1>2, <1>3, LimiterAssumption DEF IInv, Types
<1>8. \A d \in Clients : Covers(failures'[d], guesses'[d])
  BY <1>1, <1>2, <1>3 DEF IInv, Types
<1>9. PendingExact'
  BY <1>2, <1>5 DEF IInv, PendingExact
<1>10. QED
  BY <1>6, <1>7, <1>8, <1>9 DEF IInv

\* An attempt ends: its failures and guesses become f and g.
LEMMA SettleKeeps ==
  ASSUME IInv, NEW t \in Threads, NEW c \in Clients, Settle(t, c),
         NEW f \in Seq(Ages), NEW g \in Seq(Ages), Covers(f, g),
         Len(f) <= Len(failures[c]) + 1,
         failures' = [failures EXCEPT ![c] = f], guesses' = [guesses EXCEPT ![c] = g]
  PROVE  IInv'
<1>1. Types /\ Checking(t, c)
  BY DEF Settle, IInv
<1>2. /\ pending' = [pending EXCEPT ![c] = pending[c] - 1]
      /\ threads' = [threads EXCEPT ![t] = Idle]
  BY DEF Settle
<1>3. /\ Cardinality(InFlight(c))' = Cardinality(InFlight(c)) - 1
      /\ \A d \in Clients : d # c => InFlight(d)' = InFlight(d)
  BY <1>1, <1>2, InFlightLeaves
<1>4. Types'
  BY <1>1, <1>2 DEF Types, Jobs
<1>5. \A d \in Clients : Len(failures'[d]) + pending'[d] <= Limit
  BY <1>1, <1>2, LimiterAssumption DEF IInv, Types
<1>6. \A d \in Clients : Covers(failures'[d], guesses'[d])
  BY <1>1 DEF IInv, Types
<1>7. PendingExact'
  BY <1>1, <1>2, <1>3 DEF IInv, Types, PendingExact
<1>8. QED
  BY <1>4, <1>5, <1>6, <1>7 DEF IInv

LEMMA RejectKeeps ==
  ASSUME IInv, NEW t \in Threads, NEW c \in Clients, Reject(t, c)
  PROVE  IInv'
<1> DEFINE f == Append(failures[c], 0)
           g == Append(guesses[c], 0)
<1>1. failures[c] \in Seq(Ages) /\ guesses[c] \in Seq(Ages) /\ Covers(failures[c], guesses[c])
  BY DEF IInv, Types
<1>2. Covers(f, g)
  BY <1>1, CoversAppend
<1>3. f \in Seq(Ages) /\ g \in Seq(Ages) /\ Len(f) <= Len(failures[c]) + 1
  BY <1>1, AgesType
<1>4. /\ Settle(t, c) /\ failures' = [failures EXCEPT ![c] = f]
      /\ guesses' = [guesses EXCEPT ![c] = g]
  BY DEF Reject
<1> HIDE DEF f, g
<1>5. QED
  BY <1>2, <1>3, <1>4, SettleKeeps

LEMMA AdmitKeeps ==
  ASSUME IInv, NEW t \in Threads, NEW c \in Clients, Admit(t, c)
  PROVE  IInv'
<1>1. Covers(<<>>, <<>>) /\ <<>> \in Seq(Ages)
  BY DEF Covers
<1>2. failures[c] \in Seq(Ages) /\ Len(<<>>) <= Len(failures[c]) + 1
  BY DEF IInv, Types
<1>3. /\ Settle(t, c) /\ failures' = [failures EXCEPT ![c] = <<>>]
      /\ guesses' = [guesses EXCEPT ![c] = <<>>]
  BY DEF Admit
<1>4. QED
  BY <1>1, <1>2, <1>3, SettleKeeps

LEMMA RaiseKeeps ==
  ASSUME IInv, NEW t \in Threads, NEW c \in Clients, Raise(t, c)
  PROVE  IInv'
<1>1. failures[c] \in Seq(Ages) /\ guesses[c] \in Seq(Ages) /\ Covers(failures[c], guesses[c])
  BY DEF IInv, Types
<1>2. /\ Settle(t, c) /\ failures' = [failures EXCEPT ![c] = failures[c]]
      /\ guesses' = [guesses EXCEPT ![c] = guesses[c]]
  BY DEF Raise, IInv, Types
<1>3. Len(failures[c]) <= Len(failures[c]) + 1
  BY <1>1
<1>4. QED
  BY <1>1, <1>2, <1>3, SettleKeeps

LEMMA TickKeeps ==
  ASSUME IInv, Tick
  PROVE  IInv'
<1>1. ASSUME NEW c \in Clients
      PROVE  /\ failures'[c] \in Seq(Ages) /\ Len(failures'[c]) = Len(failures[c])
             /\ guesses'[c] \in Seq(Ages) /\ Covers(failures'[c], guesses'[c])
  <2> DEFINE f == Older(failures[c])
             g == Older(guesses[c])
  <2>1. failures[c] \in Seq(Ages) /\ guesses[c] \in Seq(Ages)
        /\ Covers(failures[c], guesses[c])
    BY DEF IInv, Types
  <2>2. /\ f \in Seq(Ages) /\ g \in Seq(Ages) /\ Covers(f, g)
        /\ Len(f) = Len(failures[c])
    BY <2>1, OlderAges, CoversOlder
  <2>3. failures'[c] = f /\ guesses'[c] = DropOld(g, MaxAge)
    BY DEF Tick, Recent
  <2> HIDE DEF f, g
  <2>4. PICK k \in 0 .. Len(g) : /\ DropOld(g, MaxAge) = SubSeq(g, k + 1, Len(g))
                                 /\ \A j \in 1 .. k : g[j] >= MaxAge
    <3>1. MaxAge \in Int
      BY AgesType
    <3>2. QED
      BY <2>2, <3>1, DropOldDrops
  <2>5. SubSeq(g, k + 1, Len(g)) \in Seq(Ages) /\ Covers(f, SubSeq(g, k + 1, Len(g)))
    BY <2>2, WithoutFirst, CoversFewerGuesses
  <2>6. QED
    BY <2>2, <2>3, <2>4, <2>5
<1>2. ASSUME NEW t \in Threads
      PROVE  /\ threads'[t] \in Jobs
             /\ \A c \in Clients : Checking(t, c)' <=> Checking(t, c)
  <2>1. threads[t] \in Jobs
    BY DEF IInv, Types
  <2>2. CASE Waiting(t)
    <3>1. /\ threads'[t] = [threads[t] EXCEPT !.waited = threads[t].waited + 1]
          /\ threads[t].waited < MaxWait
      BY <2>2 DEF Tick
    <3>2. threads[t] \in [at : {"waiting"}, client : Clients, waited : 0 .. MaxWait]
      BY <2>1, <2>2 DEF Jobs, Waiting, Idle
    <3>3. threads'[t] \in [at : {"waiting"}, client : Clients, waited : 0 .. MaxWait]
      BY <3>1, <3>2, LimiterAssumption
    <3>4. QED
      BY <3>2, <3>3 DEF Jobs, Checking
  <2>3. CASE ~Waiting(t)
    BY <2>1, <2>3 DEF Tick, Checking
  <2>4. QED
    BY <2>2, <2>3
<1>3. /\ failures' = [c \in Clients |-> failures'[c]] /\ guesses' = [c \in Clients |-> guesses'[c]]
      /\ threads' = [t \in Threads |-> threads'[t]] /\ pending' = pending
  BY DEF Tick
<1>4. Types'
  BY <1>1, <1>2, <1>3 DEF Types, IInv
<1>5. \A c \in Clients : InFlight(c)' = InFlight(c)
  BY <1>2 DEF InFlight
<1>6. QED
  BY <1>1, <1>3, <1>4, <1>5 DEF IInv, PendingExact

LEMMA KeptFounded ==
  ASSUME Types, Records, NEW t \in Threads, Waiting(t)
  PROVE  LET c == threads[t].client IN
         Founded(Kept(failures[c], threads[t].waited), guesses[c])
<1> DEFINE c == threads[t].client
           f == failures[c]
           old == Window + threads[t].waited
<1>1. /\ f \in Seq(Ages) /\ guesses[c] \in Seq(Ages) /\ old \in Int
      /\ Founded(f, guesses[c])
  BY WaitingJob, LimiterAssumption DEF Types, Records
<1>2. Kept(f, threads[t].waited) = DropOld(f, old)
  BY DEF Kept
<1> HIDE DEF f, old
<1>3. PICK k \in 0 .. Len(f) : DropOld(f, old) = SubSeq(f, k + 1, Len(f))
  BY <1>1, DropOldDrops
<1>4. Founded(SubSeq(f, k + 1, Len(f)), guesses[c])
  BY <1>1, FoundedFewerFailures
<1>5. QED
  BY <1>2, <1>3, <1>4 DEF f

LEMMA NextRecords ==
  ASSUME IInv, Records, [Next]_vars
  PROVE  Records'
<1>1. /\ Types
      /\ \A c \in Clients : failures[c] \in Seq(Ages) /\ guesses[c] \in Seq(Ages)
  BY DEF IInv, Types
<1>2. ASSUME NEW t \in Threads, Reserve(t) \/ Deny(t)
      PROVE  Records'
  <2> DEFINE c == threads[t].client
             kept == Kept(failures[c], threads[t].waited)
  <2>1. Waiting(t) /\ failures' = [failures EXCEPT ![c] = kept] /\ guesses' = guesses
    BY <1>2 DEF Reserve, Deny
  <2>2. Founded(kept, guesses[c])
    BY <1>1, <2>1, KeptFounded
  <2> HIDE DEF kept
  <2>3. QED
    BY <1>1, <2>1, <2>2 DEF Records, Types
<1>3. ASSUME NEW t \in Threads, NEW c \in Clients, Reject(t, c)
      PROVE  Records'
  <2>1. Founded(Append(failures[c], 0), Append(guesses[c], 0))
    BY <1>1, FoundedAppend DEF Records
  <2>2. /\ failures' = [failures EXCEPT ![c] = Append(failures[c], 0)]
        /\ guesses' = [guesses EXCEPT ![c] = Append(guesses[c], 0)]
    BY <1>3 DEF Reject
  <2>3. QED
    BY <1>1, <2>1, <2>2 DEF Records, Types
<1>4. ASSUME NEW t \in Threads, NEW c \in Clients, Admit(t, c)
      PROVE  Records'
  <2>1. Founded(<<>>, <<>>)
    BY DEF Founded, Ordered, Outlives
  <2>2. QED
    BY <1>1, <1>4, <2>1 DEF Admit, Records, Types
<1>5. ASSUME UNCHANGED <<failures, guesses>>
      PROVE  Records'
  BY <1>5 DEF Records
<1>6. CASE Tick
  <2> SUFFICES ASSUME NEW c \in Clients
               PROVE  Founded(failures'[c], guesses'[c])
    BY DEF Records
  <2> DEFINE f == Older(failures[c])
             g == Older(guesses[c])
  <2>1. /\ f \in Seq(Ages) /\ g \in Seq(Ages) /\ Covers(f, g) /\ Founded(f, g)
    BY <1>1, OlderAges, CoversOlder, FoundedOlder DEF IInv, Records
  <2>2. failures'[c] = f /\ guesses'[c] = DropOld(g, MaxAge)
    BY <1>6 DEF Tick, Recent
  <2> HIDE DEF f, g
  <2>3. PICK k \in 0 .. Len(g) : /\ DropOld(g, MaxAge) = SubSeq(g, k + 1, Len(g))
                                 /\ \A j \in 1 .. k : g[j] >= MaxAge
    <3>1. MaxAge \in Int
      BY AgesType
    <3>2. QED
      BY <2>1, <3>1, DropOldDrops
  <2>4. QED
    BY <2>1, <2>2, <2>3, FoundedFewerGuesses
<1>7. ASSUME NEW t \in Threads, NEW c \in Clients, ReadClock(t, c) \/ Raise(t, c)
      PROVE  UNCHANGED <<failures, guesses>>
  BY <1>7 DEF ReadClock, Raise
<1>8. QED
  BY <1>2, <1>3, <1>4, <1>5, <1>6, <1>7 DEF Next, vars

\* A thread that was waiting and is idle again was refused.
LEMMA OnlyDeny ==
  ASSUME Types, NEW t \in Threads, Waiting(t), threads'[t] = Idle, [Next]_vars
  PROVE  Deny(t)
<1>1. threads[t] # Idle /\ threads[t].at = "waiting"
  BY DEF Waiting, Idle
<1>2. ASSUME NEW u \in Threads, Reserve(u)
      PROVE  FALSE
  <2>1. /\ threads' = [threads EXCEPT ![u] = [at |-> "checking", client |-> threads[u].client]]
        /\ threads \in [Threads -> Jobs]
    BY <1>2 DEF Reserve, Types
  <2>2. QED
    BY <1>1, <2>1 DEF Idle
<1>3. ASSUME NEW u \in Threads, Deny(u), u # t
      PROVE  FALSE
  BY <1>1, <1>3 DEF Deny, Types
<1>4. ASSUME NEW u \in Threads, NEW c \in Clients, ReadClock(u, c)
      PROVE  FALSE
  BY <1>1, <1>4 DEF ReadClock, Types
<1>5. ASSUME NEW u \in Threads, NEW c \in Clients, Settle(u, c)
      PROVE  FALSE
  BY <1>1, <1>5 DEF Settle, Checking, Types
<1>6. CASE Tick
  <2>1. threads'[t] = [threads[t] EXCEPT !.waited = threads[t].waited + 1]
    BY <1>6 DEF Tick
  <2>2. threads[t] \in [at : {"waiting"}, client : Clients, waited : 0 .. MaxWait]
    BY <1>1 DEF Types, Jobs, Idle
  <2>3. threads'[t].at = "waiting"
    BY <2>1, <2>2
  <2>4. QED
    BY <2>3 DEF Idle
<1>7. CASE UNCHANGED vars
  BY <1>1, <1>7 DEF vars
<1>8. QED
  BY <1>2, <1>3, <1>4, <1>5, <1>6, <1>7 DEF Next, Reject, Admit, Raise

LEMMA DeniedIsSpent ==
  ASSUME IInv, Records, NEW t \in Threads, Deny(t)
  PROVE  LET c == threads[t].client IN
         GuessesWithin(c, threads[t].waited) + Cardinality(InFlight(c)) >= Limit
<1> DEFINE c == threads[t].client
           f == failures[c]
           g == guesses[c]
           old == Window + threads[t].waited
<1>1. Waiting(t) /\ Types
  BY DEF Deny, IInv
<1>2. c \in Clients /\ threads[t].waited \in 0 .. MaxWait
  BY <1>1, WaitingJob
<1>3. /\ f \in Seq(Ages) /\ g \in Seq(Ages) /\ Covers(f, g) /\ Founded(f, g)
      /\ pending[c] = Cardinality(InFlight(c)) /\ Cardinality(InFlight(c)) \in Nat
  BY <1>1, <1>2, InFlightFinite DEF IInv, Types, Records, PendingExact
<1>4. ~(Len(DropOld(f, old)) + pending[c] < Limit)
  BY DEF Deny, MayTry, Kept
<1>5. old \in Int /\ old <= MaxAge
  BY <1>2, LimiterAssumption DEF MaxAge
<1>6. GuessesWithin(c, threads[t].waited) = Cardinality({i \in DOMAIN g : g[i] < old})
  BY DEF GuessesWithin
<1> HIDE DEF f, g, old, c
<1>7. /\ Cardinality({i \in DOMAIN g : g[i] < old}) \in Nat
      /\ Len(DropOld(f, old)) \in Nat
      /\ Len(DropOld(f, old)) <= Cardinality({i \in DOMAIN g : g[i] < old})
  BY <1>3, <1>5, KeptAreGuesses
<1>8. GuessesWithin(c, threads[t].waited) + Cardinality(InFlight(c)) >= Limit
  BY <1>3, <1>4, <1>6, <1>7, LimiterAssumption
<1>9. QED
  BY <1>8 DEF c

-----------------------------------------------------------------------------
(* The theorems.                                                             *)

\* IInv is an inductive invariant of LoginRateLimiter.
THEOREM Invariance == Spec => []IInv
<1>1. Init => IInv
  <2> SUFFICES ASSUME Init PROVE IInv
    OBVIOUS
  <2>1. Types
    BY LimiterAssumption DEF Init, Types, Jobs
  <2>2. \A c \in Clients : failures[c] = <<>> /\ guesses[c] = <<>> /\ pending[c] = 0
    BY DEF Init
  <2>3. \A c \in Clients : InFlight(c) = {}
    BY DEF Init, InFlight, Checking, Idle
  <2>4. PendingExact
    BY <2>2, <2>3, FS_EmptySet DEF PendingExact
  <2>5. Covers(<<>>, <<>>)
    BY DEF Covers
  <2>6. QED
    BY <2>1, <2>2, <2>4, <2>5, LimiterAssumption DEF IInv
<1>2. IInv /\ [Next]_vars => IInv'
  <2> SUFFICES ASSUME IInv, [Next]_vars
               PROVE  IInv'
    OBVIOUS
  <2>1. ASSUME UNCHANGED vars
        PROVE  IInv'
    BY <2>1 DEF IInv, Types, PendingExact, InFlight, Checking, vars
  <2>2. QED
    BY <2>1, ReadClockKeeps, ReserveKeeps, DenyKeeps, RejectKeeps, AdmitKeeps, RaiseKeeps,
       TickKeeps DEF Next
<1>3. QED
  BY <1>1, <1>2, PTL DEF Spec

\* The limiter's table keeps its type; no counter goes below zero.
THEOREM TypeCorrect == Spec => []TypeOK
<1>1. IInv => TypeOK
  <2> SUFFICES ASSUME IInv PROVE TypeOK
    OBVIOUS
  <2>1. ASSUME NEW c \in Clients
        PROVE  pending[c] \in 0 .. Limit
    <3>1. failures[c] \in Seq(Ages) /\ pending[c] \in Int /\ pending[c] >= 0
      BY InFlightFinite DEF IInv, Types, PendingExact
    <3>2. QED
      BY <3>1, LimiterAssumption DEF IInv
  <2>2. QED
    BY <2>1 DEF IInv, Types, TypeOK
<1>2. QED
  BY <1>1, Invariance, PTL

\* However many threads serve logins, at most Limit guesses of a client fall in
\* one window: try_acquire reserves an attempt before its password is checked.
THEOREM GuessLimit == Spec => []GuessesBounded
<1>1. IInv => GuessesBounded
  <2> SUFFICES ASSUME IInv, NEW c \in Clients
               PROVE  GuessesWithin(c, 0) + Cardinality(InFlight(c)) <= Limit
    BY DEF GuessesBounded
  <2>1. failures[c] \in Seq(Ages) /\ guesses[c] \in Seq(Ages) /\ Covers(failures[c], guesses[c])
    BY DEF IInv, Types
  <2>2. GuessesWithin(c, 0) \in Nat /\ GuessesWithin(c, 0) <= Len(failures[c])
    BY <2>1, CoveredCount DEF GuessesWithin
  <2>3. pending[c] = Cardinality(InFlight(c)) /\ Cardinality(InFlight(c)) \in Nat
    BY InFlightFinite DEF IInv, PendingExact
  <2>4. QED
    BY <2>1, <2>2, <2>3, LimiterAssumption DEF IInv
<1>2. QED
  BY <1>1, Invariance, PTL

\* A reservation is one attempt in progress, whatever the attempt raises.
THEOREM ReservationsExact == Spec => []PendingExact
<1>1. IInv => PendingExact
  BY DEF IInv
<1>2. QED
  BY <1>1, Invariance, PTL
\* No client is refused without cause: when a login is refused, the wrong guesses of the
\* client within one window before the thread read the clock, or since, and the attempts
\* in progress reach the limit; failures that expired, or that a success cleared, and
\* reservations that ended do not count (try_acquire, clear, __exit__).
THEOREM RefusalsHaveCause == Spec => DenialsJustified
<1>1. Init => Records
  BY DEF Init, Records, Founded, Ordered, Outlives
<1>2. IInv /\ Records /\ [Next]_vars => Records'
  BY NextRecords
<1>3. IInv /\ Records /\ [Next]_vars =>
        [\A t \in Threads : Waiting(t) /\ threads'[t] = Idle =>
            LET c == threads[t].client IN
            GuessesWithin(c, threads[t].waited) + Cardinality(InFlight(c)) >= Limit]_vars
  BY OnlyDeny, DeniedIsSpent DEF IInv
<1>4. QED
  BY <1>1, <1>2, <1>3, Invariance, PTL DEF Spec, DenialsJustified
=============================================================================
