----------------------------- MODULE CountProofs -----------------------------
(***************************************************************************)
(* TotalIsWritten and NothingCountedTwice for every number of processes,   *)
(* threads, descriptors and files.  The lemmas go from how far one file    *)
(* state has reached to the sums over tables and descriptions, and to what *)
(* each step adds to both.                                                 *)
(***************************************************************************)
EXTENDS AccountingCounts, PositionProofs

------------------------------------------------------------------------------
(* How far a file state has reached *)

LEMMA MaxIsOf ==
  ASSUME NEW S \in SUBSET Nat, IsFiniteSet(S), S # {}
  PROVE  Max(S) \in S /\ Max(S) \in Nat /\ \A x \in S : x <= Max(S)
<1> DEFINE P == {C \in SUBSET S : C = {} \/ \E m \in C : \A x \in C : x <= m}
<1>1. {} \in P
  OBVIOUS
<1>2. ASSUME NEW C \in P, NEW y \in S \ C PROVE C \cup {y} \in P
  <2>1. C \in SUBSET S /\ (C = {} \/ \E m \in C : \A x \in C : x <= m)
    OBVIOUS
  <2>2. \A x \in C \cup {y} : x \in Nat
    BY <2>1
  <2>3. \E m \in C \cup {y} : \A x \in C \cup {y} : x <= m
    <3>1. CASE C = {}
      BY <2>2, <3>1
    <3>2. CASE C # {}
      <4>1. PICK m \in C : \A x \in C : x <= m
        BY <2>1, <3>2
      <4>2. CASE y <= m
        BY <4>1, <4>2
      <4>3. CASE ~(y <= m)
        BY <2>2, <4>1, <4>3
      <4> QED  BY <4>2, <4>3
    <3> QED  BY <3>1, <3>2
  <2> QED  BY <2>1, <2>3
<1>3. S \in P
  <2>1. P \in SUBSET (SUBSET S)
    OBVIOUS
  <2> HIDE DEF P
  <2> QED  BY <1>1, <1>2, <2>1, SetInduction
<1>4. \E m \in S : \A x \in S : m >= x
  <2>1. PICK m \in S : \A x \in S : x <= m
    BY <1>3
  <2> QED  BY <2>1
<1>5. Max(S) \in S /\ \A x \in S : Max(S) >= x
  BY <1>4 DEF Max
<1> QED  BY <1>5

LEMMA ImagesAreFinite ==
  ASSUME NEW S, IsFiniteSet(S), NEW h
  PROVE  IsFiniteSet({h[x] : x \in S})
<1> DEFINE T == {h[x] : x \in S}
           f == [x \in S |-> h[x]]
<1>1. f \in Surjection(S, T)
  BY DEF Surjection
<1> HIDE DEF f, T
<1>2. IsFiniteSet(T)
  BY <1>1, FS_Surjection
<1> QED  BY <1>2 DEF T

LEMMA LongerIs ==
  ASSUME NEW a \in Nat, NEW b \in Nat
  PROVE  /\ Longer(a, b) \in Nat /\ Longer(a, b) >= a /\ Longer(a, b) >= b
         /\ Longer(a, b) = a \/ Longer(a, b) = b
BY DEF Longer

Counting(file, n, ends) ==
  /\ file \in TFileState /\ n \in Nat /\ ends \in SUBSET Nat /\ IsFiniteSet(ends)

LEMMA ReachedIs ==
  ASSUME NEW file, NEW n, NEW ends, Counting(file, n, ends), NEW S, S = Reached(file, n, ends)
  PROVE  /\ S \in SUBSET Nat /\ Max(S) \in S /\ Max(S) \in Nat /\ \A x \in S : x <= Max(S)
         /\ file.InitSize \in Nat /\ file.MaxPos \in Nat /\ file.CurrPos \in Nat
         /\ Max(S) >= file.InitSize /\ Max(S) - file.InitSize \in Nat
         /\ Max(S) >= file.MaxPos
<1>1. file.InitSize \in Nat /\ file.MaxPos \in Nat /\ file.CurrPos \in Nat
  BY SizeModulusAssumption DEF Counting, TFileState, Size
<1> DEFINE A == {file.InitSize, file.MaxPos}
           B == {file.CurrPos + k : k \in 1 .. n}
<1>2. S = A \cup B \cup ends
  BY DEF Reached
<1>3. A \in SUBSET Nat /\ B \in SUBSET Nat /\ ends \in SUBSET Nat
  BY <1>1 DEF Counting
<1>4. IsFiniteSet(A) /\ IsFiniteSet(B)
  <2>1. IsFiniteSet({file.InitSize}) /\ IsFiniteSet({file.InitSize} \cup {file.MaxPos})
    BY FS_Singleton, FS_AddElement
  <2>2. IsFiniteSet(1 .. n)
    BY FS_Interval DEF Counting
  <2>3. IsFiniteSet(B)
    <3> DEFINE h == [k \in 1 .. n |-> file.CurrPos + k]
               I == 1 .. n
    <3>1. B = {h[k] : k \in I}
      OBVIOUS
    <3> HIDE DEF h, B, I
    <3>2. IsFiniteSet(I)
      BY <2>2 DEF I
    <3> QED  BY <3>1, <3>2, ImagesAreFinite
  <2>4. {file.InitSize} \cup {file.MaxPos} = A
    OBVIOUS
  <2> QED  BY <2>1, <2>3, <2>4
<1>5. file.InitSize \in S /\ file.MaxPos \in S
  BY <1>2
<1>6. S \in SUBSET Nat
  BY <1>2, <1>3
<1> HIDE DEF A, B
<1>7. IsFiniteSet(S)
  BY <1>2, <1>4, FS_Union DEF Counting
<1>8. Max(S) \in S /\ Max(S) \in Nat /\ \A x \in S : x <= Max(S)
  BY <1>5, <1>6, <1>7, MaxIsOf
<1> QED  BY <1>1, <1>5, <1>6, <1>8

LEMMA MaxIs ==
  ASSUME NEW S \in SUBSET Nat, NEW t \in S, \A x \in S : x <= t
  PROVE  Max(S) = t
<1> DEFINE m == Max(S)
<1>1. \A x \in S : x \in Nat /\ t >= x
  OBVIOUS
<1>2. m \in S /\ \A x \in S : m >= x
  BY <1>1 DEF Max
<1> HIDE DEF m
<1>3. m \in Nat /\ t \in Nat /\ m >= t /\ t >= m
  BY <1>1, <1>2
<1> QED  BY <1>3 DEF m

\* What is in Reached.
LEMMA InReached ==
  ASSUME NEW file, NEW n, NEW ends
  PROVE  \A x : x \in Reached(file, n, ends) <=>
                  \/ x = file.InitSize \/ x = file.MaxPos \/ x \in ends
                  \/ \E k \in 1 .. n : x = file.CurrPos + k
BY DEF Reached

\* One more write, or one more call that writes up to x.
LEMMA ReachesMore ==
  ASSUME NEW file, NEW n, NEW ends, Counting(file, n, ends),
         NEW t, t = Max(Reached(file, n, ends))
  PROVE  /\ Max(Reached(file, n + 1, ends)) = Longer(t, file.CurrPos + n + 1)
         /\ \A x \in Nat : Max(Reached(file, n, ends \cup {x})) = Longer(t, x)
<1>0. 0 \in Nat
  OBVIOUS
<1> SUFFICES ASSUME NEW x \in Nat
             PROVE  /\ Max(Reached(file, n + 1, ends)) = Longer(t, file.CurrPos + n + 1)
                    /\ Max(Reached(file, n, ends \cup {x})) = Longer(t, x)
  BY <1>0
<1> DEFINE S == Reached(file, n, ends)
           S1 == Reached(file, n + 1, ends)
           S2 == Reached(file, n, ends \cup {x})
<1>1. /\ S \in SUBSET Nat /\ t \in S /\ t \in Nat /\ \A y \in S : y <= t
      /\ file.CurrPos \in Nat /\ n \in Nat
  BY ReachedIs DEF Counting
<1>2. \A y : y \in S1 <=> y \in S \/ y = file.CurrPos + n + 1
  <2>1. \A k : k \in 1 .. (n + 1) <=> k \in 1 .. n \/ k = n + 1
    BY <1>1
  <2>2. \A y : y \in S1 <=> \/ y = file.InitSize \/ y = file.MaxPos \/ y \in ends
                            \/ \E k \in 1 .. (n + 1) : y = file.CurrPos + k
    BY InReached
  <2>3. \A y : y \in S <=> \/ y = file.InitSize \/ y = file.MaxPos \/ y \in ends
                           \/ \E k \in 1 .. n : y = file.CurrPos + k
    BY InReached
  <2>4. file.CurrPos + n + 1 = file.CurrPos + (n + 1)
    BY <1>1
  <2> HIDE DEF S, S1
  <2> QED  BY <2>1, <2>2, <2>3, <2>4
<1>3. \A y : y \in S2 <=> y \in S \/ y = x
  BY InReached
<1> HIDE DEF S, S1, S2
<1> DEFINE a == Longer(t, file.CurrPos + n + 1)
           b == Longer(t, x)
<1>4. a \in S1 /\ S1 \in SUBSET Nat /\ \A y \in S1 : y <= a
  <2> DEFINE x1 == file.CurrPos + n + 1
  <2>1. x1 \in Nat
    BY <1>1
  <2>2. \A y : y \in S1 <=> y \in S \/ y = x1
    BY <1>2
  <2> HIDE DEF x1
  <2>3. S1 \in SUBSET Nat
    BY <1>1, <2>1, <2>2
  <2>4. CASE t > x1
    BY <1>1, <2>1, <2>2, <2>3, <2>4 DEF Longer, x1
  <2>5. CASE ~(t > x1)
    <3>1. Longer(t, x1) = x1 /\ x1 \in S1
      BY <2>2, <2>5 DEF Longer
    <3>2. ASSUME NEW y \in S1 PROVE y <= x1
      <4>1. y \in S => y \in Nat /\ y <= t
        BY <1>1
      <4>2. t \in Nat /\ t <= x1
        BY <1>1, <2>1, <2>5
      <4> QED  BY <2>1, <2>2, <4>1, <4>2
    <3> QED  BY <2>3, <3>1, <3>2 DEF x1
  <2> QED  BY <2>4, <2>5, Zenon
<1>5. b \in S2 /\ S2 \in SUBSET Nat /\ \A y \in S2 : y <= b
  <2>1. b \in Nat /\ b >= t /\ b >= x /\ (b = t \/ b = x)
    BY <1>1, LongerIs
  <2> HIDE DEF b
  <2>2. b \in S2 /\ S2 \in SUBSET Nat
    BY <1>1, <1>3, <2>1
  <2>3. ASSUME NEW y \in S2 PROVE y <= b
    <3>1. y \in S => y \in Nat /\ y <= t
      BY <1>1
    <3> QED  BY <1>1, <1>3, <2>1, <3>1
  <2> QED  BY <2>2, <2>3
<1> HIDE DEF a, b
<1>6. Max(S1) = a /\ Max(S2) = b
  BY <1>4, <1>5, MaxIs
<1> QED  BY <1>6 DEF S1, S2, a, b

\* Handling a call leaves how far the file state will have reached.
LEMMA ReachesSame ==
  ASSUME NEW file, NEW n, NEW ends, Counting(file, n, ends), NEW new \in TFileState,
         new.InitSize = file.InitSize
  PROVE  /\ new.MaxPos = file.MaxPos /\ new.CurrPos = file.CurrPos =>
              Max(Reached(new, n, ends)) = Max(Reached(file, n, ends))
         /\ new.MaxPos = file.MaxPos /\ n = 0 =>
              Max(Reached(new, 0, ends)) = Max(Reached(file, 0, ends))
         /\ /\ new.CurrPos = file.CurrPos + 1 /\ new.MaxPos = Longer(file.MaxPos, new.CurrPos)
            => Max(Reached(new, n, ends)) = Max(Reached(file, n + 1, ends))
         /\ \A x \in Nat : new.CurrPos = file.CurrPos /\ new.MaxPos = Longer(file.MaxPos, x) =>
              Max(Reached(new, n, ends)) = Max(Reached(file, n, ends \cup {x}))
<1> DEFINE S == Reached(new, n, ends)
<1>1. Counting(new, n, ends)
  BY DEF Counting
<1>2. S \in SUBSET Nat /\ Max(S) \in S /\ Max(S) \in Nat /\ \A x \in S : x <= Max(S)
  BY <1>1, ReachedIs
<1>3. file.MaxPos \in Nat /\ file.CurrPos \in Nat /\ file.InitSize \in Nat /\ n \in Nat
  BY ReachedIs DEF Counting
<1>4. new.MaxPos = file.MaxPos /\ new.CurrPos = file.CurrPos => S = Reached(file, n, ends)
  BY DEF Reached
<1>5. new.MaxPos = file.MaxPos /\ n = 0 => Reached(new, 0, ends) = Reached(file, 0, ends)
  <2>1. 1 .. 0 = {}
    OBVIOUS
  <2> QED  BY <2>1 DEF Reached
<1>6. \A y : y \in S <=> \/ y = new.InitSize \/ y = new.MaxPos \/ y \in ends
                         \/ \E k \in 1 .. n : y = new.CurrPos + k
  BY InReached
<1> DEFINE t == Max(S)
<1>7. ASSUME new.CurrPos = file.CurrPos + 1, new.MaxPos = Longer(file.MaxPos, new.CurrPos)
      PROVE  t = Max(Reached(file, n + 1, ends))
  <2> DEFINE R == Reached(file, n + 1, ends)
  <2>1. \A y : y \in R <=> \/ y = file.InitSize \/ y = file.MaxPos \/ y \in ends
                           \/ \E k \in 1 .. (n + 1) : y = file.CurrPos + k
    BY InReached
  <2>2. \A k \in 1 .. n : k + 1 \in 1 .. (n + 1) /\ file.CurrPos + (k + 1) = (file.CurrPos + 1) + k
    BY <1>3
  <2>3. \A k \in 1 .. (n + 1) : k = 1 \/ k - 1 \in 1 .. n
    BY <1>3
  <2>4. 1 \in 1 .. (n + 1)
    BY <1>3
  <2> HIDE DEF R, S
  <2>5. S \subseteq R
    <3> SUFFICES ASSUME NEW y \in S PROVE y \in R
      OBVIOUS
    <3>1. CASE y = new.InitSize \/ y \in ends
      BY <2>1, <3>1
    <3>2. CASE y = new.MaxPos
      BY <1>7, <2>1, <2>4, <3>2 DEF Longer
    <3>3. CASE \E k \in 1 .. n : y = new.CurrPos + k
      BY <1>7, <2>1, <2>2, <3>3
    <3> QED  BY <1>6, <3>1, <3>2, <3>3
  <2>6. R \in SUBSET Nat /\ \A y \in R : y <= t
    <3>1. \A y \in S : y <= t
      BY <1>2
    <3>2. new.MaxPos \in S /\ new.InitSize \in S /\ ends \subseteq S
      BY <1>6
    <3>3. file.MaxPos <= new.MaxPos /\ new.CurrPos <= new.MaxPos /\ new.MaxPos \in Nat
      BY <1>3, <1>7 DEF Longer
    <3>4. ASSUME NEW y \in R PROVE y \in Nat /\ y <= t
      <4>1. CASE y = file.InitSize \/ y \in ends
        BY <1>2, <3>1, <3>2, <4>1
      <4>2. CASE y = file.MaxPos
        BY <1>2, <1>3, <3>1, <3>2, <3>3, <4>2
      <4>3. CASE \E k \in 1 .. (n + 1) : y = file.CurrPos + k
        <5>1. PICK k \in 1 .. (n + 1) : y = file.CurrPos + k
          BY <4>3
        <5>2. CASE k = 1
          BY <1>2, <1>3, <1>7, <3>1, <3>2, <3>3, <5>1, <5>2
        <5>3. CASE k - 1 \in 1 .. n
          <6>1. y = new.CurrPos + (k - 1)
            BY <1>3, <1>7, <5>1
          <6>2. y \in S
            BY <1>6, <5>3, <6>1
          <6> QED  BY <1>2, <6>2
        <5> QED  BY <2>3, <5>2, <5>3
      <4> QED  BY <2>1, <4>1, <4>2, <4>3
    <3> QED  BY <3>4
  <2>7. t \in R
    BY <1>2, <2>5
  <2> HIDE DEF t
  <2>8. Max(R) = t
    BY <2>6, <2>7, MaxIs
  <2> QED  BY <2>8 DEF R
<1>8. ASSUME NEW x \in Nat, new.CurrPos = file.CurrPos, new.MaxPos = Longer(file.MaxPos, x)
      PROVE  t = Max(Reached(file, n, ends \cup {x}))
  <2> DEFINE R == Reached(file, n, ends \cup {x})
  <2>1. \A y : y \in R <=> \/ y = file.InitSize \/ y = file.MaxPos \/ y \in ends \/ y = x
                           \/ \E k \in 1 .. n : y = file.CurrPos + k
    BY InReached
  <2> HIDE DEF R, S
  <2>2. S \subseteq R
    BY <1>6, <1>8, <2>1 DEF Longer
  <2>3. file.MaxPos <= new.MaxPos /\ x <= new.MaxPos /\ new.MaxPos \in Nat
    BY <1>3, <1>8 DEF Longer
  <2>4. R \in SUBSET Nat /\ \A y \in R : y <= t
    <3>1. new.MaxPos \in S /\ new.MaxPos <= t
      BY <1>2, <1>6
    <3>2. ASSUME NEW y \in R PROVE y \in Nat /\ y <= t
      <4>1. CASE y = file.MaxPos \/ y = x
        BY <1>2, <1>3, <2>3, <3>1, <4>1
      <4>2. CASE y \in S
        BY <1>2, <4>2
      <4>3. y = file.MaxPos \/ y = x \/ y \in S
        BY <1>6, <1>8, <2>1
      <4> QED  BY <4>1, <4>2, <4>3
    <3> QED  BY <3>2
  <2>5. t \in R
    BY <1>2, <2>2
  <2> HIDE DEF t
  <2>6. Max(R) = t
    BY <2>4, <2>5, MaxIs
  <2> QED  BY <2>6 DEF R
<1> QED  BY <1>4, <1>5, <1>7, <1>8 DEF S, t

\* Without calls under way, what has been reached is what is reported.
LEMMA NothingToCome ==
  ASSUME NEW file \in TFileState
  PROVE  Max(Reached(file, 0, {})) - file.InitSize = GetOutputSize(file)
<1>1. Counting(file, 0, {})
  BY FS_EmptySet DEF Counting
<1> DEFINE S == Reached(file, 0, {})
<1>2. S \in SUBSET Nat /\ file.MaxPos \in Nat /\ file.InitSize \in Nat
  BY <1>1, ReachedIs
<1>3. \A y : y \in S <=> y = file.InitSize \/ y = file.MaxPos
  <2>1. 1 .. 0 = {}
    OBVIOUS
  <2> QED  BY <2>1, InReached
<1> HIDE DEF S
<1> DEFINE t == Longer(file.MaxPos, file.InitSize)
<1>4. t \in S /\ \A y \in S : y <= t
  BY <1>2, <1>3 DEF Longer
<1> HIDE DEF t
<1>5. Max(S) = t
  BY <1>2, <1>4, MaxIs
<1> QED  BY <1>2, <1>5 DEF S, t, Longer, GetOutputSize

\* Fewer calls do not reach further.
LEMMA ReachesLess ==
  ASSUME NEW file, NEW m, NEW n, NEW parts, NEW ends, Counting(file, m, parts),
         Counting(file, n, ends), m <= n, parts \subseteq ends
  PROVE  Max(Reached(file, m, parts)) <= Max(Reached(file, n, ends))
<1>1. Reached(file, m, parts) \subseteq Reached(file, n, ends)
  <2>1. 1 .. m \subseteq 1 .. n
    BY DEF Counting
  <2> QED  BY <2>1 DEF Reached
<1>2. Max(Reached(file, m, parts)) \in Reached(file, n, ends)
  BY <1>1, ReachedIs
<1> QED  BY <1>2, ReachedIs

------------------------------------------------------------------------------
(* What will have been counted *)

LEMMA SumOverIs ==
  ASSUME NEW w, NEW S, Summable(w, S)
  PROVE  SumOver(w, S) = SumOf(w, S)
<1> DEFINE sums(f) == f = [s \in SUBSET S |-> Plus(w, s, f)]
           g == CHOOSE f : sums(f)
<1>1. SumOver(w, S) = g[S]
  BY Zenon DEF SumOver, MapThenSumSet, MapThenFoldSet, OneOf, Plus
<1>2. \A f : sums(f) <=> Sums(w, S, f)
  BY DEF Sums
<1> HIDE DEF sums
<1>3. \E f : sums(f)
  BY <1>2, SumsExist
<1>4. Sums(w, S, g)
  BY <1>2, <1>3
<1> HIDE DEF g
<1> QED  BY <1>1, <1>4, SumIs

LEMMA SumOfOne ==
  ASSUME NEW w, NEW x, w[x] \in Nat
  PROVE  Summable(w, {x}) /\ SumOf(w, {x}) = w[x]
<1>1. IsFiniteSet({x})
  BY FS_Singleton
<1>2. Summable(w, {x}) /\ Summable(w, {} \cup {x}) /\ {} \cup {x} = {x}
  BY <1>1 DEF Summable
<1>3. SumOf(w, {} \cup {x}) = SumOf(w, {}) + w[x]
  BY <1>2, SumAnd
<1> QED  BY <1>2, <1>3, SumOfNone

\* The calls that name a place in the file.
Naming == {"pwrite64", "ftruncate", "fallocate"}

\* The calls under way that name a place in a file name one that can be.
CallsReach ==
  \A q \in Pid : stop[q].event = "syscall" /\ stop[q].regs.nr \in Naming =>
    End(stop[q].regs) \in 0 .. MaxLength

LEMMA ViaIs ==
  ASSUME NEW s, NEW slots, NEW nrs
  PROVE  IsFiniteSet(Via(s, slots, nrs)) /\ Cardinality(Via(s, slots, nrs)) \in Nat
<1>1. Via(s, slots, nrs) \subseteq Pid
  BY DEF Via
<1> QED  BY <1>1, IdsAssumption, FS_Subset, FS_CardinalityType

LEMMA CallsCount ==
  ASSUME CallsReach, NEW s, NEW e \in Entry
  PROVE  Counting(e.file, Writes(s, e), Ends(s, e.slots))
<1> DEFINE V == Via(s, e.slots, Naming)
           h == [q \in Pid |-> End(stop[q].regs)]
<1>1. Ends(s, e.slots) = {h[q] : q \in V}
  BY DEF Ends, Naming, Via
<1>2. \A q \in V : h[q] \in Nat
  <2>1. 0 .. MaxLength \subseteq Nat
    BY LengthsAreSizes
  <2> QED  BY <2>1 DEF CallsReach, Via
<1> HIDE DEF V, h
<1>3. IsFiniteSet(Ends(s, e.slots)) /\ Ends(s, e.slots) \in SUBSET Nat
  BY <1>1, <1>2, ViaIs, ImagesAreFinite DEF V
<1>4. e.file \in TFileState
  BY DEF Entry
<1> QED  BY <1>3, <1>4, ViaIs DEF Counting, Writes

LEMMA TopIs ==
  ASSUME CallsReach, NEW s, NEW e \in Entry
  PROVE  /\ Top(s, e) \in Nat /\ Top(s, e) - e.file.InitSize \in Nat
         /\ e.file.InitSize \in Nat /\ e.file.MaxPos \in Nat /\ e.file.CurrPos \in Nat
         /\ Top(s, e) >= e.file.InitSize /\ Top(s, e) >= e.file.MaxPos
<1> DEFINE n == Writes(s, e)
           ends == Ends(s, e.slots)
           S == Reached(e.file, n, ends)
<1>1. Counting(e.file, n, ends) /\ Top(s, e) = Max(S)
  BY CallsCount DEF Top
<1> HIDE DEF n, ends
<1> QED  BY <1>1, ReachedIs

\* The sums of a table.
LEMMA DueIs ==
  ASSUME CallsReach, NEW s, NEW table \in SUBSET Entry, Slotted(table)
  PROVE  /\ Summable(Dues(s, table), table) /\ Due(s, table) = SumOf(Dues(s, table), table)
         /\ Due(s, table) \in Nat
         /\ \A e \in table : Dues(s, table)[e] = Top(s, e) - e.file.InitSize
<1>1. \A e \in table : Dues(s, table)[e] = Top(s, e) - e.file.InitSize /\ Dues(s, table)[e] \in Nat
  BY TopIs DEF Dues
<1>2. Summable(Dues(s, table), table)
  BY <1>1, TablesAreFinite DEF Summable
<1> QED  BY <1>1, <1>2, SumOverIs, SumTyped DEF Due

\* What there is to count in each table.
Stock == [s \in ProcState |-> Due(s, Fds[s])]

StockInv ==
  /\ Allocated \in SUBSET ProcState /\ Counted \in Int
  /\ \A s \in ProcState : Stock[s] = Due(s, Fds[s]) /\ Due(s, Fds[s]) \in Nat
  /\ \A R, X : Allocated = R \cup X /\ R \cap X = {} =>
       /\ Summable(Stock, R) /\ Summable(Stock, X)
       /\ SumOf(Stock, R) \in Nat /\ SumOf(Stock, X) \in Nat
       /\ Counted = OutputSize + (SumOf(Stock, R) + SumOf(Stock, X))

LEMMA StockIs == TypedInv /\ CallsReach /\ OutputSize \in Nat => StockInv
<1> SUFFICES ASSUME TypedInv, CallsReach, OutputSize \in Nat PROVE StockInv
  OBVIOUS
<1>1. \A s \in ProcState : Fds[s] \in SUBSET Entry /\ Slotted(Fds[s])
  BY DEF TypedInv, ContextTyped, SlottedInv
<1>2. \A s \in ProcState : Stock[s] = Due(s, Fds[s]) /\ Due(s, Fds[s]) \in Nat
  BY <1>1, DueIs DEF Stock
<1>3. Allocated \in SUBSET ProcState
  BY DEF Allocated, Registered, TypedInv, ContextTyped
<1>4. IsFiniteSet(Allocated)
  <2>1. IsFiniteSet(Registered)
    BY IdsAssumption, FS_Subset DEF Registered
  <2> QED  BY <2>1, ImagesAreFinite DEF Allocated
<1> DEFINE w == [s \in Allocated |-> Due(s, Fds[s])]
<1>5. Summable(Stock, Allocated) /\ \A s \in Allocated : w[s] = Stock[s]
  BY <1>2, <1>3, <1>4 DEF Summable
<1>6. Counted = OutputSize + SumOver(w, Allocated)
  BY DEF Counted
<1> HIDE DEF w
<1>7. Summable(w, Allocated) /\ SumOf(w, Allocated) = SumOf(Stock, Allocated)
  BY <1>5, SumSame
<1>8. Counted = OutputSize + SumOf(Stock, Allocated) /\ SumOf(Stock, Allocated) \in Nat
  BY <1>5, <1>6, <1>7, SumOverIs, SumTyped
<1>9. ASSUME NEW R, NEW X, Allocated = R \cup X, R \cap X = {}
      PROVE  /\ Summable(Stock, R) /\ Summable(Stock, X)
             /\ SumOf(Stock, R) \in Nat /\ SumOf(Stock, X) \in Nat
             /\ Counted = OutputSize + (SumOf(Stock, R) + SumOf(Stock, X))
  <2>1. Summable(Stock, R \cup X)
    BY <1>5, <1>9
  <2>2. /\ SumOf(Stock, R \cup X) = SumOf(Stock, R) + SumOf(Stock, X)
        /\ SumOf(Stock, R) \in Nat /\ SumOf(Stock, X) \in Nat
        /\ Summable(Stock, R) /\ Summable(Stock, X)
    BY <1>9, <2>1, SumSplit
  <2> QED  BY <1>8, <1>9, <2>2
<1> QED  BY <1>2, <1>3, <1>8, <1>9 DEF StockInv

LEMMA StockIsNext ==
  ASSUME TypedInv', CallsReach', OutputSize' \in Nat
  PROVE  StockInv'
<1>1. (TypedInv /\ CallsReach /\ OutputSize \in Nat)'
  OBVIOUS
<1> QED  BY <1>1, StockIs, PTL

\* From one step to the next, all but one table as they were.
LEMMA CountedTurns ==
  ASSUME StockInv, StockInv', OutputSize \in Nat, OutputSize' \in Nat,
         NEW R, NEW X, NEW Y, Allocated = R \cup X, R \cap X = {},
         Allocated' = R \cup Y, R \cap Y = {},
         \A s \in R : Due(s, Fds[s])' = Due(s, Fds[s])
  PROVE  /\ Counted' + (OutputSize + SumOf(Stock, X)) = Counted + (OutputSize' + SumOf(Stock', Y))
         /\ SumOf(Stock, X) \in Nat /\ SumOf(Stock', Y) \in Nat
         /\ Counted \in Int /\ Counted' \in Int
<1>1. /\ Summable(Stock, R) /\ SumOf(Stock, R) \in Nat /\ SumOf(Stock, X) \in Nat
      /\ Counted = OutputSize + (SumOf(Stock, R) + SumOf(Stock, X))
  BY DEF StockInv
<1>2. /\ SumOf(Stock', R) \in Nat /\ SumOf(Stock', Y) \in Nat
      /\ Counted' = OutputSize' + (SumOf(Stock', R) + SumOf(Stock', Y))
  BY DEF StockInv
<1>3. \A s \in R : Stock'[s] = Stock[s]
  BY DEF StockInv
<1>4. SumOf(Stock', R) = SumOf(Stock, R)
  BY <1>1, <1>3, SumSame
<1> QED  BY <1>1, <1>2, <1>4

------------------------------------------------------------------------------
(* What has been written *)

WrittenInv ==
  /\ grown \in Nat /\ Summable(Growths(ofds), Ofd) /\ SumOf(Growths(ofds), Ofd) \in Nat
  /\ Written = grown + SumOf(Growths(ofds), Ofd) /\ Written \in Nat

LEMMA WrittenIs == KernelTyped /\ DescriptionsMeasure /\ grown \in Nat => WrittenInv
<1> SUFFICES ASSUME KernelTyped, DescriptionsMeasure, grown \in Nat PROVE WrittenInv
  OBVIOUS
<1> DEFINE W == {o \in Ofd : ofds[o].write}
           N == Ofd \ W
           w == Growths(ofds)
<1>1. Measured(ofds)
  BY DescriptionsMeasured DEF KernelTyped
<1>2. Summable(w, W) /\ GrowthOf(ofds, W) = SumOf(w, W) /\ Summable(w, Ofd) /\ IsFiniteSet(Ofd)
  BY <1>1, GrowthIsSum DEF Summable
<1>3. \A o \in N : w[o] = 0
  BY <1>1 DEF DescriptionsMeasure, Growths, Growth, Measured
<1>4. W \cup N = Ofd /\ W \cap N = {} /\ IsFiniteSet(N)
  BY <1>2, FS_Subset
<1>5. Written = grown + GrowthOf(ofds, W)
  BY DEF Written
<1> HIDE DEF W, N, w
<1>6. SumOf(w, N) = 0
  BY <1>3, <1>4, SumZeros
<1>7. SumOf(w, W \cup N) = SumOf(w, W) + SumOf(w, N) /\ SumOf(w, W) \in Nat
  BY <1>2, <1>4, SumSplit
<1> QED  BY <1>2, <1>4, <1>5, <1>6, <1>7 DEF WrittenInv, w

LEMMA WrittenIsNext ==
  ASSUME KernelTyped', DescriptionsMeasure', grown' \in Nat
  PROVE  WrittenInv'
<1>1. (KernelTyped /\ DescriptionsMeasure /\ grown \in Nat)'
  OBVIOUS
<1> QED  BY <1>1, WrittenIs, PTL

\* What is written through a description that is freed becomes history.
LEMMA FreedAreHistory ==
  ASSUME grown \in Nat, NEW fds, NEW descriptions, Measured(descriptions),
         SetDescriptors(fds, descriptions)
  PROVE  /\ grown' + SumOf(Growths(ofds'), Ofd) = grown + SumOf(Growths(descriptions), Ofd)
         /\ grown' \in Nat
<1> DEFINE F == {o \in Ofd : descriptions[o].name # None /\ ~Refers(fds, o)}
           K == Ofd \ F
           w == Growths(descriptions)
           v == Growths(ofds')
<1>1. /\ ofds' = [o \in Ofd |-> IF o \in F THEN Free ELSE descriptions[o]]
      /\ grown' = grown + GrowthOf(descriptions, F)
  BY DEF SetDescriptors
<1>2. /\ Summable(w, F) /\ GrowthOf(descriptions, F) = SumOf(w, F)
      /\ Summable(w, Ofd) /\ IsFiniteSet(Ofd)
  BY GrowthIsSum DEF Summable
<1>3. \A o \in F : v[o] = 0
  BY <1>1 DEF Growths, Growth, Free
<1>4. \A o \in K : v[o] = w[o]
  BY <1>1 DEF Growths
<1>5. F \cup K = Ofd /\ F \cap K = {} /\ IsFiniteSet(F)
  BY <1>2, FS_Subset
<1> HIDE DEF F, K, w, v
<1>6. /\ SumOf(w, F \cup K) = SumOf(w, F) + SumOf(w, K)
      /\ SumOf(w, F) \in Nat /\ SumOf(w, K) \in Nat /\ Summable(w, K)
  BY <1>2, <1>5, SumSplit
<1>7. Summable(v, F) /\ SumOf(v, F) = 0
  BY <1>3, <1>5, SumZeros
<1>8. Summable(v, K) /\ SumOf(v, K) = SumOf(w, K)
  BY <1>4, <1>6, SumSame
<1>9. Summable(v, F \cup K)
  BY <1>2, <1>5, <1>7, <1>8 DEF Summable
<1>10. SumOf(v, F \cup K) = SumOf(v, F) + SumOf(v, K)
  BY <1>5, <1>9, SumSplit
<1>11. grown' = grown + SumOf(w, F) /\ grown' \in Nat
  BY <1>1, <1>2, <1>6
<1>12. grown' + SumOf(v, Ofd) = grown + SumOf(w, Ofd)
  <2>1. SumOf(v, Ofd) = SumOf(v, F) + SumOf(v, K) /\ SumOf(w, Ofd) = SumOf(w, F) + SumOf(w, K)
    BY <1>5, <1>6, <1>10, Zenon
  <2> QED  BY <1>6, <1>7, <1>8, <1>11, <2>1
<1> QED  BY <1>11, <1>12 DEF v, w

\* As long as each has been written to as much as before, so have all.
LEMMA WrittenStays ==
  ASSUME WrittenInv, WrittenInv', NEW fds, NEW descriptions, Measured(descriptions),
         SetDescriptors(fds, descriptions),
         \A o \in Ofd : Growth(descriptions[o]) = Growth(ofds[o])
  PROVE  Written' = Written
<1>1. grown' + SumOf(Growths(ofds'), Ofd) = grown + SumOf(Growths(descriptions), Ofd)
  BY FreedAreHistory DEF WrittenInv
<1>2. \A o \in Ofd : Growths(descriptions)[o] = Growths(ofds)[o]
  BY DEF Growths
<1>3. SumOf(Growths(descriptions), Ofd) = SumOf(Growths(ofds), Ofd)
  <2> DEFINE w == Growths(ofds)
             v == Growths(descriptions)
  <2>1. Summable(w, Ofd) /\ \A o \in Ofd : v[o] = w[o]
    BY <1>2 DEF WrittenInv
  <2> HIDE DEF w, v
  <2>2. SumOf(v, Ofd) = SumOf(w, Ofd)
    BY <2>1, SumSame
  <2> QED  BY <2>2 DEF v, w
<1> QED  BY <1>1, <1>3 DEF WrittenInv

LEMMA WrittenThrough ==
  ASSUME WrittenInv, WrittenInv', NEW d \in Ofd, NEW x, ofds' = [ofds EXCEPT ![d] = x],
         UNCHANGED grown, ofds = [o \in Ofd |-> ofds[o]]
  PROVE  Written' + Growth(ofds[d]) = Written + Growth(x)
<1> DEFINE w == Growths(ofds)
           v == Growths(ofds')
<1>1. \A o \in Ofd \ {d} : v[o] = w[o]
  BY DEF Growths
<1>2. v[d] = Growth(x) /\ w[d] = Growth(ofds[d])
  BY DEF Growths
<1>3. Summable(w, Ofd) /\ Summable(v, Ofd)
  BY DEF WrittenInv
<1>4. /\ Written = grown + SumOf(w, Ofd) /\ Written' = grown' + SumOf(v, Ofd)
      /\ grown \in Nat
  BY DEF WrittenInv
<1> HIDE DEF w, v
<1>5. /\ SumOf(v, Ofd) + w[d] = SumOf(w, Ofd) + v[d]
      /\ SumOf(v, Ofd) \in Nat /\ SumOf(w, Ofd) \in Nat /\ w[d] \in Nat /\ v[d] \in Nat
  BY <1>1, <1>3, SumOne
<1> QED  BY <1>2, <1>4, <1>5

------------------------------------------------------------------------------
(* How far the calls under way reach *)

\* A file state no call of the step is about.
LEMMA TopStays ==
  ASSUME NEW s, NEW e,
         \A q \in Pid : stop'[q].event = "syscall" /\ ProcMap'[q] = s <=>
                          stop[q].event = "syscall" /\ ProcMap[q] = s,
         \A q \in Pid : stop[q].event = "syscall" /\ ProcMap[q] = s => stop'[q] = stop[q]
  PROVE  Writes(s, e)' = Writes(s, e) /\ Top(s, e)' = Top(s, e)
<1>1. \A nrs : Via(s, e.slots, nrs)' = Via(s, e.slots, nrs)
  BY DEF Via
<1>2. \A q \in Via(s, e.slots, Naming) : stop'[q] = stop[q]
  BY DEF Via
<1>3. Ends(s, e.slots)' = Ends(s, e.slots)
  BY <1>1, <1>2 DEF Ends, Naming
<1>4. Writes(s, e)' = Writes(s, e)
  BY <1>1 DEF Writes
<1> QED  BY <1>3, <1>4 DEF Top

LEMMA DueStays ==
  ASSUME NEW s,
         \A q \in Pid : stop'[q].event = "syscall" /\ ProcMap'[q] = s <=>
                          stop[q].event = "syscall" /\ ProcMap[q] = s,
         \A q \in Pid : stop[q].event = "syscall" /\ ProcMap[q] = s => stop'[q] = stop[q],
         Fds'[s] = Fds[s]
  PROVE  Due(s, Fds[s])' = Due(s, Fds[s])
<1>1. \A e : Top(s, e)' = Top(s, e)
  BY TopStays
<1>2. Dues(s, Fds[s])' = Dues(s, Fds[s])
  BY <1>1 DEF Dues
<1> QED  BY <1>2 DEF Due

\* What p's making the call r adds to what e at s will be written.
Reaching(p, r, s, e) ==
  LET hits == ProcMap[p] = s /\ r.fd \in e.slots
  IN  /\ hits /\ r.nr = "write" =>
           /\ Writes(s, e)' = Writes(s, e) + 1
           /\ Top(s, e)' = Longer(Top(s, e), e.file.CurrPos + Writes(s, e) + 1)
      /\ hits /\ r.nr \in Naming =>
           Writes(s, e)' = Writes(s, e) /\ Top(s, e)' = Longer(Top(s, e), End(r))
      /\ ~hits \/ r.nr \notin Naming \cup {"write"} =>
           Writes(s, e)' = Writes(s, e) /\ Top(s, e)' = Top(s, e)

\* What a call adds to how far a file state will have reached.
LEMMA CalledReaches ==
  ASSUME CallsReach, ThreadInv, NEW p \in Pid, NEW r, Called(p, r),
         r.nr \in Naming => End(r) \in Nat, NEW s, NEW e \in Entry
  PROVE  Reaching(p, r, s, e)
<1> DEFINE hits == ProcMap[p] = s /\ r.fd \in e.slots
<1> SUFFICES /\ hits /\ r.nr = "write" =>
                  /\ Writes(s, e)' = Writes(s, e) + 1
                  /\ Top(s, e)' = Longer(Top(s, e), e.file.CurrPos + Writes(s, e) + 1)
             /\ hits /\ r.nr \in Naming =>
                  Writes(s, e)' = Writes(s, e) /\ Top(s, e)' = Longer(Top(s, e), End(r))
             /\ ~hits \/ r.nr \notin Naming \cup {"write"} =>
                  Writes(s, e)' = Writes(s, e) /\ Top(s, e)' = Top(s, e)
  BY DEF Reaching
<1>1. /\ stop[p].event = "running" /\ stop'[p].event = "syscall" /\ stop'[p].regs = r
      /\ \A q \in Pid \ {p} : stop'[q] = stop[q]
      /\ ProcMap' = ProcMap
  <2> DEFINE t == [Running EXCEPT !.event = "syscall", !.regs = r]
  <2>1. /\ stop = [q \in Pid |-> stop[q]] /\ stop[p] = Running /\ ProcMap' = ProcMap
        /\ stop' = [stop EXCEPT ![p] = t]
    BY DEF Called, ThreadInv, contextVars
  <2>2. t.event = "syscall" /\ t.regs = r /\ Running.event = "running"
    BY Events
  <2> HIDE DEF t
  <2> QED  BY <2>1, <2>2
<1> DEFINE V(nrs) == Via(s, e.slots, nrs)
<1>2. ASSUME NEW nrs
      PROVE  /\ hits /\ r.nr \in nrs => V(nrs)' = V(nrs) \cup {p}
             /\ ~hits \/ r.nr \notin nrs => V(nrs)' = V(nrs)
             /\ p \notin V(nrs) /\ V(nrs) \subseteq Pid
  BY <1>1 DEF Via
<1> DEFINE f == [q \in Pid |-> End(stop[q].regs)]
<1>3. /\ Ends(s, e.slots) = {f[q] : q \in V(Naming)}
      /\ Ends(s, e.slots)' = {f'[q] : q \in V(Naming)'}
  BY DEF Ends, Naming, Via
<1>4. \A q \in Pid \ {p} : f'[q] = f[q]
  BY <1>1
<1>5. f'[p] = End(r)
  BY <1>1
<1> HIDE DEF f
<1>6. /\ hits /\ r.nr \in Naming => Ends(s, e.slots)' = Ends(s, e.slots) \cup {End(r)}
      /\ ~hits \/ r.nr \notin Naming => Ends(s, e.slots)' = Ends(s, e.slots)
  <2>1. \A q \in V(Naming) : f'[q] = f[q]
    BY <1>2, <1>4
  <2> QED  BY <1>2, <1>3, <1>5, <2>1
<1>7. /\ hits /\ r.nr = "write" => Writes(s, e)' = Writes(s, e) + 1
      /\ ~hits \/ r.nr # "write" => Writes(s, e)' = Writes(s, e)
  <2>1. Writes(s, e) = Cardinality(V({"write"})) /\ Writes(s, e)' = Cardinality(V({"write"})')
    BY DEF Writes
  <2>2. IsFiniteSet(V({"write"})) /\ p \notin V({"write"})
    BY <1>2, ViaIs
  <2>3. Cardinality(V({"write"}) \cup {p}) = Cardinality(V({"write"})) + 1
    BY <2>2, FS_AddElement
  <2> HIDE DEF V
  <2> QED  BY <1>2, <2>1, <2>3
<1>8. Counting(e.file, Writes(s, e), Ends(s, e.slots))
  BY CallsCount
<1>9. /\ Top(s, e) = Max(Reached(e.file, Writes(s, e), Ends(s, e.slots)))
      /\ Top(s, e)' = Max(Reached(e.file, Writes(s, e)', Ends(s, e.slots)'))
  BY DEF Top
<1> DEFINE n == Writes(s, e)
           ends == Ends(s, e.slots)
<1>10. CASE hits /\ r.nr = "write"
  <2>1. r.nr \notin Naming
    BY <1>10 DEF Naming
  <2>2. n' = n + 1 /\ ends' = ends
    BY <1>6, <1>7, <1>10, <2>1
  <2> DEFINE t == Top(s, e)
  <2>3. t = Max(Reached(e.file, n, ends)) /\ t' = Max(Reached(e.file, n + 1, ends))
    BY <1>9, <2>2
  <2>4. Counting(e.file, n, ends)
    BY <1>8
  <2> HIDE DEF n, ends, t
  <2>5. Max(Reached(e.file, n + 1, ends)) = Longer(t, e.file.CurrPos + n + 1)
    BY <2>3, <2>4, ReachesMore
  <2> QED  BY <1>7, <1>10, <2>1, <2>3, <2>5 DEF t, n
<1>11. CASE hits /\ r.nr \in Naming
  <2>1. r.nr # "write"
    BY <1>11 DEF Naming
  <2>2. n' = n /\ ends' = ends \cup {End(r)}
    BY <1>6, <1>7, <1>11, <2>1
  <2> DEFINE t == Top(s, e)
  <2>3. t = Max(Reached(e.file, n, ends)) /\ t' = Max(Reached(e.file, n, ends \cup {End(r)}))
    BY <1>9, <2>2
  <2> HIDE DEF n, ends, t
  <2>4. Max(Reached(e.file, n, ends \cup {End(r)})) = Longer(t, End(r))
    BY <1>8, <1>11, <2>3, ReachesMore DEF n, ends
  <2> QED  BY <1>7, <1>11, <2>1, <2>3, <2>4 DEF t, n
<1>12. CASE ~hits \/ r.nr \notin Naming \cup {"write"}
  <2>1. n' = n /\ ends' = ends
    BY <1>6, <1>7, <1>12
  <2>2. Top(s, e)' = Top(s, e)
    BY <1>9, <2>1
  <2> QED  BY <1>12, <2>1, <2>2
<1> QED  BY <1>10, <1>11, <1>12

------------------------------------------------------------------------------
(* What a step leaves of what is counted *)

LEMMA ReachIs ==
  ASSUME KernelTyped, LifeInv, \A g \in Pid : CountsOn(g)
  PROVE  CallsReach
<1> SUFFICES ASSUME NEW q \in Pid, stop[q].event = "syscall", stop[q].regs.nr \in Naming
             PROVE  End(stop[q].regs) \in 0 .. MaxLength
  BY DEF CallsReach
<1>1. stop[q] # Absent
  BY Events
<1>2. group[q] \in Pid
  BY <1>1, ActorsAreThere
<1>3. q \in Calls(group[q])
  BY DEF Calls
<1>4. Sized(stop[q].regs, kfds[group[q]])
  BY <1>2, <1>3 DEF CountsOn
<1> QED  BY <1>4 DEF Sized, Naming

LEMMA ReachIsNext ==
  ASSUME KernelTyped', LifeInv', \A g \in Pid : CountsOn(g)'
  PROVE  CallsReach'
<1>1. (KernelTyped /\ LifeInv /\ \A g \in Pid : CountsOn(g))'
  OBVIOUS
<1> QED  BY <1>1, ReachIs, PTL

\* No call on the table at address s is made or handled.
Quiet(s) ==
  /\ \A q \in Pid : stop'[q].event = "syscall" /\ ProcMap'[q] = s <=>
                      stop[q].event = "syscall" /\ ProcMap[q] = s
  /\ \A q \in Pid : stop[q].event = "syscall" /\ ProcMap[q] = s => stop'[q] = stop[q]

\* A description is as it was, as far as lengths have to do with it.
Still(o) ==
  /\ ofds'[o].name = ofds[o].name /\ ofds'[o].write = ofds[o].write
  /\ ofds'[o].split = ofds[o].split
  /\ ofds[o].write =>
       /\ ofds'[o].append = ofds[o].append /\ ofds'[o].pos = ofds[o].pos
       /\ size'[ofds[o].name] = size[ofds[o].name]

LEMMA AtStays ==
  ASSUME NEW g, NEW e, NEW a, MeasuresAt(g, e, a), ProcMap'[g] = ProcMap[g],
         NEW s, s = ProcMap[g],
         Top(s, e)' = Top(s, e), Writes(s, e)' = Writes(s, e),
         NEW o, o = kfds[g][a].ofd, kfds'[g][a].ofd = o, o # None => Still(o)
  PROVE  MeasuresAt(g, e, a)'
<1>1. CASE o = None
  BY <1>1 DEF MeasuresAt
<1>2. CASE o # None
  <2> DEFINE t == Top(s, e)
             n == Writes(s, e)
  <2>1. MeasuresUp(e.file, t, e.file.CurrPos + n, ofds[o], size[ofds[o].name])
    BY <1>2 DEF MeasuresAt
  <2>2. MeasuresUp(e.file, t, e.file.CurrPos + n, ofds'[o], size'[ofds'[o].name])
    <3> HIDE DEF t, n
    <3> QED  BY <1>2, <2>1 DEF MeasuresUp, Still
  <2>3. Top(ProcMap[g], e)' = t /\ Writes(ProcMap[g], e)' = n
    OBVIOUS
  <2> HIDE DEF t, n
  <2>4. (MeasuresUp(e.file, Top(ProcMap[g], e), e.file.CurrPos + Writes(ProcMap[g], e),
                    ofds[kfds[g][a].ofd], size[ofds[kfds[g][a].ofd].name]))'
    BY <2>2, <2>3
  <2> QED  BY <2>4 DEF MeasuresAt
<1> QED  BY <1>1, <1>2

\* Wherever nothing is called or moved, what is measured stays.
LEMMA AllAtStay ==
  ASSUME KernelTyped, NEW g \in Pid, ProcMap'[g] = ProcMap[g], Quiet(ProcMap[g]),
         kfds'[g] = kfds[g], \A o \in Ofd : Holds(g, o) => Still(o)
  PROVE  \A e, a : a \in Fd /\ MeasuresAt(g, e, a) => MeasuresAt(g, e, a)'
<1> SUFFICES ASSUME NEW e, NEW a, a \in Fd, MeasuresAt(g, e, a) PROVE MeasuresAt(g, e, a)'
  OBVIOUS
<1> DEFINE s == ProcMap[g]
           o == kfds[g][a].ofd
<1>1. o \in Ofd \cup {None}
  BY DEF KernelTyped
<1>2. o # None => Still(o)
  BY <1>1 DEF Holds
<1>3. Writes(s, e)' = Writes(s, e) /\ Top(s, e)' = Top(s, e)
  <2>1. \A x : Quiet(x) => Writes(x, e)' = Writes(x, e) /\ Top(x, e)' = Top(x, e)
    BY TopStays DEF Quiet
  <2>2. (s)' = s
    OBVIOUS
  <2> QED  BY <2>1, <2>2
<1>4. kfds'[g][a].ofd = o
  OBVIOUS
<1> QED  BY <1>2, <1>3, <1>4, AtStays

\* The calls and the program of g are not concerned.
Undisturbed(g) ==
  /\ kfds'[g] = kfds[g] /\ Calls(g)' = Calls(g) /\ \A q \in Calls(g) : stop'[q] = stop[q]
  /\ \A o \in Ofd : Holds(g, o) =>
       /\ ofds'[o].name = ofds[o].name /\ ofds'[o].write = ofds[o].write
       /\ ofds'[o].split = ofds[o].split
  /\ Live(g)' => Live(g)
  /\ stop'[g].event \in {"fork", "exec"} =>
       stop[g].event = stop'[g].event /\ group[g] = g /\ group'[g] = g
  /\ stop'[g].event \in {"fork", "exec"} =>
       \A fd \in Fd : Writable(g, fd) /\ At(g, fd).name \notin unlinked =>
         At(g, fd).name \notin unlinked'
  /\ Live(g)' \/ stop'[g].event = "exec" =>
       /\ Table(g)' = Table(g)
       /\ \A e \in Table(g) : \A a \in e.slots : MeasuresAt(g, e, a) => MeasuresAt(g, e, a)'

LEMMA UndisturbedCounts ==
  ASSUME TypedInv, NEW g \in Pid, CountsOn(g), StandsOn(g), Undisturbed(g)
  PROVE  CountsOn(g)'
<1>1. \A fd \in Fd : kfds[g][fd].ofd \in Ofd \cup {None}
  BY DEF TypedInv, KernelTyped
<1>2. \A fd \in Fd : kfds[g][fd].ofd # None =>
        LET o == kfds[g][fd].ofd
        IN  /\ ofds'[o].name = ofds[o].name /\ ofds'[o].write = ofds[o].write
            /\ ofds'[o].split = ofds[o].split
  BY <1>1 DEF Undisturbed, Holds
<1>3. ASSUME NEW q \in Calls(g)' PROVE Sized(stop[q].regs, kfds[g])'
  <2>1. q \in Calls(g) /\ q \in Pid /\ stop'[q] = stop[q] /\ stop[q].event = "syscall"
    BY DEF Undisturbed, Calls
  <2> DEFINE r == stop[q].regs
             o == kfds[g][r.fd].ofd
  <2>2. Sized(r, kfds[g]) /\ RegsTyped(r) /\ (r.nr = "lseek" => o # None)
    BY <2>1 DEF CountsOn, StandsOn, Positioned, TypedInv, CallsTyped
  <2>3. r.nr \notin {"open", "creat"} => r.fd \in Fd
    BY <2>2 DEF RegsTyped
  <2>4. r.nr \in {"write", "pwrite64", "ftruncate", "fallocate", "lseek"} =>
          o # None /\ ofds'[o].write = ofds[o].write /\ ofds'[o].split = ofds[o].split
    BY <1>2, <2>2, <2>3 DEF Sized
  <2>5. kfds'[g] = kfds[g] /\ stop'[q].regs = r
    BY <2>1 DEF Undisturbed
  <2> HIDE DEF r
  <2>6. Sized(r, kfds[g])'
    <3>1. (r)' = r
      BY <2>5 DEF r
    <3> QED  BY <2>2, <2>4, <2>5, <3>1 DEF Sized
  <2> QED  BY <2>6 DEF r
<1>4. \A busy : Live(g)' /\ Measures(g, busy) => Measures(g, busy)'
  BY DEF Undisturbed, Measures
<1>5. Busy(g)' = Busy(g)
  BY DEF Undisturbed, Busy
<1>6. Live(g)' => Measures(g, Busy(g))'
  BY <1>4, <1>5 DEF CountsOn, Undisturbed, Measures
<1>7. stop'[g].event = "exec" => Measures(g, {})'
  BY DEF CountsOn, Undisturbed, Measures
<1>8. ASSUME stop'[g].event \in {"fork", "exec"}, NEW fd \in Fd, Writable(g, fd)'
      PROVE  (At(g, fd).name \notin unlinked)'
  <2>1. /\ stop[g].event \in {"fork", "exec"} /\ group[g] = g /\ group'[g] = g
        /\ kfds'[g] = kfds[g]
    BY <1>8 DEF Undisturbed
  <2>2. Writable(g, fd) /\ At(g, fd)'.name = At(g, fd).name
    BY <1>2, <1>8, <2>1 DEF Writable, IsOpen, At, Descriptors
  <2>3. At(g, fd).name \notin unlinked
    BY <2>1, <2>2 DEF CountsOn
  <2> QED  BY <1>8, <2>2, <2>3 DEF Undisturbed
<1> QED  BY <1>3, <1>6, <1>7, <1>8 DEF CountsOn

\* What a call that is not about a description leaves of it.
LEMMA SteadyIs ==
  ASSUME TypedInv, KernelTyped', OneWriter, NEW p \in Pid, group[p] \in Pid, NEW r, Taken(p, r),
         "writers" \notin quirks'
  PROVE  \A o \in Ofd : Stays(o) /\ o # Touched(p, r) =>
           ofds'[o] = ofds[o] /\ (ofds[o].write => size'[ofds[o].name] = size[ofds[o].name])
<1> SUFFICES ASSUME NEW o \in Ofd, Stays(o), o # Touched(p, r)
             PROVE  ofds'[o] = ofds[o] /\ (ofds[o].write => size'[ofds[o].name] = size[ofds[o].name])
  OBVIOUS
<1>1. ofds[o].name # None /\ Refers(kfds', o)
  <2>1. PICK q \in Pid, fd \in Fd : kfds[q][fd].ofd = o /\ kfds'[q][fd].ofd = o
    BY DEF Stays
  <2>2. o # None
    BY AccountingAssumption
  <2> QED  BY <2>1, <2>2 DEF TypedInv, HeldInv, Refers
<1>2. ofds \in [Ofd -> Description] /\ size \in [Name -> 0 .. MaxLength]
  BY DEF TypedInv, KernelTyped
<1>3. ASSUME NEW x, Moved(p, r, x)
      PROVE  ofds'[o] = ofds[o] /\ (ofds[o].write => size'[ofds[o].name] = size[ofds[o].name])
  <2>a. PICK d : d = kfds[group[p]][r.fd].ofd
    OBVIOUS
  <2>b. PICK old : old = ofds[d]
    OBVIOUS
  <2>c. PICK name : name = old.name
    OBVIOUS
  <2>m. MovesOne(r, x, d, old, name)
    BY <1>3, <2>a, <2>b, <2>c, MovedIs, Zenon
  <2>1. /\ r.nr \in Moves \cup {"F_SETFL"} /\ d # None /\ r.fd \in Fd
        /\ ofds' = [ofds EXCEPT ![d] = x] /\ size' = [size EXCEPT ![name] = size'[name]]
        /\ size'[name] # size[name] => old.write
    BY <2>m, Zenon DEF MovesOne
  <2>2. o # d
    BY <2>a, <2>1 DEF Touched
  <2>3. d \in Ofd
    BY <2>a, <2>1 DEF TypedInv, KernelTyped
  <2>4. ofds'[o] = ofds[o]
    BY <1>2, <2>1, <2>2
  <2>5. ofds[o].write /\ old.write => ofds[o].name # name
    BY <2>b, <2>c, <2>2, <2>3 DEF OneWriter
  <2>6. ofds[o].name \in Name
    BY <1>1, <1>2 DEF Description
  <2>7. ofds[o].name # name => size'[ofds[o].name] = size[ofds[o].name]
    BY <1>2, <2>1, <2>6
  <2>8. ofds[o].write => size'[ofds[o].name] = size[ofds[o].name]
    BY <2>1, <2>5, <2>7, Zenon
  <2> QED  BY <2>4, <2>8
<1>4. CASE Rewired(p, r)
  <2>1. SetDescriptors(kfds', ofds) /\ size' = size
    BY <1>4 DEF Rewired, files
  <2> QED  BY <1>1, <1>2, <2>1, HeldStay DEF TypedInv
<1>5. ASSUME NEW d, NEW x, Begun(p, r, d, x)
      PROVE  ofds'[o] = ofds[o] /\ (ofds[o].write => size'[ofds[o].name] = size[ofds[o].name])
  <2> DEFINE D == [ofds EXCEPT ![d] = x]
  <2>1. /\ d \in Ofd /\ ofds[d].name = None /\ SetDescriptors(kfds', D) /\ x \in Description
        /\ size' = [size EXCEPT ![r.name] = size'[r.name]]
        /\ size'[r.name] # size[r.name] => x.write
        /\ x.write => \A c \in Ofd : ofds[c].name = r.name => ~ofds[c].write
    BY <1>5 DEF Begun
  <2>2. D \in [Ofd -> Description] /\ D[o] = ofds[o]
    BY <1>1, <1>2, <2>1
  <2> HIDE DEF D
  <2>3. ofds'[o] = ofds[o]
    BY <1>1, <2>1, <2>2, HeldStay DEF TypedInv
  <2>4. ofds[o].name \in Name
    BY <1>1, <1>2 DEF Description
  <2> QED  BY <1>2, <2>1, <2>3, <2>4
<1> QED  BY <1>3, <1>4, <1>5 DEF Taken

------------------------------------------------------------------------------
(* A system call *)

Ordinary == quirks \subseteq {"split", "lost"}

LEMMA OrdinaryIs ==
  ASSUME Ordinary'
  PROVE  /\ Without(PositionKinds)' /\ Without({"jump"})' /\ Without({"keep", "shrink"})'
         /\ Without({"append", "current"})' /\ Without({"append"})' /\ Without({"far"})'
         /\ "writers" \notin quirks' /\ "race" \notin quirks' /\ "cloexec" \notin quirks'
BY DEF Ordinary, Without, PositionKinds

\* What a call does to the description it is about.
Alters(p, r) ==
  LET d == Touched(p, r)
      old == ofds[d]
      new == ofds'[d]
  IN  /\ d # None /\ d \in Ofd
      /\ new.name = old.name /\ new.write = old.write /\ new.split = old.split
      /\ r.nr = "write" =>
           /\ old.write /\ new.append = old.append
           /\ new.pos = Landing(old) + 1 /\ new.peak = Longer(old.peak, Landing(old) + 1)
           /\ size'[old.name] = Longer(size[old.name], Landing(old) + 1)
      /\ r.nr \in Naming =>
           /\ Succeeded(r) /\ End(r) \in 0 .. MaxLength /\ ~old.split /\ old.write
           /\ new.append = old.append /\ new.pos = old.pos /\ new.peak = Longer(old.peak, End(r))
           /\ size'[old.name] = Longer(size[old.name], End(r))
      /\ r.nr \in {"lseek", "F_SETFL"} => size'[old.name] = size[old.name] /\ new.peak = old.peak
      /\ r.nr = "lseek" => ~old.split
      /\ r.nr = "F_SETFL" => new.append = old.append /\ new.pos = old.pos

LEMMA ResultsSucceed ==
  ASSUME NEW r
  PROVE  /\ r.nr = "pwrite64" /\ r.ret = 1 => Succeeded(r)
         /\ r.nr \in {"ftruncate", "fallocate"} /\ r.ret = 0 => Succeeded(r)
<1>1. IntNonNegative(0)
  <2>1. 0 % IntModulus = 0 /\ IntModulus \div 2 > 0
    BY ContextAssumption
  <2> QED  BY <2>1 DEF IntNonNegative
<1> QED  BY <1>1 DEF Succeeded

LEMMA CallAlters ==
  ASSUME TypedInv, NEW p \in Pid, group[p] \in Pid, NEW r, Taken(p, r), Ordinary',
         r.nr \in Moves \cup {"F_SETFL"}
  PROVE  Alters(p, r)
<1>1. PICK x : Moved(p, r, x)
  BY DEF Taken, Rewired, Begun, Moves, Dups, NewFd
<1> DEFINE d == kfds[group[p]][r.fd].ofd
           old == ofds[d]
           name == old.name
<1>2. Touched(p, r) = d
  BY DEF Touched
<1>3. /\ r.fd \in Fd /\ d # None
      /\ x \in Description /\ ofds' = [ofds EXCEPT ![d] = x]
      /\ x.name = name /\ x.write = old.write /\ x.split = old.split
  BY <1>1 DEF Moved
<1>4. d \in Ofd
  BY <1>3 DEF TypedInv, KernelTyped
<1>5. ofds'[d] = x
  BY <1>3, <1>4 DEF TypedInv, KernelTyped
<1>6. r.nr = "write" =>
        /\ old.write /\ x.append = old.append
        /\ x.pos = Landing(old) + 1 /\ x.peak = Longer(old.peak, Landing(old) + 1)
        /\ size'[name] = Longer(size[name], Landing(old) + 1)
  BY <1>1 DEF Moved
<1>7. r.nr = "pwrite64" =>
        /\ r.ret = 1 /\ r.arg \in Nat /\ r.arg + 1 <= MaxLength /\ ~old.split /\ old.write
        /\ x.append = old.append /\ x.pos = old.pos /\ x.peak = Longer(old.peak, r.arg + 1)
        /\ size'[name] = Longer(size[name], r.arg + 1)
  BY <1>1, OrdinaryIs DEF Moved
<1>8. r.nr \in {"ftruncate", "fallocate"} =>
        /\ r.ret = 0 /\ r.arg \in 0 .. MaxLength /\ ~old.split /\ old.write
        /\ x.append = old.append /\ x.pos = old.pos /\ x.peak = Longer(old.peak, r.arg)
        /\ size'[name] = Longer(size[name], r.arg)
  BY <1>1, OrdinaryIs DEF Moved
<1>9. /\ r.nr \in {"lseek", "F_SETFL"} => size'[name] = size[name] /\ x.peak = old.peak
      /\ r.nr = "lseek" => ~old.split
      /\ r.nr = "F_SETFL" => x.append = old.append /\ x.pos = old.pos
  BY <1>1, OrdinaryIs DEF Moved
<1>10. r.nr \in Naming =>
        /\ Succeeded(r) /\ End(r) \in 0 .. MaxLength /\ ~old.split /\ old.write
        /\ x.append = old.append /\ x.pos = old.pos /\ x.peak = Longer(old.peak, End(r))
        /\ size'[name] = Longer(size[name], End(r))
  <2>1. CASE r.nr = "pwrite64"
    <3>a. r.ret = 1 /\ r.arg \in Nat /\ r.arg + 1 <= MaxLength
      BY <1>7, <2>1, Zenon
    <3> HIDE DEF d, old, name
    <3>b. End(r) = r.arg + 1
      BY <2>1, <3>a DEF End
    <3>c. r.arg + 1 \in 0 .. MaxLength
      BY <3>a, LengthsAreSizes
    <3>1. End(r) = r.arg + 1 /\ r.arg + 1 \in 0 .. MaxLength
      BY <3>b, <3>c
    <3> QED  BY <1>7, <2>1, <3>1, ResultsSucceed
  <2>2. CASE r.nr \in {"ftruncate", "fallocate"}
    <3>1. End(r) = r.arg
      BY <2>2 DEF End
    <3> HIDE DEF d, old, name
    <3> QED  BY <1>8, <2>2, <3>1, ResultsSucceed
  <2> QED  BY <2>1, <2>2 DEF Naming
<1> HIDE DEF d
<1> QED  BY <1>2, <1>3, <1>4, <1>5, <1>6, <1>9, <1>10 DEF Alters

LEMMA LongerLonger ==
  ASSUME NEW a \in Int, NEW b \in Int, NEW c \in Int
  PROVE  /\ Longer(Longer(a, b), c) = Longer(a, Longer(b, c)) /\ Longer(a, b) \in Int
         /\ Longer(a, b) >= a
BY DEF Longer

\* A file stays as long as what has been opened and written makes it.
LEMMA CalledMeasures ==
  ASSUME TypedInv, KernelTyped', DescriptionsMeasure, OneWriter, NEW p \in Pid, group[p] \in Pid,
         NEW r, Called(p, r), Taken(p, r), Ordinary'
  PROVE  DescriptionsMeasure'
<1> SUFFICES ASSUME NEW o \in Ofd
             PROVE  IF ofds'[o].write
                    THEN /\ ofds'[o].name # None /\ ofds'[o].followed
                         /\ size'[ofds'[o].name] = Longer(ofds'[o].init, ofds'[o].peak)
                         /\ quirks' = {} => ~ofds'[o].split
                    ELSE ofds'[o].peak = 0
  BY Zenon DEF DescriptionsMeasure
<1>1. quirks \subseteq quirks' /\ Kept(p) /\ Carried(p, r)
  BY DEF Called
<1>2. ofds \in [Ofd -> Description] /\ size \in [Name -> 0 .. MaxLength]
  BY DEF TypedInv, KernelTyped
<1>3. ASSUME NEW c, c = ofds'[o], ofds'[o] = ofds[o],
             ofds[o].write => size'[ofds[o].name] = size[ofds[o].name]
      PROVE  IF c.write
             THEN /\ c.name # None /\ c.followed
                  /\ size'[c.name] = Longer(c.init, c.peak)
                  /\ quirks' = {} => ~c.split
             ELSE c.peak = 0
  BY <1>1, <1>3 DEF DescriptionsMeasure
<1>4. ASSUME NEW x, Moved(p, r, x)
      PROVE  IF ofds'[o].write
             THEN /\ ofds'[o].name # None /\ ofds'[o].followed
                  /\ size'[ofds'[o].name] = Longer(ofds'[o].init, ofds'[o].peak)
                  /\ quirks' = {} => ~ofds'[o].split
             ELSE ofds'[o].peak = 0
  <2> DEFINE g == group[p]
             d == kfds[g][r.fd].ofd
             name == ofds[d].name
  <2>m. MovesOne(r, x, d, ofds[d], name)
    <3> SUFFICES ASSUME NEW e, e = d, NEW old, old = ofds[e], NEW n, n = old.name
                 PROVE  MovesOne(r, x, e, old, n)
      OBVIOUS
    <3> QED  BY <1>4, MovedIs, Zenon DEF d, g
  <2>1. /\ r.nr \in Moves \cup {"F_SETFL"} /\ d # None /\ r.fd \in Fd
        /\ ofds' = [ofds EXCEPT ![d] = x] /\ size' = [size EXCEPT ![name] = size'[name]]
        /\ size'[name] # size[name] => ofds[d].write
    <3> HIDE DEF d, name
    <3> QED  BY <2>m, Zenon DEF MovesOne
  <2>2. /\ d \in Ofd /\ name \in Name /\ size[name] \in Nat /\ Landing(ofds[d]) \in Nat
        /\ ofds[d].peak \in Nat /\ ofds[d].init \in Nat
    BY <2>1, LandsIn DEF TypedInv
  <2>3. x.init = ofds[d].init
    BY <1>4 DEF Moved
  <2>4. x.followed = ofds[d].followed
    <3>1. kfds'[g][r.fd].ofd = kfds[g][r.fd].ofd
      <4>1. kfds' = kfds
        BY <2>m, Zenon DEF MovesOne
      <4> QED  BY <4>1
    <3>2. ofds'[d].followed = ofds[d].followed
      BY <1>1, <2>1, <3>1 DEF Kept
    <3> QED  BY <1>2, <2>1, <2>2, <3>2
  <2>5. Alters(p, r) /\ Touched(p, r) = d
    BY <2>1, CallAlters DEF Touched
  <2> HIDE DEF d
  <2>6. CASE o # d
    <3>1. ofds'[o] = ofds[o]
      BY <1>2, <2>1, <2>6
    <3>2. ofds[o].write /\ ofds[d].write => ofds[o].name # name
      BY <2>2, <2>6 DEF OneWriter
    <3>3. ofds[o].name \in Name \cup {None}
      BY <1>2 DEF Description
    <3>4. ofds[o].write => ofds[o].name \in Name
      BY <3>3 DEF DescriptionsMeasure
    <3> HIDE DEF name
    <3>5. ofds[o].write => size'[ofds[o].name] = size[ofds[o].name]
      BY <1>2, <2>1, <2>2, <3>2, <3>4
    <3> QED  BY <1>3, <3>1, <3>5
  <2>7. CASE o = d
    <3> DEFINE old == ofds[d]
               new == ofds'[d]
    <3>1. ofds'[d] = x
      BY <1>2, <2>1, <2>2
    <3>2. /\ new.name = old.name /\ new.write = old.write /\ new.split = old.split
          /\ new.init = old.init /\ new.followed = old.followed
      BY <2>3, <2>4, <2>5, <3>1 DEF Alters
    <3>3. IF old.write
          THEN /\ old.name # None /\ old.followed
               /\ size[old.name] = Longer(old.init, old.peak)
               /\ quirks = {} => ~old.split
          ELSE old.peak = 0
      BY <2>2 DEF DescriptionsMeasure
    <3>4. \/ size'[old.name] = size[old.name] /\ new.peak = old.peak
          \/ old.write /\ \E e \in Nat : new.peak = Longer(old.peak, e)
                                         /\ size'[old.name] = Longer(size[old.name], e)
      <4>1. CASE r.nr = "write"
        <5>1. Landing(old) + 1 \in Nat
          BY <2>2
        <5> QED  BY <2>5, <4>1, <5>1 DEF Alters
      <4>2. CASE r.nr \in Naming
        <5>1. 0 .. MaxLength \subseteq Nat
          BY LengthsAreSizes
        <5> QED  BY <2>5, <4>2, <5>1 DEF Alters
      <4>3. CASE r.nr \in {"lseek", "F_SETFL"}
        BY <2>5, <4>3 DEF Alters
      <4> QED  BY <2>1, <4>1, <4>2, <4>3 DEF Moves, Naming
    <3>5. old.write => size'[old.name] = Longer(old.init, new.peak)
      <4>1. CASE size'[old.name] = size[old.name] /\ new.peak = old.peak
        BY <3>3, <4>1
      <4>2. ASSUME old.write, NEW e \in Nat, new.peak = Longer(old.peak, e),
                   size'[old.name] = Longer(size[old.name], e)
            PROVE  size'[old.name] = Longer(old.init, new.peak)
        <5>1. old.init \in Int /\ old.peak \in Int /\ e \in Int
          BY <2>2
        <5> HIDE DEF old, new
        <5>a. PICK i \in Int : i = old.init
          BY <5>1
        <5>b. PICK k \in Int : k = old.peak
          BY <5>1
        <5>c. Longer(Longer(i, k), e) = Longer(i, Longer(k, e))
          BY <5>1, LongerLonger
        <5>2. Longer(Longer(old.init, old.peak), e) = Longer(old.init, Longer(old.peak, e))
          BY <5>a, <5>b, <5>c
        <5> QED  BY <3>3, <4>2, <5>2
      <4> QED  BY <3>4, <4>1, <4>2
    <3>6. ~old.write => new.peak = 0
      BY <3>3, <3>4
    <3> HIDE DEF old, new
    <3>7. IF new.write
          THEN /\ new.name # None /\ new.followed
               /\ size'[new.name] = Longer(new.init, new.peak)
               /\ quirks' = {} => ~new.split
          ELSE new.peak = 0
      BY <1>1, <3>2, <3>3, <3>5, <3>6
    <3> QED  BY <2>7, <3>7 DEF new
  <2> QED  BY <2>6, <2>7
<1>5. CASE Rewired(p, r)
  <2>1. SetDescriptors(kfds', ofds) /\ size' = size
    BY <1>5 DEF Rewired, files
  <2>2. ofds'[o] = ofds[o] \/ ofds'[o] = Free
    BY <1>2, <2>1, HeldStay DEF TypedInv
  <2>3. Free.write = FALSE /\ Free.peak = 0
    BY DEF Free
  <2> QED  BY <1>3, <2>1, <2>2, <2>3
<1>6. ASSUME NEW d, NEW x, Begun(p, r, d, x)
      PROVE  IF ofds'[o].write
             THEN /\ ofds'[o].name # None /\ ofds'[o].followed
                  /\ size'[ofds'[o].name] = Longer(ofds'[o].init, ofds'[o].peak)
                  /\ quirks' = {} => ~ofds'[o].split
             ELSE ofds'[o].peak = 0
  <2> DEFINE D == [ofds EXCEPT ![d] = x]
             g == group[p]
  <2>1. /\ d \in Ofd /\ ofds[d].name = None /\ SetDescriptors(kfds', D) /\ x \in Description
        /\ size' = [size EXCEPT ![r.name] = size'[r.name]] /\ r.name \in Name
        /\ size'[r.name] \in 0 .. MaxLength
        /\ size'[r.name] # size[r.name] => x.write
        /\ x.write => \A c \in Ofd : ofds[c].name = r.name => ~ofds[c].write
        /\ r.ret \in Fd /\ kfds'[g][r.ret].ofd = d /\ x.name = r.name /\ (x.write <=> Follows(r))
        /\ ~x.split /\ x.peak = 0 /\ x.init = size'[r.name] /\ r.nr \in {"open", "creat"}
    BY <1>6, OrdinaryIs DEF Begun
  <2>2. D \in [Ofd -> Description] /\ D[d] = x /\ \A c \in Ofd \ {d} : D[c] = ofds[c]
    BY <1>2, <2>1
  <2> HIDE DEF D
  <2>3. ofds'[o] = D[o] \/ ofds'[o] = Free
    BY <2>1, <2>2, HeldStay DEF TypedInv
  <2>4. CASE ofds'[o] = Free
    BY <2>4 DEF Free
  <2>5. CASE ofds'[o] = D[o] /\ o # d
    <3>1. ofds'[o] = ofds[o]
      BY <2>2, <2>5
    <3>2. ofds[o].write => ofds[o].name \in Name
      BY <1>2 DEF DescriptionsMeasure, Description
    <3>3. ofds[o].write => size'[ofds[o].name] = size[ofds[o].name]
      BY <1>2, <2>1, <3>2
    <3> QED  BY <1>3, <3>1, <3>3
  <2>6. CASE ofds'[o] = D[o] /\ o = d
    <3>1. ofds'[o] = x
      BY <2>2, <2>6
    <3>2. x.write => x.followed
      BY <1>1, <2>1, <2>6, <3>1 DEF Carried
    <3>3. r.name # None /\ size'[r.name] = Longer(x.init, x.peak)
      <4>1. size'[r.name] >= 0
        BY <2>1
      <4> QED  BY <2>1, <4>1, AccountingAssumption DEF Longer
    <3> QED  BY <2>1, <3>1, <3>2, <3>3
  <2> QED  BY <2>3, <2>4, <2>5, <2>6
<1> QED  BY <1>4, <1>5, <1>6 DEF Taken

LEMMA GrowthIs ==
  ASSUME NEW o, o.peak \in Nat, o.init \in Nat
  PROVE  /\ Growth(o) \in Nat /\ (o.peak = 0 => Growth(o) = 0)
         /\ Growth(o) + o.init = Longer(o.init, o.peak)
BY DEF Growth, Longer

\* What has been written grows as the file does that is written to.
LEMMA CalledWrites ==
  ASSUME TypedInv, KernelTyped', DescriptionsMeasure, DescriptionsMeasure', OneWriter,
         grown \in Nat, grown' \in Nat, NEW p \in Pid, group[p] \in Pid,
         NEW r, Called(p, r), Taken(p, r), Ordinary', NEW d, d = Touched(p, r)
  PROVE  IF r.nr \in Naming \cup {"write"}
         THEN /\ ofds[d].write
              /\ Written' + size[ofds[d].name] = Written + size'[ofds[d].name]
         ELSE Written' = Written
<1>1. ofds \in [Ofd -> Description] /\ ofds' \in [Ofd -> Description]
  BY DEF TypedInv, KernelTyped
<1>2. WrittenInv /\ WrittenInv'
  BY WrittenIs, WrittenIsNext DEF TypedInv
<1>3. \A D \in [Ofd -> Description] : Measured(D)
  BY DescriptionsMeasured
<1>4. ASSUME NEW x, Moved(p, r, x)
      PROVE  IF r.nr \in Naming \cup {"write"}
             THEN /\ ofds[d].write
                  /\ Written' + size[ofds[d].name] = Written + size'[ofds[d].name]
             ELSE Written' = Written
  <2>1. /\ r.nr \in Moves \cup {"F_SETFL"} /\ d # None /\ r.fd \in Fd
        /\ ofds' = [ofds EXCEPT ![d] = x] /\ grown' = grown /\ d = kfds[group[p]][r.fd].ofd
    <3>a. d = kfds[group[p]][r.fd].ofd
      BY <1>4 DEF Moved, Touched
    <3>b. PICK old : old = ofds[d]
      OBVIOUS
    <3>c. PICK name : name = old.name
      OBVIOUS
    <3>m. MovesOne(r, x, d, old, name)
      BY <1>4, <3>a, <3>b, <3>c, MovedIs, Zenon
    <3> QED  BY <3>a, <3>m, Zenon DEF MovesOne
  <2>2. /\ d \in Ofd /\ size[ofds[d].name] \in Nat /\ Landing(ofds[d]) \in Nat
        /\ ofds[d].peak \in Nat /\ ofds[d].init \in Nat
    BY <2>1, LandsIn DEF TypedInv
  <2>3. x.init = ofds[d].init /\ ofds'[d] = x /\ x \in Description
    BY <1>1, <1>4, <2>1, <2>2 DEF Moved
  <2>4. Alters(p, r)
    BY <2>1, CallAlters
  <2>5. Written' + Growth(ofds[d]) = Written + Growth(x)
    BY <1>1, <1>2, <2>1, <2>2, WrittenThrough
  <2>6. Written \in Nat /\ Written' \in Nat
    BY <1>2 DEF WrittenInv
  <2>7. x.peak \in Nat /\ x.init \in Nat
    BY <2>3, LengthsAreSizes DEF Description
  <2> DEFINE name == ofds[d].name
  <2>8. CASE r.nr \in Naming \cup {"write"}
    <3>1. ofds[d].write /\ x.write /\ x.name = name
      BY <2>3, <2>4, <2>8 DEF Alters
    <3>2. size[name] = Longer(ofds[d].init, ofds[d].peak)
      BY <2>2, <3>1 DEF DescriptionsMeasure
    <3>3. size'[name] = Longer(x.init, x.peak)
      BY <2>2, <2>3, <3>1 DEF DescriptionsMeasure
    <3>4. /\ Growth(ofds[d]) \in Nat /\ Growth(ofds[d]) + ofds[d].init = size[name]
          /\ Growth(x) \in Nat /\ Growth(x) + ofds[d].init = size'[name]
      BY <2>2, <2>3, <2>7, <3>2, <3>3, GrowthIs
    <3> HIDE DEF name
    <3>5. Written' + size[name] = Written + size'[name]
      BY <2>2, <2>5, <2>6, <3>4
    <3> QED  BY <2>8, <3>1, <3>5 DEF name
  <2>9. CASE r.nr \notin Naming \cup {"write"}
    <3>1. x.peak = ofds[d].peak
      BY <2>1, <2>3, <2>4, <2>9 DEF Alters, Naming, Moves
    <3>2. Growth(x) = Growth(ofds[d]) /\ Growth(x) \in Nat
      BY <2>3, <2>7, <3>1, GrowthIs DEF Growth
    <3> QED  BY <2>5, <2>6, <2>9, <3>2
  <2> QED  BY <2>8, <2>9
<1>5. CASE Rewired(p, r)
  <2>1. SetDescriptors(kfds', ofds) /\ r.nr \notin Naming \cup {"write"}
    BY <1>5 DEF Rewired, Naming, Dups, NewFd
  <2>2. Written' = Written
    BY <1>1, <1>2, <1>3, <2>1, WrittenStays
  <2> QED  BY <2>1, <2>2
<1>6. ASSUME NEW o, NEW x, Begun(p, r, o, x)
      PROVE  r.nr \notin Naming \cup {"write"} /\ Written' = Written
  <2> DEFINE D == [ofds EXCEPT ![o] = x]
  <2>1. /\ o \in Ofd /\ ofds[o].name = None /\ SetDescriptors(kfds', D) /\ x \in Description
        /\ x.peak = 0 /\ r.nr \notin Naming \cup {"write"}
    BY <1>6 DEF Begun, Naming
  <2>2. D \in [Ofd -> Description] /\ D[o] = x /\ \A c \in Ofd \ {o} : D[c] = ofds[c]
    BY <1>1, <2>1
  <2>3. ofds[o].peak = 0
    BY <2>1 DEF DescriptionsMeasure
  <2> HIDE DEF D
  <2>4. Measured(D) /\ Measured(ofds)
    BY <1>1, <1>3, <2>2
  <2>5. \A c \in Ofd : Growth(D[c]) = Growth(ofds[c])
    <3> TAKE c \in Ofd
    <3>1. CASE c = o
      <4>1. Growth(x) = 0 /\ Growth(ofds[o]) = 0
        BY <2>1, <2>2, <2>3, <2>4, GrowthIs DEF Measured
      <4> QED  BY <2>2, <3>1, <4>1
    <3> QED  BY <2>2, <3>1
  <2>6. Written' = Written
    BY <1>2, <2>1, <2>4, <2>5, WrittenStays
  <2> QED  BY <2>1, <2>6
<1> QED  BY <1>4, <1>5, <1>6 DEF Taken

\* The state of the program, as long as it keeps to what the context follows.
Exact ==
  /\ TypedInv /\ LifeInv /\ OutputSize \in Nat /\ grown \in Nat
  /\ AgreeInv /\ OneOwner /\ LengthsAgree /\ OneWriter /\ (\A g \in Pid : StandsOn(g))
  /\ DescriptionsMeasure /\ (\A g \in Pid : CountsOn(g))

LEMMA AtBecomes ==
  ASSUME NEW g, NEW e, NEW a, NEW s, s = ProcMap[g], ProcMap'[g] = s,
         NEW o, kfds'[g][a].ofd = o,
         o # None => MeasuresUp(e.file, Top(s, e)', e.file.CurrPos + Writes(s, e)',
                                ofds'[o], size'[ofds'[o].name])
  PROVE  MeasuresAt(g, e, a)'
<1> DEFINE t == Top(s, e)'
           n == Writes(s, e)'
<1>1. Top(ProcMap[g], e)' = t /\ Writes(ProcMap[g], e)' = n
  OBVIOUS
<1>2. o # None => MeasuresUp(e.file, t, e.file.CurrPos + n, ofds'[o], size'[ofds'[o].name])
  OBVIOUS
<1> HIDE DEF t, n
<1>3. (kfds[g][a].ofd # None =>
         MeasuresUp(e.file, Top(ProcMap[g], e), e.file.CurrPos + Writes(ProcMap[g], e),
                    ofds[kfds[g][a].ofd], size[ofds[kfds[g][a].ofd].name]))'
  BY <1>1, <1>2
<1> QED  BY <1>3 DEF MeasuresAt

\* The file state of a slot no call is about that would change it.
\* Which descriptors are in an entry with another.
LEMMA GroupedOne ==
  ASSUME NEW table, NEW fds, NEW busy, Grouped(table, fds, busy),
         NEW e \in table, NEW a \in e.slots, a \notin busy, NEW o, o = fds[a].ofd
  PROVE  /\ \A b \in e.slots : b \notin busy => fds[b].ofd = o
         /\ \A b \in Fd : b \notin busy /\ fds[b].ofd = o /\ Sole(o) => b \in e.slots
BY DEF Grouped

LEMMA CalledAt ==
  ASSUME Exact, KernelTyped', NEW p \in Pid, NEW r, Called(p, r), Taken(p, r), Ordinary',
         NEW g, Making(p, r, g), NEW s, s = ProcMap[g], ProcMap[p] = s,
         NEW e \in Table(g), NEW a \in e.slots, a \notin Busy(g), a \notin Changes(r),
         NEW d, d = Touched(p, r)
  PROVE  /\ MeasuresAt(g, e, a)'
         /\ r.nr \in Naming \cup {"write"} /\ r.fd \in e.slots =>
              /\ Top(s, e)' + size[ofds[d].name] <= size'[ofds[d].name] + Top(s, e)
              /\ ~ofds[d].split =>
                   Top(s, e)' + size[ofds[d].name] = size'[ofds[d].name] + Top(s, e)
<1>1. /\ g \in Pid /\ group[p] = g /\ Table(g) \in SUBSET Entry /\ Live(g)
      /\ RegsTyped(r) /\ Busy(g) \cap Slots(r) = {}
      /\ kfds'[g][a].ofd = kfds[g][a].ofd
      /\ kfds[g][a].ofd = None \/ (kfds[g][a].ofd \in Ofd /\ Stays(kfds[g][a].ofd))
  <2>1. e \in Entry /\ a \in Fd
    BY DEF Making, Entry
  <2> QED  BY <2>1 DEF Making
<1>2. e \in Entry /\ a \in Fd /\ e.slots \subseteq Fd
  BY <1>1 DEF Entry
<1>3. /\ TypedInv /\ LifeInv /\ KernelTyped /\ HeldInv /\ OneWriter /\ OneOwner /\ CallsReach
      /\ Grouped(Table(g), kfds[g], Busy(g)) /\ Follow(g, Busy(g)) /\ Measures(g, Busy(g))
      /\ ThreadInv
  BY <1>1, ReachIs DEF Exact, TypedInv, StandsOn, CountsOn, LifeInv
<1> DEFINE o == kfds[g][a].ofd
           hits == r.fd \in e.slots
           about == r.nr \in Naming \cup {"write"}
           t == Top(s, e)
           n == Writes(s, e)
           c == e.file.CurrPos + n
<1>4. /\ MeasuresAt(g, e, a) /\ ProcMap'[g] = s /\ t \in Nat /\ n \in Nat /\ e.file.CurrPos \in Nat
      /\ o # None => MeasuresUp(e.file, t, c, ofds[o], size[ofds[o].name])
  <2>1. n \in Nat
    BY ViaIs DEF Writes
  <2>2. MeasuresAt(g, e, a)
    BY <1>3 DEF Measures
  <2>3. ProcMap' = ProcMap
    BY DEF Called, contextVars
  <2> QED  BY <1>2, <1>3, <2>1, <2>2, <2>3, TopIs DEF MeasuresAt
<1>g. /\ \A b \in e.slots : b \notin Busy(g) => kfds[g][b].ofd = o
      /\ \A b \in Fd : b \notin Busy(g) /\ kfds[g][b].ofd = o /\ Sole(o) => b \in e.slots
  <2>1. PICK table : table = Table(g)
    OBVIOUS
  <2>2. PICK fds : fds = kfds[g]
    OBVIOUS
  <2>3. PICK busy : busy = Busy(g)
    OBVIOUS
  <2>4. PICK x : x = fds[a].ofd
    OBVIOUS
  <2>5. Grouped(table, fds, busy) /\ e \in table /\ a \notin busy /\ o = x
    BY <1>3, <2>1, <2>2, <2>3, <2>4
  <2>6. /\ \A b \in e.slots : b \notin busy => fds[b].ofd = x
        /\ \A b \in Fd : b \notin busy /\ fds[b].ofd = x /\ Sole(x) => b \in e.slots
    BY <2>4, <2>5, GroupedOne
  <2> HIDE DEF o
  <2> QED  BY <2>2, <2>3, <2>5, <2>6
<1>5. about /\ hits => r.fd \notin Busy(g) /\ kfds[g][r.fd].ofd = o /\ d = kfds[g][r.fd].ofd
  <2>1. about => r.nr \notin {"open", "creat"} /\ r.nr \in Moves \cup {"F_SETFL"}
    BY DEF Naming, Moves
  <2>2. about => r.fd \in Slots(r)
    BY <1>1, <2>1, ChangesAre
  <2>3. about => d = kfds[g][r.fd].ofd
    BY <1>1, <2>1 DEF Touched
  <2> QED  BY <1>1, <1>g, <2>2, <2>3
<1>6. r.nr \in Moves \cup {"F_SETFL"} => Alters(p, r) /\ d = kfds[g][r.fd].ofd /\ d \in Ofd
  <2>1. r.nr \in Moves \cup {"F_SETFL"} => d = kfds[g][r.fd].ofd
    BY <1>1 DEF Touched
  <2> QED  BY <1>1, <1>3, <2>1, CallAlters DEF Alters
<1>7. r.nr \in Naming => End(r) \in Nat
  <2>1. 0 .. MaxLength \subseteq Nat /\ (r.nr \in Naming => r.nr \in Moves)
    BY LengthsAreSizes DEF Moves, Naming
  <2> QED  BY <1>6, <2>1 DEF Alters
<1>8. /\ hits /\ r.nr = "write" => n' = n + 1 /\ t' = Longer(t, e.file.CurrPos + n + 1)
      /\ hits /\ r.nr \in Naming => n' = n /\ t' = Longer(t, End(r))
      /\ ~hits \/ ~about => n' = n /\ t' = t
  <2> HIDE DEF o, hits, about, t, n, c
  <2>1. ProcMap[p] = s /\ e \in Entry /\ (r.nr \in Naming => End(r) \in Nat)
    BY <1>2, <1>7
  <2>2. Reaching(p, r, s, e)
    BY <1>3, <2>1, CalledReaches
  <2> QED  BY <2>1, <2>2 DEF Reaching, hits, about, t, n
<1>9. CASE o # d \/ o = None
  <2>1. ~hits \/ ~about
    <3>1. o = d => d = None
      BY <1>9
    <3>2. about => r.nr \in Moves \cup {"F_SETFL"}
      BY DEF Naming, Moves
    <3> QED  BY <1>5, <1>6, <3>1, <3>2 DEF Alters
  <2>2. o # None => Still(o)
    <3> SUFFICES ASSUME o # None PROVE Still(o)
      OBVIOUS
    <3>1. o \in Ofd /\ Stays(o) /\ o # Touched(p, r) /\ group[p] \in Pid
      BY <1>1, <1>9
    <3> HIDE DEF o
    <3>2. ofds'[o] = ofds[o] /\ (ofds[o].write => size'[ofds[o].name] = size[ofds[o].name])
      BY <1>3, <3>1, SteadyIs, OrdinaryIs
    <3> QED  BY <3>2 DEF Still
  <2>3. Top(s, e)' = Top(s, e) /\ Writes(s, e)' = Writes(s, e)
    BY <1>8, <2>1
  <2>4. MeasuresAt(g, e, a)'
    <3> HIDE DEF o
    <3> QED  BY <1>1, <1>4, <2>2, <2>3, AtStays DEF o
  <2> QED  BY <2>1, <2>4
<1>10. CASE o = d /\ d # None
  <2> DEFINE old == ofds[d]
             new == ofds'[d]
             z == size[old.name]
             z1 == size'[old.name]
             c1 == e.file.CurrPos + n'
  <2>1. /\ r.nr \in Moves \cup {"F_SETFL"} /\ Alters(p, r) /\ d = kfds[g][r.fd].ofd /\ r.fd \in Fd
        /\ MeasuresUp(e.file, t, c, old, z)
    <3>1. r.nr \in Moves \cup {"F_SETFL"}
      BY <1>10 DEF Touched
    <3>2. r.nr \notin {"open", "creat"}
      BY <3>1 DEF Moves
    <3> QED  BY <1>1, <1>4, <1>6, <1>10, <3>1, <3>2 DEF RegsTyped
  <2>2. /\ new.name = old.name /\ new.write = old.write /\ new.split = old.split
    BY <2>1 DEF Alters
  <2>3. z \in Nat /\ old.pos \in Nat /\ Landing(old) \in Nat /\ old \in Description
    BY <1>1, <1>3, <1>10, <2>1, LandsIn
  <2>4. ASSUME MeasuresUp(e.file, t', c1, new, z1)
        PROVE  MeasuresAt(g, e, a)'
    <3>1. Top(s, e)' = t' /\ Writes(s, e)' = n' /\ kfds'[g][a].ofd = d
      BY <1>1, <1>10
    <3>2. MeasuresUp(e.file, Top(s, e)', e.file.CurrPos + Writes(s, e)',
                     ofds'[d], size'[ofds'[d].name])
      BY <2>2, <2>4
    <3> QED  BY <1>4, <3>1, <3>2, AtBecomes
  <2>5. old.write /\ ~old.split => hits \/ ~about
    <3> SUFFICES ASSUME old.write, ~old.split, about PROVE hits
      OBVIOUS
    <3>1. r.fd \in Slots(r) /\ r.fd \notin Busy(g)
      <4>1. r.nr \notin {"open", "creat"}
        BY DEF Naming
      <4> QED  BY <1>1, <4>1, ChangesAre
    <3>2. Sole(o)
      BY <1>10 DEF Sole
    <3> HIDE DEF o, old
    <3> QED  BY <1>g, <1>10, <2>1, <3>1, <3>2 DEF hits
  <2>6. CASE ~old.write
    <3>1. ~about
      BY <2>1, <2>6 DEF Alters
    <3>2. MeasuresUp(e.file, t', c1, new, z1)
      BY <2>1, <2>2, <2>6 DEF MeasuresUp
    <3> QED  BY <2>4, <3>1, <3>2
  <2>7. CASE old.write /\ ~about
    <3>1. r.nr \in {"lseek", "F_SETFL"}
      BY <2>1, <2>7 DEF Moves, Naming
    <3>2. z1 = z /\ t' = t /\ n' = n
      BY <1>8, <2>1, <2>7, <3>1 DEF Alters
    <3>3. (r.nr = "lseek" => ~old.split) /\ (r.nr = "F_SETFL" => new.append = old.append /\ new.pos = old.pos)
      BY <2>1 DEF Alters
    <3>4. MeasuresUp(e.file, t', c1, new, z1)
      <4>1. c1 = c
        BY <3>2
      <4> HIDE DEF t, z, z1, c, c1, new, old
      <4> QED  BY <2>1, <2>2, <2>7, <3>1, <3>2, <3>3, <4>1 DEF MeasuresUp
    <3> QED  BY <2>4, <2>7, <3>4
  <2>8. CASE old.write /\ r.nr = "write"
    <3> DEFINE L == IF old.append THEN z ELSE old.pos
    <3>1. L = Landing(old)
      BY DEF Landing
    <3>2. new.append = old.append /\ new.pos = L + 1 /\ z1 = Longer(z, L + 1)
      BY <2>1, <2>8, <3>1 DEF Alters
    <3>3. ~old.split => c = L
      <4> SUFFICES ASSUME ~old.split PROVE c = L
        OBVIOUS
      <4>1. Sole(o) /\ hits
        BY <1>10, <2>5, <2>8 DEF Sole
      <4>2. Via(s, e.slots, {"lseek"}) = {}
        <5> SUFFICES ASSUME NEW q \in Via(s, e.slots, {"lseek"}) PROVE FALSE
          OBVIOUS
        <5>1. /\ q \in Pid /\ stop[q].event = "syscall" /\ ProcMap[q] = s
              /\ stop[q].regs.nr = "lseek" /\ stop[q].regs.fd \in e.slots
          BY DEF Via
        <5>2. q \in Calls(g)
          <6>1. g \in Registered /\ group[g] = g /\ stop[q] # Absent /\ stop[q].event # "born"
            BY <1>1, <1>3, <5>1, LiveAreKnown, Events DEF TypedInv
          <6>2. q \in Registered /\ (ProcMap[q] = ProcMap[g] <=> group[q] = group[g])
            BY <1>3, <5>1, <6>1, LeadersAreKnown
          <6> QED  BY <5>1, <6>1, <6>2 DEF Calls
        <5>3. kfds[g][r.fd].ofd # kfds[g][stop[q].regs.fd].ofd
          <6>1. {r.nr, stop[q].regs.nr} \in {{"lseek"}, {"lseek", "write"}}
            BY <2>8, <5>1
          <6> QED  BY <5>2, <6>1 DEF Making
        <5>4. stop[q].regs.fd \notin Busy(g)
          <6> SUFFICES ASSUME stop[q].regs.fd \in Busy(g) PROVE FALSE
            OBVIOUS
          <6>1. PICK x \in Calls(g) : stop[q].regs.fd \in Changes(stop[x].regs)
            BY BusyIs
          <6>2. RegsTyped(stop[q].regs)
            BY <5>2 DEF Making
          <6>3. stop[q].regs.fd \in Slots(stop[q].regs) /\ Changes(stop[q].regs) = {}
            BY <5>1, <6>2, ChangesAre
          <6>4. Apart(stop[x].regs, stop[q].regs)
            <7>1. x # q
              BY <6>1, <6>3
            <7> QED  BY <1>1, <5>2, <6>1, <7>1 DEF Exact, StandsOn, Commute
          <6> QED  BY <6>1, <6>3, <6>4, ApartSlots
        <5> HIDE DEF o
        <5> QED  BY <1>g, <1>10, <2>1, <5>1, <5>3, <5>4
      <4>3. c = Landing(ofds[o])
        BY <1>3, <4>1, <4>2 DEF Follow
      <4> QED  BY <1>10, <3>1, <4>3
    <3>4. \/ t' = Longer(t, c + 1) /\ c1 = c + 1 /\ (~old.split => c = L) /\ hits
          \/ t' = t /\ c1 = c /\ old.split /\ ~hits
      <4>1. CASE hits
        BY <1>4, <1>8, <2>8, <3>3, <4>1
      <4>2. CASE ~hits
        BY <1>4, <1>8, <2>5, <2>8, <4>2
      <4> QED  BY <4>1, <4>2
    <3>5. c \in Nat
      BY <1>4
    <3> HIDE DEF t, z, z1, c, c1, new, old, L, hits
    <3>6. /\ MeasuresUp(e.file, t', c1, new, z1)
          /\ t' + z <= z1 + t /\ (~old.split => t' + z = z1 + t)
      <4>1. t \in Nat /\ c \in Nat /\ z \in Nat /\ old.pos \in Nat
        BY <1>4, <2>3, <3>5
      <4>2. MeasuresUp(e.file, t, c, old, z) /\ old.write
        BY <2>1, <2>8
      <4>3. /\ new.write = old.write /\ new.name = old.name /\ new.split = old.split
            /\ new.append = old.append /\ new.pos = L + 1 /\ z1 = Longer(z, L + 1)
        BY <2>2, <3>2
      <4>4. L = IF old.append THEN z ELSE old.pos
        BY DEF L
      <4>5. \/ t' = Longer(t, c + 1) /\ c1 = c + 1 /\ (~old.split => c = L)
            \/ t' = t /\ c1 = c /\ old.split
        BY <3>4
      <4>6. L \in Nat
        BY <4>1, <4>4
      <4>7. CASE ~old.split
        BY <4>1, <4>2, <4>3, <4>4, <4>5, <4>6, <4>7 DEF MeasuresUp, Longer
      <4>8. CASE old.split
        <5>1. t <= z /\ c <= t /\ c <= L /\ z <= Longer(t, L) /\ e.file.Filename = old.name
          BY <4>2, <4>4, <4>8 DEF MeasuresUp
        <5>2. L + 1 = (IF new.append THEN z1 ELSE new.pos)
          BY <4>1, <4>3, <4>4, <4>6 DEF Longer
        <5>3. /\ t' <= z1 /\ c1 <= t' /\ c1 <= L + 1 /\ z1 <= Longer(t', L + 1)
              /\ t' \in Nat /\ z1 \in Nat /\ t' + z <= z1 + t
          BY <4>1, <4>3, <4>5, <4>6, <4>8, <5>1 DEF Longer
        <5> QED  BY <4>2, <4>3, <4>8, <5>1, <5>2, <5>3 DEF MeasuresUp
      <4> QED  BY <4>7, <4>8
    <3> QED  BY <2>4, <3>6 DEF t, z, z1, old
  <2>9. CASE old.write /\ r.nr \in Naming
    <3>1. ~old.split /\ z1 = Longer(z, End(r)) /\ End(r) \in Nat
      BY <1>7, <2>1, <2>9 DEF Alters
    <3>2. t = z /\ e.file.Filename = old.name
      BY <2>1, <2>9, <3>1 DEF MeasuresUp
    <3>3. t' = z1
      BY <1>8, <2>5, <2>9, <3>1, <3>2
    <3>4. MeasuresUp(e.file, t', c1, new, z1)
      BY <2>2, <2>9, <3>1, <3>2, <3>3 DEF MeasuresUp
    <3>5. z1 \in Nat
      <4> HIDE DEF z, z1
      <4> QED  BY <2>3, <3>1, LongerIs
    <3>6. t' + z <= z1 + t /\ t' + z = z1 + t
      <4> HIDE DEF t, z, z1
      <4> QED  BY <2>3, <3>2, <3>3, <3>5
    <3> QED  BY <2>4, <3>4, <3>6
  <2> QED  BY <2>6, <2>7, <2>8, <2>9
<1> QED  BY <1>9, <1>10

\* Another process has written through a description of several file states.
LEMMA BehindStays ==
  ASSUME NEW file, NEW t \in Nat, NEW c \in Nat, NEW old, NEW x, NEW z \in Nat,
         MeasuresUp(file, t, c, old, z), old.write, old.split, old.pos \in Nat,
         x.write = old.write, x.name = old.name, x.split = old.split, x.append = old.append,
         x.pos = (IF old.append THEN z ELSE old.pos) + 1
  PROVE  MeasuresUp(file, t, c, x, Longer(z, x.pos))
<1> DEFINE L == IF old.append THEN z ELSE old.pos
           z1 == Longer(z, L + 1)
<1>1. L \in Nat
  OBVIOUS
<1>2. t <= z /\ c <= t /\ c <= L /\ z <= Longer(t, L) /\ file.Filename = old.name
  BY DEF MeasuresUp
<1>3. L + 1 = (IF x.append THEN z1 ELSE x.pos)
  BY <1>1 DEF Longer
<1>4. x.pos = L + 1
  OBVIOUS
<1> HIDE DEF L
<1>5. t <= z1 /\ c <= L + 1 /\ z1 <= Longer(t, L + 1)
  BY <1>1, <1>2 DEF Longer
<1> QED  BY <1>1, <1>2, <1>3, <1>4, <1>5 DEF MeasuresUp

\* What a call leaves of the processes that do not make it.
LEMMA OthersAt ==
  ASSUME Exact, KernelTyped', NEW p \in Pid, NEW r, Called(p, r), Taken(p, r), Ordinary',
         NEW g \in Pid, group[p] # g, group[p] \in Pid, Quiet(ProcMap[g]),
         Table(g) \in SUBSET Entry,
         NEW e \in Table(g), NEW a \in e.slots, MeasuresAt(g, e, a)
  PROVE  MeasuresAt(g, e, a)'
<1> DEFINE o == kfds[g][a].ofd
           s == ProcMap[g]
<1>1. /\ TypedInv /\ KernelTyped /\ HeldInv /\ OneWriter /\ OneOwner /\ CallsReach /\ RegsTyped(r)
      /\ e \in Entry /\ a \in Fd /\ ProcMap' = ProcMap /\ kfds'[g] = kfds[g]
  <2>1. e \in Entry
    OBVIOUS
  <2>2. a \in Fd
    BY <2>1 DEF Entry
  <2> QED  BY <2>1, <2>2, ReachIs DEF Exact, TypedInv, Called, contextVars
<1>2. Writes(s, e)' = Writes(s, e) /\ Top(s, e)' = Top(s, e)
  <2>1. \A y : Quiet(y) => Writes(y, e)' = Writes(y, e) /\ Top(y, e)' = Top(y, e)
    BY TopStays DEF Quiet
  <2>2. (s)' = s
    BY <1>1
  <2> QED  BY <2>1, <2>2
<1>3. ASSUME o = None \/ Still(o)
      PROVE  MeasuresAt(g, e, a)'
  <2>1. kfds'[g][a].ofd = o /\ ProcMap'[g] = ProcMap[g]
    BY <1>1
  <2> QED  BY <1>2, <1>3, <2>1, AtStays
<1>4. CASE o # None /\ o # Touched(p, r)
  <2>1. o \in Ofd /\ Stays(o)
    BY <1>1, <1>4 DEF KernelTyped, Stays
  <2>2. ofds'[o] = ofds[o] /\ (ofds[o].write => size'[ofds[o].name] = size[ofds[o].name])
    <3> HIDE DEF o
    <3> QED  BY <1>1, <1>4, <2>1, SteadyIs, OrdinaryIs
  <2>3. Still(o)
    <3> HIDE DEF o
    <3> QED  BY <2>2 DEF Still
  <2> QED  BY <1>3, <2>3
<1>5. CASE o # None /\ o = Touched(p, r)
  <2>1. r.nr \in Moves \cup {"F_SETFL"} /\ o = kfds[group[p]][r.fd].ofd /\ r.fd \in Fd
    BY <1>1, <1>5 DEF Touched, Moves, RegsTyped
  <2>2. ~Sole(o)
    BY <1>1, <1>5, <2>1 DEF OneOwner
  <2>3. Alters(p, r)
    BY <1>1, <2>1, CallAlters
  <2> DEFINE old == ofds[o]
             new == ofds'[o]
             z == size[old.name]
  <2>4. /\ new.name = old.name /\ new.write = old.write /\ new.split = old.split
        /\ old.write => old.split
        /\ r.nr = "write" =>
             /\ old.write /\ new.append = old.append /\ new.pos = Landing(old) + 1
             /\ size'[old.name] = Longer(z, Landing(old) + 1)
        /\ r.nr \in Naming \cup {"lseek"} => ~old.split
        /\ r.nr \in Naming => old.write
        /\ r.nr = "lseek" => size'[old.name] = z
        /\ r.nr = "F_SETFL" => size'[old.name] = z /\ new.append = old.append /\ new.pos = old.pos
    <3>1. old.write => old.split
      BY <1>5, <2>2 DEF Sole
    <3>2. PICK u : u = old
      OBVIOUS
    <3>3. PICK v : v = new
      OBVIOUS
    <3>4. Touched(p, r) = o
      BY <1>5
    <3> HIDE DEF old, new
    <3>5. /\ v.name = u.name /\ v.write = u.write /\ v.split = u.split
          /\ r.nr = "write" =>
               /\ u.write /\ v.append = u.append /\ v.pos = Landing(u) + 1
               /\ size'[u.name] = Longer(size[u.name], Landing(u) + 1)
          /\ r.nr \in Naming => u.write /\ ~u.split
          /\ r.nr = "lseek" => size'[u.name] = size[u.name] /\ ~u.split
          /\ r.nr = "F_SETFL" => size'[u.name] = size[u.name] /\ v.append = u.append /\ v.pos = u.pos
      BY <2>3, <3>2, <3>3, <3>4, Zenon DEF Alters, old, new
    <3> QED  BY <3>1, <3>2, <3>3, <3>5
  <2>5. CASE r.nr # "write" \/ ~old.write
    <3>1. r.nr \in Naming \cup {"lseek", "F_SETFL", "write"}
      BY <2>1 DEF Moves, Naming
    <3>2. Still(o)
      BY <2>4, <2>5, <3>1 DEF Still
    <3> QED  BY <1>3, <3>2
  <2>6. CASE r.nr = "write" /\ old.write
    <3> DEFINE t == Top(s, e)
               c == e.file.CurrPos + Writes(s, e)
    <3>1. t \in Nat /\ c \in Nat /\ z \in Nat /\ old.pos \in Nat
      <4>1. z \in Nat /\ old.pos \in Nat
        BY <1>1, <1>5, LandsIn
      <4>2. Writes(s, e) \in Nat
        BY ViaIs DEF Writes
      <4>3. \A y : Top(y, e) \in Nat /\ e.file.CurrPos \in Nat
        BY <1>1, TopIs
      <4> QED  BY <4>1, <4>2, <4>3
    <3>2. MeasuresUp(e.file, t, c, old, z)
      BY <1>5 DEF MeasuresAt
    <3>3. new.pos = (IF old.append THEN z ELSE old.pos) + 1
      BY <2>4, <2>6 DEF Landing
    <3>4. new.append = old.append /\ size'[old.name] = Longer(z, new.pos)
      BY <2>4, <2>6
    <3>5. MeasuresUp(e.file, t, c, new, Longer(z, new.pos))
      <4> HIDE DEF t, c, old, new, z
      <4> QED  BY <2>4, <2>6, <3>1, <3>2, <3>3, <3>4, BehindStays
    <3>6. MeasuresUp(e.file, Top(s, e)', e.file.CurrPos + Writes(s, e)', ofds'[o], size'[ofds'[o].name])
      BY <1>2, <2>4, <3>4, <3>5
    <3>7. kfds'[g][a].ofd = o /\ ProcMap'[g] = s
      BY <1>1
    <3> QED  BY <3>6, <3>7, AtBecomes
  <2> QED  BY <2>5, <2>6
<1> QED  BY <1>3, <1>4, <1>5

LEMMA OthersCount ==
  ASSUME Exact, KernelTyped', NEW p \in Pid, NEW r, Called(p, r), Taken(p, r), Ordinary',
         NEW g \in Pid, group[p] # g
  PROVE  CountsOn(g)'
<1>1. /\ TypedInv /\ LifeInv /\ KernelTyped /\ OneOwner /\ CountsOn(g) /\ StandsOn(g)
      /\ RegsTyped(r) /\ stop[p] = Running /\ UNCHANGED <<contextVars, group, unlinked>>
  BY DEF Exact, TypedInv, Called
<1>2. group[p] \in Pid /\ p \in Registered /\ KnownInv /\ GroupInv /\ ThreadInv
  <2>1. stop[p] # Absent /\ stop[p].event # "born"
    BY <1>1, Events
  <2> QED  BY <1>1, <2>1, ActorsAreThere, LeadersAreKnown DEF LifeInv
<1>3. Shifts(p, r) /\ Places(p, r)
  <2>1. Shifts(p, r)
    BY <1>1, <1>2, CallsShift
  <2>2. Without(PositionKinds)'
    BY OrdinaryIs
  <2> QED  BY <2>1, <2>2 DEF Shifts, Exact
<1>4. Rests(g)
  BY <1>1, <1>2, <1>3, CalledRests
<1>5. \A q \in Pid : q # p => stop'[q] = stop[q]
  BY <1>2 DEF Called, ThreadInv
<1>6. stop'[p].event = "syscall"
  <2> DEFINE t == [Running EXCEPT !.event = "syscall", !.regs = r]
  <2>1. t.event = "syscall" /\ stop' = [stop EXCEPT ![p] = t]
    BY Events DEF Called
  <2> HIDE DEF t
  <2> QED  BY <1>2, <2>1 DEF ThreadInv
<1>7. stop'[g].event \in {"fork", "exec"} =>
        stop[g].event = stop'[g].event /\ group[g] = g /\ group'[g] = g
  <2> SUFFICES ASSUME stop'[g].event \in {"fork", "exec"}
               PROVE  stop[g].event = stop'[g].event /\ group[g] = g
    BY <1>1
  <2>1. stop'[g] = stop[g]
    BY <1>5, <1>6
  <2>2. stop[g] # Absent /\ Members(g) = {g}
    BY <1>2, <2>1, Events DEF GroupInv
  <2> QED  BY <1>1, <2>1, <2>2, LonersAre
<1>8. Live(g)' \/ stop'[g].event = "exec" =>
        /\ Table(g)' = Table(g) /\ Table(g) \in SUBSET Entry
        /\ \A e \in Table(g) : \A a \in e.slots : MeasuresAt(g, e, a) => MeasuresAt(g, e, a)'
  <2> SUFFICES ASSUME Live(g)' \/ stop'[g].event = "exec"
               PROVE  /\ Table(g)' = Table(g) /\ Table(g) \in SUBSET Entry
                      /\ \A e \in Table(g) : \A a \in e.slots :
                           MeasuresAt(g, e, a) => MeasuresAt(g, e, a)'
    OBVIOUS
  <2>1. (Live(g) \/ stop[g].event = "exec") /\ Table(g)' = Table(g)
    BY <1>4 DEF Rests
  <2>2. g \in Registered /\ group[g] = g /\ Table(g) \in SUBSET Entry
    BY <1>1, <2>1, ProgramsAre DEF ProgramsKnown
  <2>3. ProcMap[p] # ProcMap[g]
    BY <1>2, <2>2 DEF KnownInv
  <2>4. Quiet(ProcMap[g])
    BY <1>1, <1>5, <2>3 DEF Quiet, contextVars
  <2> QED  BY <1>2, <2>1, <2>2, <2>4, OthersAt
<1>9. Undisturbed(g)
  <2>1. kfds'[g] = kfds[g] /\ Calls(g)' = Calls(g) /\ \A q \in Calls(g) : stop'[q] = stop[q]
    BY <1>4 DEF Rests
  <2>2. \A o \in Ofd : Holds(g, o) =>
       /\ ofds'[o].name = ofds[o].name /\ ofds'[o].write = ofds[o].write
       /\ ofds'[o].split = ofds[o].split
    BY <1>4 DEF Rests
  <2>3. Live(g)' => Live(g)
    BY <1>4 DEF Rests
  <2> QED  BY <1>1, <1>7, <1>8, <2>1, <2>2, <2>3 DEF Undisturbed
<1> QED  BY <1>1, <1>9, UndisturbedCounts

\* What a call leaves of the process that makes it.
LEMMA CallerCounts ==
  ASSUME Exact, KernelTyped', NEW p \in Pid, NEW r, Called(p, r), Taken(p, r), Ordinary',
         NEW g, Making(p, r, g), ProcMap[p] = ProcMap[g], Shifts(p, r)
  PROVE  CountsOn(g)'
<1>1. /\ TypedInv /\ LifeInv /\ KernelTyped /\ CountsOn(g) /\ StandsOn(g) /\ g \in Pid
      /\ group[p] = g /\ RegsTyped(r) /\ stop[p] = Running /\ kfds' = kfds'
  BY DEF Exact, TypedInv, Called, Making
<1>2. ASSUME NEW q \in Calls(g)', NEW c, c = stop'[q].regs PROVE Sized(c, kfds[g])'
  <2> DEFINE o == kfds[g][c.fd].ofd
  <2>1. \/ q = p /\ c = r
        \/ q \in Calls(g) /\ q # p /\ c = stop[q].regs /\ RegsTyped(c) /\ Changes(r) \cap Slots(c) = {}
    BY <1>2 DEF Making
  <2>2. c.nr \in Moves => c.fd \in Slots(c) /\ c.fd \in Fd /\ Changes(c) = {}
    BY <1>1, <2>1 DEF Slots, RegsTyped, Moves, Changes, Dups, NewFd
  <2>3. c.nr \in Moves => /\ kfds'[g][c.fd].ofd = o
                          /\ o = None \/ (o \in Ofd /\ Stays(o))
    <3>1. c.nr \in Moves => c.fd \notin Changes(r)
      BY <2>1, <2>2
    <3> QED  BY <2>2, <3>1 DEF Making
  <2>4. o = None \/ (o \in Ofd /\ Stays(o)) =>
          (o # None => ofds'[o].write = ofds[o].write /\ ofds'[o].split = ofds[o].split)
    BY DEF Shifts
  <2>5. /\ c.nr \in {"write", "pwrite64", "ftruncate", "fallocate"} => o # None /\ ofds[o].write
        /\ c.nr \in {"pwrite64", "ftruncate", "fallocate"} =>
             Succeeded(c) /\ End(c) \in 0 .. MaxLength
        /\ c.nr = "lseek" => ~(ofds[o].write /\ ofds[o].split) /\ o # None
    <3>1. CASE q = p
      <4>1. c = r
        BY <2>1, <3>1
      <4>2. r.nr \in Moves => o = Touched(p, r)
        BY <1>1, <4>1 DEF Touched
      <4>3. r.nr \in Moves => Alters(p, r)
        BY <1>1, CallAlters
      <4> HIDE DEF o
      <4> QED  BY <4>1, <4>2, <4>3 DEF Alters, Moves, Naming
    <3>2. CASE q # p
      <4>1. Sized(c, kfds[g]) /\ Positioned(c, Table(q), kfds[g])
        BY <1>1, <2>1, <3>2 DEF CountsOn, StandsOn
      <4> QED  BY <4>1 DEF Sized, Positioned
    <3> QED  BY <3>1, <3>2
  <2>6. /\ c.nr \in {"write", "pwrite64", "ftruncate", "fallocate"} =>
             kfds'[g][c.fd].ofd # None /\ ofds'[kfds'[g][c.fd].ofd].write
        /\ c.nr = "lseek" =>
             ~(ofds'[kfds'[g][c.fd].ofd].write /\ ofds'[kfds'[g][c.fd].ofd].split)
    <3> HIDE DEF o
    <3> QED  BY <2>3, <2>4, <2>5 DEF Moves
  <2> QED  BY <2>5, <2>6 DEF Sized
<1>3. Live(g)' => Measures(g, Busy(g))'
  <2>1. Table(g)' = Table(g) /\ \A fd : fd \in Busy(g)' <=> fd \in Busy(g) \/ fd \in Changes(r)
    BY DEF Making
  <2>2. \A e \in Table(g) : \A a \in e.slots : a \notin Busy(g) /\ a \notin Changes(r) =>
          MeasuresAt(g, e, a)'
    BY CalledAt
  <2> QED  BY <2>1, <2>2 DEF Measures
<1>4. stop'[g].event \notin {"fork", "exec"}
  <2> SUFFICES ASSUME stop'[g].event \in {"fork", "exec"} PROVE FALSE
    OBVIOUS
  <2>1. g # p /\ stop[g].event \in {"fork", "exec"}
    BY <1>1 DEF Making
  <2>2. stop[p] # Absent /\ stop[p].event # "born"
    BY <1>1, Events
  <2> QED  BY <1>1, <2>1, <2>2, LonersAreApart
<1>5. \A q \in Calls(g)' : Sized(stop[q].regs, kfds[g])'
  BY <1>2
<1> QED  BY <1>3, <1>4, <1>5 DEF CountsOn

DuesInv ==
  \A s : \A table \in SUBSET Entry : Slotted(table) =>
    /\ Summable(Dues(s, table), table) /\ Due(s, table) = SumOf(Dues(s, table), table)
    /\ Due(s, table) \in Nat
    /\ \A e \in table : Dues(s, table)[e] = Top(s, e) - e.file.InitSize

LEMMA DuesAre == CallsReach => DuesInv
<1> SUFFICES ASSUME CallsReach, NEW s, NEW table \in SUBSET Entry, Slotted(table)
             PROVE  /\ Summable(Dues(s, table), table) /\ Due(s, table) = SumOf(Dues(s, table), table)
                    /\ Due(s, table) \in Nat
                    /\ \A e \in table : Dues(s, table)[e] = Top(s, e) - e.file.InitSize
  BY DEF DuesInv
<1> QED  BY DueIs

LEMMA DuesAreNext ==
  ASSUME CallsReach'
  PROVE  DuesInv'
BY DuesAre, PTL

\* What a call adds to what the report would count.
LEMMA CalledCounted ==
  ASSUME Exact, TypedInv', LifeInv', OutputSize' \in Nat, grown' \in Nat,
         NEW p \in Pid, NEW r, Called(p, r), Taken(p, r), Ordinary',
         NEW g, Making(p, r, g), ProcMap[p] = ProcMap[g], p \in Registered,
         DescriptionsMeasure', \A x \in Pid : CountsOn(x)'
  PROVE  Counted' + Written <= Counted + Written' /\ (quirks' = {} => Counted' + Written = Counted + Written')
<1> DEFINE s == ProcMap[p]
           T == Table(g)
           d == Touched(p, r)
           about == r.nr \in Naming \cup {"write"}
<1>1. /\ TypedInv /\ LifeInv /\ KernelTyped /\ KernelTyped' /\ HeldInv /\ CallsReach /\ CallsReach'
      /\ OutputSize \in Nat /\ grown \in Nat /\ DescriptionsMeasure /\ OneWriter /\ ThreadInv
      /\ RegsTyped(r) /\ g \in Pid /\ group[p] = g /\ UNCHANGED contextVars
      /\ T \in SUBSET Entry /\ AgreesOn(g) /\ Live(g) /\ Busy(g) \cap Slots(r) = {}
  <2>1. /\ TypedInv /\ LifeInv /\ KernelTyped /\ KernelTyped' /\ HeldInv
        /\ OutputSize \in Nat /\ grown \in Nat /\ DescriptionsMeasure /\ OneWriter /\ ThreadInv
        /\ RegsTyped(r) /\ g \in Pid /\ group[p] = g /\ UNCHANGED contextVars
        /\ T \in SUBSET Entry /\ AgreesOn(g) /\ Live(g) /\ Busy(g) \cap Slots(r) = {}
    BY DEF Exact, TypedInv, Called, Making, AgreeInv, LifeInv
  <2>2. CallsReach /\ CallsReach'
    BY <2>1, ReachIs, ReachIsNext DEF Exact
  <2> QED  BY <2>1, <2>2
<1>2. StockInv /\ StockInv' /\ DuesInv /\ DuesInv'
  BY <1>1, StockIs, StockIsNext, DuesAre, DuesAreNext
<1>3. /\ s \in ProcState /\ s \in Allocated /\ Fds[s] = T /\ Slotted(T)
      /\ Allocated' = Allocated /\ ProcMap' = ProcMap /\ Fds' = Fds /\ OutputSize' = OutputSize
  <2>1. s \in ProcState /\ s \in Allocated /\ Fds[s] = T
    BY <1>1, <1>2 DEF Allocated, Table, StockInv
  <2>2. Slotted(Fds[s])
    BY <1>1, <2>1 DEF TypedInv, SlottedInv
  <2>3. ProcMap' = ProcMap /\ Fds' = Fds /\ OutputSize' = OutputSize
    BY <1>1 DEF contextVars
  <2>4. Allocated' = Allocated
    BY <2>3 DEF Allocated, Registered
  <2> QED  BY <2>1, <2>2, <2>3, <2>4
<1>4. \A x : x # s => Due(x, Fds[x])' = Due(x, Fds[x])
  <2> SUFFICES ASSUME NEW x, x # s PROVE Due(x, Fds[x])' = Due(x, Fds[x])
    OBVIOUS
  <2>1. /\ \A q \in Pid : q # p => stop'[q] = stop[q]
        /\ ProcMap' = ProcMap /\ Fds' = Fds
    BY <1>3 DEF Making
  <2> QED  BY <2>1, DueStays
<1>5. /\ Counted' + (OutputSize + SumOf(Stock, {s})) = Counted + (OutputSize' + SumOf(Stock', {s}))
      /\ SumOf(Stock, {s}) \in Nat /\ SumOf(Stock', {s}) \in Nat
      /\ Counted \in Int /\ Counted' \in Int
  <2> DEFINE R == Allocated \ {s}
             X == {s}
  <2>1. Allocated = R \cup X /\ Allocated' = R \cup X /\ R \cap X = {}
    BY <1>3
  <2>2. \A x \in R : Due(x, Fds[x])' = Due(x, Fds[x])
    BY <1>4
  <2>3. OutputSize' \in Nat
    OBVIOUS
  <2> HIDE DEF R, X
  <2>4. /\ Counted' + (OutputSize + SumOf(Stock, X)) = Counted + (OutputSize' + SumOf(Stock', X))
        /\ SumOf(Stock, X) \in Nat /\ SumOf(Stock', X) \in Nat
        /\ Counted \in Int /\ Counted' \in Int
    BY <1>1, <1>2, <2>1, <2>2, <2>3, CountedTurns
  <2> QED  BY <2>4 DEF X
<1> DEFINE b == Due(s, T)
           v == Dues(s, T)
<1>6. /\ SumOf(Stock, {s}) = b /\ SumOf(Stock', {s}) = b' /\ b \in Nat /\ b' \in Nat
      /\ Summable(v, T) /\ Summable(v', T) /\ b = SumOf(v, T) /\ b' = SumOf(v', T)
      /\ \A e \in T : v[e] = Top(s, e) - e.file.InitSize /\ v'[e] = Top(s, e)' - e.file.InitSize
  <2>1. (s)' = s /\ (T)' = T
    BY <1>3 DEF Table
  <2>2. /\ Summable(v, T) /\ b = SumOf(v, T) /\ b \in Nat
        /\ \A e \in T : v[e] = Top(s, e) - e.file.InitSize
    BY <1>1, <1>2, <1>3 DEF DuesInv
  <2>3. \A x : /\ Summable(Dues(x, T)', T) /\ Due(x, T)' = SumOf(Dues(x, T)', T) /\ Due(x, T)' \in Nat
               /\ \A e \in T : Dues(x, T)'[e] = Top(x, e)' - e.file.InitSize
    <3> SUFFICES ASSUME NEW t, t = T, NEW x
                 PROVE  /\ Summable(Dues(x, t)', t) /\ Due(x, t)' = SumOf(Dues(x, t)', t) /\ Due(x, t)' \in Nat
                        /\ \A e \in t : Dues(x, t)'[e] = Top(x, e)' - e.file.InitSize
      BY <2>1
    <3>1. t \in SUBSET Entry /\ Slotted(t)
      BY <1>1, <1>3
    <3> HIDE DEF T
    <3> QED  BY <1>2, <3>1 DEF DuesInv
  <2>4. Stock[s] = b /\ Stock'[s] = b'
    BY <1>2, <1>3, <2>1 DEF StockInv
  <2>5. SumOf(Stock, {s}) = Stock[s] /\ SumOf(Stock', {s}) = Stock'[s]
    <3>1. b' \in Nat
      BY <2>1, <2>3
    <3> HIDE DEF s, T, b
    <3>2. PICK x : x = s
      OBVIOUS
    <3>3. Stock[x] \in Nat /\ Stock'[x] \in Nat
      BY <2>2, <2>4, <3>1, <3>2
    <3>4. SumOf(Stock, {x}) = Stock[x] /\ SumOf(Stock', {x}) = Stock'[x]
      BY <3>3, SumOfOne
    <3> QED  BY <3>2, <3>4
  <2> QED  BY <2>1, <2>2, <2>3, <2>4, <2>5
<1>7. Counted' + b = Counted + b'
  <2> HIDE DEF b, s
  <2>1. PICK i \in Int : i = Counted
    BY <1>5
  <2>2. PICK j \in Int : j = Counted'
    BY <1>5
  <2>3. PICK x \in Nat : x = SumOf(Stock, {s})
    BY <1>5
  <2>4. PICK y \in Nat : y = SumOf(Stock', {s})
    BY <1>5
  <2>5. PICK n \in Nat : n = OutputSize /\ n = OutputSize'
    BY <1>1, <1>3
  <2>6. j + (n + x) = i + (n + y)
    BY <1>5, <2>1, <2>2, <2>3, <2>4, <2>5
  <2>7. j + x = i + y
    BY <2>6
  <2>8. b = x /\ b' = y
    BY <1>6, <2>3, <2>4
  <2> QED  BY <2>1, <2>2, <2>7, <2>8
<1>8. IF about
      THEN /\ ofds[d].write
           /\ Written' + size[ofds[d].name] = Written + size'[ofds[d].name]
      ELSE Written' = Written
  BY <1>1, CalledWrites
<1>9. \A e \in T : Reaching(p, r, s, e)
  <2>1. r.nr \in Naming => End(r) \in Nat
    <3>1. 0 .. MaxLength \subseteq Nat
      BY LengthsAreSizes
    <3>2. r.nr \in Naming => r.nr \in Moves
      BY DEF Naming, Moves
    <3> QED  BY <1>1, <3>1, <3>2, CallAlters DEF Alters
  <2> HIDE DEF T, s
  <2> QED  BY <1>1, <2>1, CalledReaches
<1>10. Written \in Nat /\ Written' \in Nat
  BY <1>1, WrittenIs, WrittenIsNext DEF WrittenInv
<1>11. CASE ~about
  <2>1. \A e \in T : v'[e] = v[e]
    BY <1>6, <1>9, <1>11 DEF Reaching
  <2>2. b' = b
    <3> HIDE DEF v, T, b
    <3> QED  BY <1>6, <2>1, SumSame
  <2> HIDE DEF b
  <2> QED  BY <1>5, <1>6, <1>7, <1>8, <1>10, <1>11, <2>2
<1>12. CASE about
  <2>1. /\ r.fd \in Fd \cap Slots(r) /\ Changes(r) = {} /\ r.nr \in Moves
        /\ d = kfds[g][r.fd].ofd /\ d \in Ofd /\ d # None /\ ofds[d].write
    <3>1. r.nr \in Moves /\ r.nr \notin {"open", "creat"}
      BY <1>12 DEF Naming, Moves
    <3>2. Changes(r) = {}
      BY <3>1 DEF Changes, Moves, Dups, NewFd
    <3>3. d = kfds[g][r.fd].ofd
      BY <1>1, <3>1 DEF Touched
    <3>4. Alters(p, r)
      BY <1>1, <3>1, CallAlters
    <3> QED  BY <1>1, <1>8, <1>12, <3>1, <3>2, <3>3, <3>4, ChangesAre DEF Alters
  <2>2. PICK e0 \in T : r.fd \in e0.slots
    <3>1. r.fd \in Followed(g)
      <4> HIDE DEF d
      <4>1. ofds[d].followed
        BY <1>1, <2>1 DEF DescriptionsMeasure
      <4> QED  BY <2>1, <4>1 DEF Followed
    <3>2. r.fd \notin Busy(g)
      BY <1>1, <2>1
    <3>3. r.fd \in OpenSlots(T)
      BY <1>1, <2>1, <3>1, <3>2 DEF AgreesOn, Agrees, Fits
    <3> QED  BY <3>3 DEF OpenSlots
  <2> DEFINE z == size[ofds[d].name]
             z1 == size'[ofds[d].name]
  <2>3. /\ Top(s, e0)' + z <= z1 + Top(s, e0)
        /\ ~ofds[d].split => Top(s, e0)' + z = z1 + Top(s, e0)
    <3>1. r.fd \notin Busy(g) /\ r.fd \notin Changes(r)
      BY <1>1, <2>1
    <3>2. \A x, y : x = ProcMap[g] /\ ProcMap[p] = x /\ y = Touched(p, r) =>
            /\ Top(x, e0)' + size[ofds[y].name] <= size'[ofds[y].name] + Top(x, e0)
            /\ ~ofds[y].split => Top(x, e0)' + size[ofds[y].name] = size'[ofds[y].name] + Top(x, e0)
      BY <1>1, <1>12, <2>2, <3>1, CalledAt
    <3>3. ProcMap' = ProcMap
      BY <1>3
    <3>4. \A x : x = s => Top(x, e0)' = Top(s, e0)'
      BY <3>3
    <3> QED  BY <3>2, <3>3, <3>4
  <2>4. \A e \in T \ {e0} : v'[e] = v[e]
    <3> SUFFICES ASSUME NEW e \in T \ {e0} PROVE v'[e] = v[e]
      OBVIOUS
    <3>1. r.fd \notin e.slots
      BY <1>3, <2>2 DEF Slotted
    <3> QED  BY <1>6, <1>9, <3>1 DEF Reaching
  <2>5. b' + v[e0] = b + v'[e0] /\ v[e0] \in Nat /\ v'[e0] \in Nat
    <3> HIDE DEF v, T, b
    <3> QED  BY <1>6, <2>2, <2>4, SumOne
  <2>6. v[e0] = Top(s, e0) - e0.file.InitSize /\ v'[e0] = Top(s, e0)' - e0.file.InitSize
    BY <1>6, <2>2
  <2>7. e0.file.InitSize \in Nat /\ Top(s, e0) \in Nat /\ Top(s, e0)' \in Int /\ z \in Nat /\ z1 \in Nat
    <3>1. e0 \in Entry
      BY <1>1, <2>2
    <3>2. e0.file.InitSize \in Nat /\ Top(s, e0) \in Nat
      BY <1>1, <3>1, TopIs
    <3>3. ofds[d].name \in Name /\ z \in Nat
      <4> HIDE DEF d
      <4> QED  BY <1>1, <2>1, LandsIn
    <3>4. z1 \in Nat
      BY <1>1, <3>3, LengthsAreSizes DEF KernelTyped, Size
    <3>5. Top(s, e0)' \in Nat
      <4>1. Writes(s, e0) \in Nat /\ e0.file.CurrPos \in Nat
        BY <1>1, <3>1, TopIs, ViaIs DEF Writes
      <4>2. r.nr \in Naming => End(r) \in Nat
        <5>1. 0 .. MaxLength \subseteq Nat
          BY LengthsAreSizes
        <5> QED  BY <1>1, <2>1, <5>1, CallAlters DEF Alters
      <4>3. \/ Top(s, e0)' = Longer(Top(s, e0), e0.file.CurrPos + Writes(s, e0) + 1)
            \/ r.nr \in Naming /\ Top(s, e0)' = Longer(Top(s, e0), End(r))
        BY <1>9, <1>12, <2>2 DEF Reaching
      <4> HIDE DEF s
      <4> QED  BY <3>2, <4>1, <4>2, <4>3 DEF Longer
    <3> QED  BY <3>2, <3>3, <3>4, <3>5
  <2>8. quirks' = {} => ~ofds[d].split
    <3>1. quirks' = {} => quirks = {}
      BY DEF Called
    <3> HIDE DEF d
    <3> QED  BY <1>1, <2>1, <3>1 DEF DescriptionsMeasure
  <2>9. Written' + z = Written + z1
    BY <1>8, <1>12
  <2> HIDE DEF b, v, z, z1, d, s, T
  <2>10. b \in Nat /\ b' \in Nat /\ Counted \in Int /\ Counted' \in Int
    BY <1>5, <1>6
  <2>11. b' + Top(s, e0) = b + Top(s, e0)'
    BY <2>5, <2>6, <2>7, <2>10
  <2>12. z \in Int /\ z1 \in Int /\ Top(s, e0) \in Int /\ Top(s, e0)' \in Int
    BY <2>7
  <2>13. b \in Int /\ b' \in Int
    BY <2>10
  <2>14. b' + z <= z1 + b
    <3>1. \A x, x1, t, t1, y, y1 \in Int :
            x1 + t = x + t1 /\ t1 + y <= y1 + t => x1 + y <= y1 + x
      OBVIOUS
    <3>2. Top(s, e0)' + z <= z1 + Top(s, e0)
      BY <2>3
    <3> QED  BY <2>11, <2>12, <2>13, <3>1, <3>2
  <2>15. ASSUME quirks' = {} PROVE b' + z = z1 + b
    <3>1. Top(s, e0)' + z = z1 + Top(s, e0)
      BY <2>3, <2>8, <2>15
    <3>2. b' + z <= z1 + b
      BY <2>14
    <3>3. \A x, x1, t, t1, y, y1 \in Int :
            x1 + t = x + t1 /\ t1 + y = y1 + t => y1 + x <= x1 + y
      OBVIOUS
    <3>4. z1 + b <= b' + z
      BY <2>11, <2>12, <2>13, <3>1, <3>3
    <3>5. \A m, n \in Int : m <= n /\ n <= m => m = n
      OBVIOUS
    <3>6. b' + z \in Int /\ z1 + b \in Int
      BY <2>12, <2>13
    <3> QED  BY <3>2, <3>4, <3>5, <3>6
  <2>16. Written \in Int /\ Written' \in Int /\ Counted \in Int /\ Counted' \in Int
    BY <1>10, <2>10
  <2>a. PICK w \in Int, w1 \in Int : w = Written /\ w1 = Written'
    BY <2>16
  <2>b. PICK c \in Int, c1 \in Int : c = Counted /\ c1 = Counted'
    BY <2>16
  <2>c. PICK x \in Int, x1 \in Int : x = b /\ x1 = b'
    BY <2>13
  <2>d. PICK y \in Int, y1 \in Int : y = z /\ y1 = z1
    BY <2>12
  <2>e. c1 + x = c + x1 /\ w1 + y = w + y1 /\ x1 + y <= y1 + x
    BY <1>7, <2>9, <2>14, <2>a, <2>b, <2>c, <2>d
  <2>f. quirks' = {} => x1 + y = y1 + x
    BY <2>15, <2>c, <2>d
  <2>17. Counted' + Written <= Counted + Written'
    <3>1. c1 + w <= c + w1
      BY <2>e
    <3> QED  BY <2>a, <2>b, <3>1
  <2>18. ASSUME quirks' = {} PROVE Counted' + Written = Counted + Written'
    <3>1. c1 + w = c + w1
      BY <2>e, <2>f, <2>18
    <3> QED  BY <2>a, <2>b, <3>1
  <2> QED  BY <2>17, <2>18
<1> QED  BY <1>11, <1>12

CountsKeep ==
  /\ DescriptionsMeasure' /\ \A g \in Pid : CountsOn(g)'
  /\ Counted' + Written <= Counted + Written'
  /\ quirks' = {} => Counted' + Written = Counted + Written'

LEMMA CalledCountsKeep ==
  ASSUME Exact, TypedInv', LifeInv', OutputSize' \in Nat, grown' \in Nat,
         NEW p \in Pid, NEW r, Called(p, r), Taken(p, r), Ordinary'
  PROVE  CountsKeep
<1> DEFINE g == group[p]
<1>1. /\ TypedInv /\ LifeInv /\ KernelTyped /\ KernelTyped' /\ OneWriter /\ DescriptionsMeasure
      /\ stop[p] = Running
  BY DEF Exact, TypedInv, Called
<1>2. /\ g \in Pid /\ p \in Registered /\ g \in Registered /\ ProcMap[g] = ProcMap[p]
  <2>1. stop[p] # Absent /\ stop[p].event # "born"
    BY <1>1, Events
  <2> QED  BY <1>1, <2>1, ActorsAreThere, LeadersAreKnown
<1> HIDE DEF g
<1>3. group[p] = g
  BY DEF g
<1>4. Making(p, r, g)
  BY <1>1, <1>2, <1>3, CalledMakes, OrdinaryIs
<1>5. Shifts(p, r)
  BY <1>1, <1>2, <1>3, CallsShift
<1>6. DescriptionsMeasure'
  BY <1>1, <1>2, <1>3, CalledMeasures
<1>7. \A x \in Pid : CountsOn(x)'
  <2> SUFFICES ASSUME NEW x \in Pid PROVE CountsOn(x)'
    OBVIOUS
  <2>1. CASE x = g
    BY <1>1, <1>2, <1>4, <1>5, <2>1, CallerCounts
  <2>2. CASE x # g
    BY <1>1, <1>3, <2>2, OthersCount
  <2> QED  BY <2>1, <2>2
<1>8. /\ Counted' + Written <= Counted + Written'
      /\ quirks' = {} => Counted' + Written = Counted + Written'
  BY <1>1, <1>2, <1>4, <1>6, <1>7, CalledCounted
<1> QED  BY <1>6, <1>7, <1>8 DEF CountsKeep

-------------------------------------------------------------------------------
(* What the other steps of the kernel leave of it *)

\* No thread comes to make a call, and none that has made one another.
Silent == \A q \in Pid : stop'[q].event = "syscall" => stop'[q] = stop[q] /\ group'[q] = group[q]

\* The calls that threads of g have made are still to be handled.
Waiting(g) == \A q \in Calls(g) : stop'[q] = stop[q] /\ group'[q] = group[q]

LEMMA WaitingCalls ==
  ASSUME Silent, NEW g, Waiting(g)
  PROVE  Calls(g)' = Calls(g)
<1>1. \A q \in Pid : group'[q] = g /\ stop'[q].event = "syscall" <=>
                       group[q] = g /\ stop[q].event = "syscall"
  BY DEF Silent, Waiting, Calls
<1> QED  BY <1>1 DEF Calls

LEMMA WaitingIsQuiet ==
  ASSUME TypedInv, LifeInv, UNCHANGED contextVars, Silent, NEW g \in Registered, group[g] = g,
         Waiting(g)
  PROVE  Quiet(ProcMap[g])
<1>1. ASSUME NEW q \in Pid, stop[q].event = "syscall", ProcMap[q] = ProcMap[g]
      PROVE  stop'[q] = stop[q]
  <2>1. q \in Registered /\ KnownInv
    <3>1. stop[q] # Absent /\ stop[q].event # "born"
      BY <1>1, Events
    <3> QED  BY <3>1, LeadersAreKnown, ActorsAreThere DEF TypedInv
  <2>2. group[q] = g
    BY <1>1, <2>1 DEF KnownInv
  <2> QED  BY <1>1, <2>2 DEF Waiting, Calls
<1>2. ProcMap' = ProcMap
  BY DEF contextVars
<1> QED  BY <1>1, <1>2 DEF Quiet, Silent

\* A process the step passes by.
LEMMA PassedCounts ==
  ASSUME TypedInv, LifeInv, UNCHANGED contextVars, Silent, NEW g \in Pid, Waiting(g),
         CountsOn(g), StandsOn(g), kfds'[g] = kfds[g],
         \A o \in Ofd : Holds(g, o) => Still(o),
         Live(g)' => Live(g),
         stop'[g].event \in {"fork", "exec"} => stop'[g] = stop[g] /\ group'[g] = group[g],
         stop'[g].event \in {"fork", "exec"} =>
           \A fd \in Fd : Writable(g, fd) /\ At(g, fd).name \notin unlinked =>
             At(g, fd).name \notin unlinked'
  PROVE  CountsOn(g)'
<1>1. Calls(g)' = Calls(g) /\ \A q \in Calls(g) : stop'[q] = stop[q]
  BY WaitingCalls DEF Waiting
<1>2. \A o \in Ofd : Holds(g, o) =>
        /\ ofds'[o].name = ofds[o].name /\ ofds'[o].write = ofds[o].write
        /\ ofds'[o].split = ofds[o].split
  BY DEF Still
<1>3. stop'[g].event \in {"fork", "exec"} =>
        stop[g].event = stop'[g].event /\ group[g] = g /\ group'[g] = g
  <2> SUFFICES ASSUME stop'[g].event \in {"fork", "exec"} PROVE group[g] = g
    OBVIOUS
  <2>1. stop[g] # Absent /\ stop[g].event \in {"fork", "exec"}
    BY Events
  <2>2. Members(g) = {g}
    BY <2>1, ActorsAreThere DEF GroupInv, TypedInv
  <2> QED  BY <2>1, <2>2, LonersAre DEF TypedInv
<1>4. Live(g)' \/ stop'[g].event = "exec" =>
        /\ Table(g)' = Table(g)
        /\ \A e \in Table(g) : \A a \in e.slots : MeasuresAt(g, e, a) => MeasuresAt(g, e, a)'
  <2> SUFFICES ASSUME Live(g)' \/ stop'[g].event = "exec"
               PROVE  /\ Table(g)' = Table(g)
                      /\ \A e \in Table(g) : \A a \in e.slots :
                           MeasuresAt(g, e, a) => MeasuresAt(g, e, a)'
    OBVIOUS
  <2>1. Live(g) \/ stop[g].event = "exec"
    OBVIOUS
  <2>2. g \in Registered /\ group[g] = g /\ Table(g) \in SUBSET Entry
    BY <2>1, ProgramsAre DEF ProgramsKnown
  <2>3. Quiet(ProcMap[g]) /\ ProcMap' = ProcMap /\ Table(g)' = Table(g)
    BY <2>2, WaitingIsQuiet DEF contextVars, Table
  <2>4. \A e \in Table(g) : \A a \in e.slots : a \in Fd
    BY <2>2 DEF Entry
  <2> QED  BY <2>3, <2>4, AllAtStay DEF TypedInv
<1>5. Undisturbed(g)
  BY <1>1, <1>2, <1>3, <1>4 DEF Undisturbed
<1> QED  BY <1>5, UndisturbedCounts

\* What the report would count gets no more, and no less unless calls are lost.
LEMMA SilentCounts ==
  ASSUME TypedInv, TypedInv', CallsReach, CallsReach', OutputSize \in Nat, OutputSize' \in Nat,
         UNCHANGED contextVars, Silent
  PROVE  /\ Counted' <= Counted /\ Counted \in Int /\ Counted' \in Int
         /\ (\A q \in Pid : stop[q].event = "syscall" => stop'[q] = stop[q]) => Counted' = Counted
<1>1. StockInv /\ StockInv' /\ DuesInv /\ DuesInv'
  BY StockIs, StockIsNext, DuesAre, DuesAreNext
<1>2. ProcMap' = ProcMap /\ Fds' = Fds /\ OutputSize' = OutputSize /\ Allocated' = Allocated
  BY DEF contextVars, Allocated, Registered
<1>3. ASSUME NEW s, NEW e \in Entry
      PROVE  Top(s, e)' <= Top(s, e) /\ Top(s, e)' \in Nat
  <2>1. \A nrs : Via(s, e.slots, nrs)' \subseteq Via(s, e.slots, nrs)
    BY <1>2 DEF Silent, Via
  <2>2. Writes(s, e)' <= Writes(s, e)
    <3>1. IsFiniteSet(Via(s, e.slots, {"write"}))
      BY ViaIs
    <3>2. Cardinality(Via(s, e.slots, {"write"})') <= Cardinality(Via(s, e.slots, {"write"}))
      BY <2>1, <3>1, FS_Subset
    <3> QED  BY <3>2 DEF Writes
  <2>3. Ends(s, e.slots)' \subseteq Ends(s, e.slots)
    <3>1. \A q \in Via(s, e.slots, Naming)' : stop'[q] = stop[q] /\ q \in Via(s, e.slots, Naming)
      BY <2>1 DEF Silent, Via
    <3>2. /\ Ends(s, e.slots) = {End(stop[q].regs) : q \in Via(s, e.slots, Naming)}
          /\ Ends(s, e.slots)' = {End(stop'[q].regs) : q \in Via(s, e.slots, Naming)'}
      BY DEF Ends, Naming
    <3> QED  BY <3>1, <3>2
  <2> DEFINE n == Writes(s, e)
             ends == Ends(s, e.slots)
  <2>4. Counting(e.file, n, ends)
    BY CallsCount
  <2>5. Counting(e.file, n', ends')
    <3>2. n' \in Nat
      <4>1. \A S : IsFiniteSet(S) => Cardinality(S) \in Nat
        BY FS_CardinalityType
      <4>2. IsFiniteSet(Via(s, e.slots, {"write"})')
        BY <2>1, ViaIs, FS_Subset
      <4> QED  BY <4>1, <4>2 DEF Writes
    <3>3. IsFiniteSet(ends')
      BY <2>3, <2>4, FS_Subset DEF Counting
    <3> HIDE DEF n, ends
    <3> QED  BY <2>3, <2>4, <3>2, <3>3 DEF Counting, n, ends
  <2>6. Top(s, e) = Max(Reached(e.file, n, ends)) /\ Top(s, e)' = Max(Reached(e.file, n', ends'))
    BY DEF Top
  <2> HIDE DEF n, ends
  <2>7. n' <= n /\ ends' \subseteq ends
    BY <2>2, <2>3 DEF n, ends
  <2>8. Max(Reached(e.file, n', ends')) <= Max(Reached(e.file, n, ends))
    BY <2>4, <2>5, <2>7, ReachesLess
  <2>9. Max(Reached(e.file, n', ends')) \in Nat
    BY <2>5, ReachedIs
  <2> QED  BY <2>6, <2>8, <2>9
<1>4. ASSUME NEW s \in Allocated
      PROVE  Stock'[s] <= Stock[s]
  <2> DEFINE T == Fds[s]
             w == Dues(s, T)
             v == Dues(s, T)'
  <2>1. s \in ProcState /\ T \in SUBSET Entry /\ Slotted(T) /\ T' = T
    BY <1>1, <1>2 DEF StockInv, TypedInv, ContextTyped, SlottedInv
  <2> HIDE DEF T
  <2>2. /\ Summable(w, T) /\ Due(s, T) = SumOf(w, T) /\ \A e \in T : w[e] = Top(s, e) - e.file.InitSize
        /\ \A e \in T : e \in Entry
    BY <1>1, <2>1 DEF DuesInv
  <2>3. /\ Summable(v, T) /\ Due(s, T)' = SumOf(v, T)
        /\ \A e \in T : v[e] = Top(s, e)' - e.file.InitSize
    <3> SUFFICES ASSUME NEW t, t = T
                 PROVE  /\ Summable(Dues(s, t)', t) /\ Due(s, t)' = SumOf(Dues(s, t)', t)
                        /\ \A e \in t : Dues(s, t)'[e] = Top(s, e)' - e.file.InitSize
      BY <2>1
    <3>1. t \in SUBSET Entry /\ Slotted(t)
      BY <2>1
    <3> QED  BY <1>1, <3>1 DEF DuesInv
  <2>4. \A e \in T : v[e] <= w[e]
    <3> SUFFICES ASSUME NEW e \in T PROVE v[e] <= w[e]
      OBVIOUS
    <3>1. v[e] = Top(s, e)' - e.file.InitSize /\ w[e] = Top(s, e) - e.file.InitSize
          /\ Top(s, e)' <= Top(s, e) /\ Top(s, e)' \in Nat /\ e \in Entry
      BY <1>3, <2>2, <2>3
    <3>2. Top(s, e) \in Nat /\ e.file.InitSize \in Nat
      BY <3>1, TopIs
    <3> HIDE DEF v, w
    <3> QED  BY <3>1, <3>2
  <2>5. SumOf(v, T) <= SumOf(w, T)
    <3> HIDE DEF v, w
    <3> QED  BY <2>2, <2>3, <2>4, SumLess
  <2>6. Stock[s] = Due(s, T) /\ Stock'[s] = Due(s, T)'
    BY <1>1, <2>1 DEF StockInv, T
  <2> QED  BY <2>2, <2>3, <2>5, <2>6
<1>5. /\ SumOf(Stock', Allocated) <= SumOf(Stock, Allocated)
      /\ Counted = OutputSize + SumOf(Stock, Allocated)
      /\ Counted' = OutputSize + SumOf(Stock', Allocated)
      /\ SumOf(Stock, Allocated) \in Nat /\ SumOf(Stock', Allocated) \in Nat
  <2>1. Allocated = Allocated \cup {} /\ Allocated \cap {} = {} /\ Allocated' = Allocated \cup {}
    BY <1>2
  <2>2. /\ Summable(Stock, Allocated) /\ SumOf(Stock, Allocated) \in Nat
        /\ Counted = OutputSize + (SumOf(Stock, Allocated) + SumOf(Stock, {}))
    BY <1>1, <2>1 DEF StockInv
  <2>3. /\ Summable(Stock', Allocated) /\ SumOf(Stock', Allocated) \in Nat
        /\ Counted' = OutputSize' + (SumOf(Stock', Allocated) + SumOf(Stock', {}))
    <3> SUFFICES ASSUME NEW A, A = Allocated
                 PROVE  /\ Summable(Stock', A) /\ SumOf(Stock', A) \in Nat
                        /\ Counted' = OutputSize' + (SumOf(Stock', A) + SumOf(Stock', {}))
      OBVIOUS
    <3>1. Allocated' = A \cup {} /\ A \cap {} = {}
      BY <1>2
    <3> QED  BY <1>1, <3>1 DEF StockInv
  <2>4. SumOf(Stock, {}) = 0 /\ SumOf(Stock', {}) = 0
    BY SumOfNone
  <2>5. SumOf(Stock', Allocated) <= SumOf(Stock, Allocated)
    BY <1>4, <2>2, <2>3, SumLess
  <2>6. Counted = OutputSize + SumOf(Stock, Allocated) /\ Counted' = OutputSize' + SumOf(Stock', Allocated)
    BY <2>2, <2>3, <2>4
  <2> QED  BY <1>2, <2>2, <2>3, <2>5, <2>6
<1>6. ASSUME \A q \in Pid : stop[q].event = "syscall" => stop'[q] = stop[q]
      PROVE  SumOf(Stock', Allocated) = SumOf(Stock, Allocated)
  <2>1. \A s : Due(s, Fds[s])' = Due(s, Fds[s])
    <3> SUFFICES ASSUME NEW s PROVE Due(s, Fds[s])' = Due(s, Fds[s])
      OBVIOUS
    <3>1. \A q \in Pid : stop'[q].event = "syscall" /\ ProcMap'[q] = s <=>
                           stop[q].event = "syscall" /\ ProcMap[q] = s
      BY <1>2, <1>6 DEF Silent
    <3> QED  BY <1>2, <1>6, <3>1, DueStays
  <2>2. \A s \in ProcState : Stock'[s] = Stock[s]
    BY <1>1, <2>1 DEF StockInv
  <2>3. Summable(Stock, Allocated) /\ Allocated \in SUBSET ProcState
    <3>1. Allocated = Allocated \cup {} /\ Allocated \cap {} = {}
      OBVIOUS
    <3> QED  BY <1>1, <3>1 DEF StockInv
  <2> QED  BY <2>2, <2>3, SumSame
<1> QED  BY <1>5, <1>6

LEMMA SilentCountsKeep ==
  ASSUME Exact, TypedInv', LifeInv', OutputSize' \in Nat, grown' \in Nat, UNCHANGED contextVars,
         Silent, DescriptionsMeasure', \A g \in Pid : CountsOn(g)', Written' = Written,
         quirks' = {} => \A q \in Pid : stop[q].event = "syscall" => stop'[q] = stop[q]
  PROVE  CountsKeep
<1>1. /\ TypedInv /\ KernelTyped /\ KernelTyped' /\ LifeInv /\ OutputSize \in Nat /\ grown \in Nat
      /\ DescriptionsMeasure /\ \A g \in Pid : CountsOn(g)
  BY DEF Exact, TypedInv
<1>2. CallsReach /\ CallsReach'
  BY <1>1, ReachIs, ReachIsNext
<1>3. /\ Counted' <= Counted /\ Counted \in Int /\ Counted' \in Int
      /\ (\A q \in Pid : stop[q].event = "syscall" => stop'[q] = stop[q]) => Counted' = Counted
  BY <1>1, <1>2, SilentCounts
<1>4. Written \in Nat
  BY <1>1, WrittenIs DEF WrittenInv
<1>5. Counted' + Written <= Counted + Written'
  BY <1>3, <1>4
<1>6. quirks' = {} => Counted' + Written = Counted + Written'
  BY <1>3, <1>4
<1> QED  BY <1>5, <1>6 DEF CountsKeep

\* Nothing is written, but file states may be copied and descriptions closed.
LEMMA NothingMeasured ==
  ASSUME KernelTyped, DescriptionsMeasure, size' = size, quirks \subseteq quirks',
         \A o \in Ofd :
           \/ ofds'[o] = Free
           \/ /\ ofds'[o].name = ofds[o].name /\ ofds'[o].write = ofds[o].write
              /\ ofds'[o].followed = ofds[o].followed
              /\ ofds'[o].init = ofds[o].init /\ ofds'[o].peak = ofds[o].peak
              /\ quirks' = {} => ofds'[o].split = ofds[o].split
  PROVE  DescriptionsMeasure'
<1> SUFFICES ASSUME NEW o \in Ofd
             PROVE  IF ofds'[o].write
                    THEN /\ ofds'[o].name # None /\ ofds'[o].followed
                         /\ size'[ofds'[o].name] = Longer(ofds'[o].init, ofds'[o].peak)
                         /\ quirks' = {} => ~ofds'[o].split
                    ELSE ofds'[o].peak = 0
  BY DEF DescriptionsMeasure
<1>1. CASE ofds'[o] = Free
  BY <1>1 DEF Free
<1>2. CASE ofds'[o] # Free
  <2>1. quirks' = {} => quirks = {}
    OBVIOUS
  <2> QED  BY <1>2, <2>1 DEF DescriptionsMeasure
<1> QED  BY <1>1, <1>2

LEMMA NothingWritten ==
  ASSUME WrittenInv, WrittenInv', grown' = grown,
         \A o \in Ofd : ofds'[o].peak = ofds[o].peak /\ ofds'[o].init = ofds[o].init
  PROVE  Written' = Written
<1>1. Growths(ofds') = Growths(ofds)
  BY DEF Growths, Growth
<1>2. (Growths(ofds))' = Growths(ofds)
  BY <1>1 DEF Growths
<1>3. Written = grown + SumOf(Growths(ofds), Ofd)
  BY DEF WrittenInv
<1>4. Written' = grown' + SumOf(Growths(ofds'), Ofd)
  BY DEF WrittenInv
<1> QED  BY <1>1, <1>3, <1>4

\* Threads come and go, and names; descriptors and descriptions stay.
LEMMA ThreadsCount ==
  ASSUME Exact, TypedInv', LifeInv', OutputSize' \in Nat,
         UNCHANGED <<contextVars, kfds, ofds, size, grown>>, quirks \subseteq quirks', Silent,
         \A q \in Pid : stop[q].event = "syscall" => stop'[q] = stop[q] /\ group'[q] = group[q],
         \A g \in Pid : Live(g)' => Live(g),
         \A g \in Pid : stop'[g].event \in {"fork", "exec"} =>
           stop'[g] = stop[g] /\ group'[g] = group[g],
         \A g \in Pid : stop'[g].event \in {"fork", "exec"} =>
           \A fd \in Fd : Writable(g, fd) /\ At(g, fd).name \notin unlinked =>
             At(g, fd).name \notin unlinked'
  PROVE  CountsKeep
<1>1. /\ TypedInv /\ KernelTyped /\ KernelTyped' /\ LifeInv /\ grown \in Nat
      /\ DescriptionsMeasure /\ \A g \in Pid : CountsOn(g) /\ StandsOn(g)
  BY DEF Exact, TypedInv
<1>2. \A o : Still(o)
  BY DEF Still
<1>3. ASSUME NEW g \in Pid
      PROVE  CountsOn(g)'
  <2>1. Waiting(g)
    BY DEF Waiting, Calls
  <2>2. kfds'[g] = kfds[g]
    OBVIOUS
  <2>3. CountsOn(g) /\ StandsOn(g)
    BY <1>1
  <2> QED  BY <1>1, <1>2, <2>1, <2>2, <2>3, PassedCounts
<1>4. DescriptionsMeasure'
  BY <1>1, NothingMeasured
<1>5. Written' = Written
  <2>1. WrittenInv /\ WrittenInv'
    BY <1>1, <1>4, WrittenIs, WrittenIsNext
  <2> QED  BY <2>1, NothingWritten
<1>6. grown' \in Nat
  BY <1>1
<1> QED  BY <1>3, <1>4, <1>5, <1>6, SilentCountsKeep

LEMMA CloneCountsKeep ==
  ASSUME Exact, TypedInv', LifeInv', OutputSize' \in Nat, NEW p \in Pid, NEW thread \in Pid,
         stop[p] = Running, Clone(p, thread), UNCHANGED contextVars
  PROVE  CountsKeep
<1> DEFINE s == [Running EXCEPT !.event = "clone", !.child = thread]
           born == [Absent EXCEPT !.event = "born"]
<1>1. /\ s.event = "clone" /\ born.event = "born" /\ Running.event = "running"
      /\ Absent.event = "absent" /\ Running # Absent
  BY Events
<1>2. /\ stop' = [stop EXCEPT ![p] = s, ![thread] = born]
      /\ group' = [group EXCEPT ![thread] = group[p]]
      /\ stop[thread] = Absent /\ UNCHANGED <<kfds, ofds, size, unlinked, grown, quirks>>
  BY DEF Clone, files
<1> HIDE DEF s, born
<1>3. TypedInv /\ LifeInv
  BY DEF Exact
<1>4. /\ \A q \in Pid : stop'[q] = IF q = thread THEN born ELSE IF q = p THEN s ELSE stop[q]
      /\ \A q \in Pid : group'[q] = IF q = thread THEN group[p] ELSE group[q]
      /\ p # thread
  BY <1>1, <1>2, <1>3 DEF LifeInv, ThreadInv, TypedInv, KernelTyped
<1>5. group[p] # thread
  BY <1>1, <1>2, <1>3, NobodyYet DEF TypedInv
<1>6. \A q \in Pid : stop[q].event = "syscall" => stop'[q] = stop[q] /\ group'[q] = group[q]
  BY <1>1, <1>2, <1>4
<1>7. Silent
  BY <1>1, <1>4 DEF Silent
<1>8. \A g \in Pid : Live(g)' => Live(g)
  BY <1>1, <1>2, <1>4, <1>5 DEF Live
<1>9. \A g \in Pid : stop'[g].event \in {"fork", "exec"} =>
        stop'[g] = stop[g] /\ group'[g] = group[g]
  BY <1>1, <1>4
<1> QED  BY <1>2, <1>6, <1>7, <1>8, <1>9, ThreadsCount

LEMMA ThreadExitCountsKeep ==
  ASSUME Exact, TypedInv', LifeInv', OutputSize' \in Nat, NEW p \in Pid,
         stop[p] = Running, ThreadExit(p), UNCHANGED contextVars
  PROVE  CountsKeep
<1> DEFINE s == [Running EXCEPT !.event = "exit"]
<1>1. s.event = "exit" /\ Running.event = "running" /\ Running # Absent
  BY Events
<1>2. /\ stop' = [stop EXCEPT ![p] = s]
      /\ UNCHANGED <<group, kfds, ofds, size, unlinked, grown, quirks>>
  BY DEF ThreadExit, files
<1> HIDE DEF s
<1>3. \A q \in Pid : stop'[q] = IF q = p THEN s ELSE stop[q]
  BY <1>2 DEF Exact, LifeInv, ThreadInv
<1>4. \A q \in Pid : stop[q].event = "syscall" => stop'[q] = stop[q] /\ group'[q] = group[q]
  BY <1>1, <1>2, <1>3
<1>5. Silent
  BY <1>1, <1>2, <1>3 DEF Silent
<1>6. \A g \in Pid : Live(g)' => Live(g)
  BY <1>1, <1>2, <1>3 DEF Live
<1>7. \A g \in Pid : stop'[g].event \in {"fork", "exec"} =>
        stop'[g] = stop[g] /\ group'[g] = group[g]
  BY <1>1, <1>2, <1>3
<1> QED  BY <1>2, <1>4, <1>5, <1>6, <1>7, ThreadsCount

LEMMA UnlinkCountsKeep ==
  ASSUME Exact, TypedInv', LifeInv', OutputSize' \in Nat, NEW name \in Name,
         Unlink(name), UNCHANGED contextVars, Ordinary'
  PROVE  CountsKeep
<1>1. /\ UNCHANGED <<size, group, kfds, ofds, stop, grown>> /\ unlinked' = unlinked \cup {name}
      /\ quirks' = quirks \cup Kind("gone", Opening(name)) \cup Kind("stale", Copying(name))
  BY DEF Unlink
<1>2. ~Copying(name)
  BY <1>1 DEF Kind, Ordinary
<1>3. Silent
  BY <1>1 DEF Silent
<1>4. \A g \in Pid : Live(g)' => Live(g)
  BY <1>1 DEF Live
<1>5. ASSUME NEW g \in Pid, stop'[g].event \in {"fork", "exec"}, NEW fd \in Fd, Writable(g, fd),
             At(g, fd).name \notin unlinked
      PROVE  At(g, fd).name \notin unlinked'
  <2>1. stop[g].event \in {"fork", "exec"}
    BY <1>1, <1>5
  <2>2. At(g, fd).name # name
    BY <1>2, <1>5, <2>1 DEF Copying
  <2> QED  BY <1>1, <1>5, <2>2
<1>6. quirks \subseteq quirks'
  BY <1>1
<1> QED  BY <1>1, <1>3, <1>4, <1>5, <1>6, ThreadsCount

LEMMA ExitCountsKeep ==
  ASSUME Exact, TypedInv', LifeInv', OutputSize' \in Nat, NEW p \in Pid, stop[p] = Running,
         Exit(p), UNCHANGED contextVars
  PROVE  CountsKeep
<1> DEFINE fds == [kfds EXCEPT ![group[p]] = AllClosed]
           s == [Running EXCEPT !.event = "exit"]
<1>1. s.event = "exit" /\ Running.event = "running" /\ Absent.event = "absent" /\ Running # Absent
  BY Events
<1>2. /\ SetDescriptors(fds, ofds) /\ group' = group /\ size' = size /\ unlinked' = unlinked
      /\ stop' = [q \in Pid |-> IF q \in Members(p) THEN s ELSE stop[q]]
      /\ quirks' = quirks \cup Kind("lost", \E q \in Members(p) : stop[q].event = "syscall")
  BY DEF Exit, files
<1>3. /\ TypedInv /\ KernelTyped /\ KernelTyped' /\ LifeInv /\ grown \in Nat
      /\ DescriptionsMeasure /\ \A g \in Pid : CountsOn(g) /\ StandsOn(g)
  BY DEF Exact, TypedInv
<1>4. group[p] \in Pid /\ GroupInv /\ group[group[p]] = group[p] /\ stop[group[p]] # Absent
  BY <1>1, <1>3, ActorsAreThere
<1>5. /\ AllClosed \in [Fd -> [ofd : Ofd \cup {None}, cloexec : BOOLEAN]]
      /\ \A fd \in Fd : AllClosed[fd].ofd = None
  BY FreeTyped DEF AllClosed, Closed
<1> HIDE DEF s
<1>6. fds \in Entries /\ \A q \in Pid : fds[q] = IF q = group[p] THEN AllClosed ELSE kfds[q]
  BY <1>3, <1>4, <1>5 DEF KernelTyped, Entries
<1> HIDE DEF fds
<1>7. /\ kfds' = fds
      /\ \A q \in Pid, fd \in Fd : fds[q][fd].ofd # None => ofds'[fds[q][fd].ofd] = ofds[fds[q][fd].ofd]
      /\ \A o \in Ofd : ofds'[o] = ofds[o] \/ ofds'[o] = Free
  <2>1. ofds \in [Ofd -> Description]
    BY <1>3 DEF KernelTyped
  <2> QED  BY <1>2, <1>6, <2>1, DescriptorsSet
<1>8. \A q \in Pid : stop'[q] = IF stop[q] # Absent /\ group[q] = group[p] THEN s ELSE stop[q]
  BY <1>2 DEF Members
<1>9. Silent
  BY <1>1, <1>2, <1>8 DEF Silent
<1>10. ASSUME NEW g \in Pid
       PROVE  CountsOn(g)'
  <2>1. CASE g = group[p]
    <3>1. \A q \in Pid : group'[q] = g => stop'[q].event \in {"absent", "exit"}
      BY <1>1, <1>2, <1>8, <2>1
    <3>2. Calls(g)' = {} /\ ~Live(g)'
      BY <3>1 DEF Calls, Live
    <3>3. stop'[g].event = "exit"
      BY <1>1, <1>4, <1>8, <2>1
    <3> QED  BY <3>2, <3>3 DEF CountsOn
  <2>2. CASE g # group[p]
    <3>1. kfds'[g] = kfds[g]
      BY <1>6, <1>7, <2>2
    <3>2. ASSUME NEW o \in Ofd, Holds(g, o)
          PROVE  Still(o)
      <4>1. PICK x \in Fd : kfds[g][x].ofd = o
        BY <3>2 DEF Holds
      <4>2. o # None
        BY AccountingAssumption, Zenon
      <4>3. ofds'[o] = ofds[o]
        BY <1>7, <3>1, <4>1, <4>2
      <4> QED  BY <1>2, <4>3 DEF Still
    <3>3. Waiting(g)
      BY <1>2, <1>8, <2>2 DEF Waiting, Calls
    <3>4. Live(g)' => Live(g)
      BY <1>2, <1>8, <2>2 DEF Live
    <3>5. stop'[g].event \in {"fork", "exec"} => stop'[g] = stop[g] /\ group'[g] = group[g]
      BY <1>1, <1>2, <1>8
    <3>6. CountsOn(g) /\ StandsOn(g)
      BY <1>3
    <3> QED  BY <1>2, <1>3, <1>9, <3>1, <3>2, <3>3, <3>4, <3>5, <3>6, PassedCounts
  <2> QED  BY <2>1, <2>2
<1>11. quirks \subseteq quirks'
  BY <1>2
<1>12. DescriptionsMeasure'
  BY <1>2, <1>3, <1>7, <1>11, NothingMeasured
<1>13. Written' = Written /\ grown' \in Nat
  <2>1. Measured(ofds)
    BY <1>3, DescriptionsMeasured DEF Measured
  <2>2. grown' \in Nat
    BY <1>2, <1>3, <2>1, FreedAreHistory
  <2>3. WrittenInv /\ WrittenInv'
    BY <1>3, <1>12, <2>2, WrittenIs, WrittenIsNext
  <2>4. Written' = Written
    BY <1>2, <2>1, <2>3, WrittenStays
  <2> QED  BY <2>2, <2>4
<1>14. quirks' = {} => \A q \in Pid : stop[q].event = "syscall" => stop'[q] = stop[q]
  <2>1. quirks' = {} => \A q \in Members(p) : stop[q].event # "syscall"
    BY <1>2 DEF Kind
  <2> QED  BY <1>2, <2>1
<1> QED  BY <1>9, <1>10, <1>12, <1>13, <1>14, SilentCountsKeep

\* A file state that follows a description alone, and has been copied.
LEMMA SplitsUp ==
  ASSUME NEW file, NEW top \in Int, NEW pos \in Int, NEW d, NEW end \in Int, d.pos \in Int,
         MeasuresUp(file, top, pos, d, end), NEW x,
         x.write = d.write, x.name = d.name, x.append = d.append, x.pos = d.pos,
         d.split => x.split, x.split => d.split \/ d.pos <= end,
         d.write /\ ~d.split => pos = IF d.append THEN end ELSE d.pos
  PROVE  MeasuresUp(file, top, pos, x, end)
<1>1. CASE ~x.write \/ (x.split <=> d.split)
  BY <1>1 DEF MeasuresUp
<1>2. CASE x.write /\ x.split /\ ~d.split
  <2> DEFINE landing == IF d.append THEN end ELSE d.pos
  <2>1. top = end /\ pos = landing /\ landing <= end /\ file.Filename = d.name
    BY <1>2 DEF MeasuresUp
  <2>2. top <= end /\ pos <= top /\ pos <= landing /\ end <= Longer(top, landing)
    BY <2>1 DEF Longer
  <2> QED  BY <1>2, <2>1, <2>2 DEF MeasuresUp
<1> QED  BY <1>1, <1>2

LEMMA SplitAt ==
  ASSUME Exact, NEW p \in Pid, Live(p), Calls(p) = {}, NEW e \in Table(p), NEW a \in e.slots,
         NEW o, o = kfds[p][a].ofd, o # None, NEW x,
         x.write = ofds[o].write, x.name = ofds[o].name, x.append = ofds[o].append,
         x.pos = ofds[o].pos, ofds[o].split => x.split,
         x.split => ofds[o].split \/ ofds[o].pos <= size[ofds[o].name]
  PROVE  MeasuresUp(e.file, Top(ProcMap[p], e), e.file.CurrPos + Writes(ProcMap[p], e),
                    x, size[ofds[o].name])
<1> DEFINE s == ProcMap[p]
<1>1. /\ TypedInv /\ KernelTyped /\ HeldInv /\ LifeInv /\ CountsOn(p) /\ StandsOn(p)
      /\ \A g \in Pid : CountsOn(g)
  BY DEF Exact, TypedInv
<1>2. CallsReach
  BY <1>1, ReachIs
<1>3. p \in Registered /\ group[p] = p /\ Table(p) \in SUBSET Entry
  BY <1>1, ProgramsAre DEF ProgramsKnown
<1>4. Busy(p) = {}
  BY DEF Busy
<1>5. MeasuresAt(p, e, a) /\ Follow(p, {})
  BY <1>1, <1>4 DEF CountsOn, StandsOn, Measures
<1>6. Via(s, e.slots, {"lseek"}) = {}
  <2> SUFFICES ASSUME NEW q \in Via(s, e.slots, {"lseek"}) PROVE FALSE
    OBVIOUS
  <2>1. q \in Pid /\ stop[q].event = "syscall" /\ ProcMap[q] = ProcMap[p]
    BY DEF Via
  <2>2. stop[q] # Absent /\ stop[q].event # "born"
    BY <2>1, Events
  <2>3. q \in Registered /\ KnownInv
    BY <1>1, <2>1, <2>2, LeadersAreKnown, ActorsAreThere
  <2>4. group[q] = p
    BY <1>3, <2>1, <2>3 DEF KnownInv
  <2> QED  BY <2>1, <2>4 DEF Calls
<1>7. e \in Entry /\ a \in Fd
  BY <1>3 DEF Entry
<1>8. /\ o \in Ofd /\ ofds[o].name \in Name /\ size[ofds[o].name] \in Nat /\ ofds[o].pos \in Nat
  BY <1>1, <1>7, LandsIn
<1>9. Top(s, e) \in Nat /\ e.file.CurrPos \in Nat /\ Writes(s, e) \in Nat
  BY <1>2, <1>7, TopIs, ViaIs DEF Writes
<1>10. MeasuresUp(e.file, Top(s, e), e.file.CurrPos + Writes(s, e), ofds[o], size[ofds[o].name])
  BY <1>5 DEF MeasuresAt
<1>11. ofds[o].write /\ ~ofds[o].split =>
         e.file.CurrPos + Writes(s, e) = IF ofds[o].append THEN size[ofds[o].name] ELSE ofds[o].pos
  BY <1>5, <1>6 DEF Follow, Sole, Landing
<1>12. size[ofds[o].name] \in Int /\ Top(s, e) \in Int /\ e.file.CurrPos + Writes(s, e) \in Int
       /\ ofds[o].pos \in Int
  BY <1>8, <1>9
<1> HIDE DEF s
<1> HIDE <1>1, <1>2, <1>3, <1>5
<1>13. MeasuresUp(e.file, Top(s, e), e.file.CurrPos + Writes(s, e), x, size[ofds[o].name])
  BY <1>10, <1>11, <1>12, SplitsUp
<1> QED  BY <1>13 DEF s

LEMMA ForkCountsKeep ==
  ASSUME Exact, TypedInv', LifeInv', OutputSize' \in Nat, NEW p \in Pid, NEW child \in Pid,
         stop[p] = Running, Fork(p, child), UNCHANGED contextVars, Ordinary'
  PROVE  CountsKeep
<1> DEFINE inherited == {kfds[p][fd].ofd : fd \in {f \in Fd : Writable(p, f)}}
           s == [Running EXCEPT !.event = "fork", !.child = child]
           born == [Absent EXCEPT !.event = "born"]
<1>1. /\ s.event = "fork" /\ s.child = child /\ born.event = "born" /\ Running.event = "running"
      /\ Absent.event = "absent" /\ Running # Absent
  BY Events
<1>2. /\ kfds' = [kfds EXCEPT ![child] = kfds[p]] /\ ofds' = Split(ofds, inherited)
      /\ stop' = [stop EXCEPT ![p] = s, ![child] = born]
      /\ group' = [group EXCEPT ![child] = child]
      /\ stop[child] = Absent /\ Members(p) = {p} /\ size' = size /\ unlinked' = unlinked
      /\ grown' = grown /\ quirks' = quirks \cup Copies(inherited) \cup Stale(p)
  BY DEF Fork, files
<1>3. /\ TypedInv /\ KernelTyped /\ KernelTyped' /\ LifeInv /\ grown \in Nat /\ OneOwner
      /\ DescriptionsMeasure /\ \A g \in Pid : CountsOn(g) /\ StandsOn(g)
  BY DEF Exact, TypedInv
<1>4. group[p] = p /\ \A q \in Pid : stop[q] # Absent /\ group[q] = p => q = p
  BY <1>1, <1>2, <1>3, LonersAre
<1>5. \A fd \in Fd : kfds[p][fd].ofd # None /\ ofds[kfds[p][fd].ofd].write
                     => kfds[p][fd].ofd \in inherited
  BY <1>4 DEF Writable, IsOpen, At, Descriptors
<1>6. \A o \in inherited : /\ o # None /\ ofds[o].write /\ \E fd \in Fd : kfds[p][fd].ofd = o
  BY <1>4 DEF Writable, IsOpen, At, Descriptors
<1>7. /\ \A o \in inherited : ~(ofds[o].pos > size[ofds[o].name])
      /\ quirks' = {} => inherited = {}
      /\ \A fd \in Fd : Writable(p, fd) => At(p, fd).name \notin unlinked
  <2> HIDE DEF inherited
  <2>1. "jump" \notin quirks' /\ "stale" \notin quirks'
    BY DEF Ordinary
  <2>2. /\ \A o \in inherited : ~(ofds[o].pos > size[ofds[o].name])
        /\ quirks' = {} => inherited = {}
    BY <1>2, <2>1 DEF Copies, Kind
  <2>3. \A fd \in Fd : Writable(p, fd) => At(p, fd).name \notin unlinked
    BY <1>2, <2>1 DEF Stale, Kind
  <2> QED  BY <2>2, <2>3
<1> HIDE DEF s, born, inherited
<1>8. /\ \A q \in Pid : stop'[q] = IF q = child THEN born ELSE IF q = p THEN s ELSE stop[q]
      /\ \A q \in Pid : group'[q] = IF q = child THEN child ELSE group[q]
      /\ \A q \in Pid : kfds'[q] = IF q = child THEN kfds[p] ELSE kfds[q]
      /\ \A q : Table(q)' = Table(q)
      /\ p # child
  BY <1>1, <1>2, <1>3 DEF LifeInv, ThreadInv, TypedInv, KernelTyped, contextVars, Table
<1>9. \A q \in Pid : stop[q] # Absent => group[q] # child
  BY <1>2, <1>3, NobodyYet
<1>10. \A o \in Ofd : /\ ofds'[o].name = ofds[o].name /\ ofds'[o].write = ofds[o].write
                      /\ ofds'[o].append = ofds[o].append /\ ofds'[o].pos = ofds[o].pos
                      /\ ofds'[o].init = ofds[o].init /\ ofds'[o].peak = ofds[o].peak
                      /\ ofds'[o].followed = ofds[o].followed
                      /\ ofds'[o].split <=> (ofds[o].split \/ o \in inherited)
                      /\ ofds[o].split \in BOOLEAN /\ ofds'[o].split \in BOOLEAN
  <2>1. \A o \in Ofd : ofds'[o] = [ofds[o] EXCEPT !.split = @ \/ o \in inherited]
    BY <1>2 DEF Split
  <2>2. \A o \in Ofd : ofds[o] \in Description /\ ofds'[o] \in Description
    BY <1>3 DEF KernelTyped
  <2>3. \A f \in Description, k \in BOOLEAN :
           LET x == [f EXCEPT !.split = k]
           IN  /\ x.name = f.name /\ x.write = f.write /\ x.append = f.append /\ x.pos = f.pos
               /\ x.init = f.init /\ x.peak = f.peak /\ x.followed = f.followed
               /\ x.split = k /\ f.split \in BOOLEAN
    BY DEF Description
  <2> TAKE o \in Ofd
  <2>4. PICK f : f = ofds[o]
    OBVIOUS
  <2>5. PICK x : x = ofds'[o]
    OBVIOUS
  <2>6. PICK k : k = (f.split \/ o \in inherited)
    OBVIOUS
  <2>7. f \in Description /\ x \in Description /\ k \in BOOLEAN /\ x = [f EXCEPT !.split = k]
    BY <2>1, <2>2, <2>4, <2>5, <2>6
  <2>8. /\ x.name = f.name /\ x.write = f.write /\ x.append = f.append /\ x.pos = f.pos
        /\ x.init = f.init /\ x.peak = f.peak /\ x.followed = f.followed
        /\ x.split = k /\ f.split \in BOOLEAN
    BY <2>3, <2>7
  <2> QED  BY <2>4, <2>5, <2>6, <2>7, <2>8
<1>11. quirks \subseteq quirks'
  BY <1>2
<1>12. Silent
  BY <1>1, <1>8 DEF Silent
<1>13. \A q \in Pid : stop[q].event = "syscall" => stop'[q] = stop[q] /\ group'[q] = group[q]
  BY <1>1, <1>2, <1>8
<1>14. ASSUME NEW g \in Pid
       PROVE  CountsOn(g)'
  <2>1. CASE g # p /\ g # child
    <3>1. ASSUME NEW o \in Ofd, Holds(g, o)
          PROVE  Still(o)
      <4>1. o \in inherited => ofds[o].split
        <5> SUFFICES ASSUME o \in inherited, ~ofds[o].split PROVE FALSE
          BY <1>10
        <5>1. Sole(o)
          BY <1>6 DEF Sole
        <5> QED  BY <1>3, <1>6, <2>1, <3>1, <5>1 DEF OneOwner, Holds
      <4> QED  BY <1>2, <1>10, <4>1 DEF Still
    <3>2. Waiting(g)
      BY <1>13 DEF Waiting, Calls
    <3>3. Live(g)' => Live(g)
      BY <1>1, <1>2, <1>8, <2>1 DEF Live
    <3>4. stop'[g] = stop[g] /\ group'[g] = group[g] /\ kfds'[g] = kfds[g]
      BY <1>8, <2>1
    <3>5. CountsOn(g) /\ StandsOn(g)
      BY <1>3
    <3> QED  BY <1>2, <1>3, <1>12, <3>1, <3>2, <3>3, <3>4, <3>5, PassedCounts
  <2>2. CASE g = p
    <3>1. \A q \in Pid : group'[q] = p => stop'[q].event # "syscall"
      <4> SUFFICES ASSUME NEW q \in Pid, group'[q] = p PROVE stop'[q].event # "syscall"
        OBVIOUS
      <4>1. q # child /\ group[q] = p
        BY <1>8
      <4>2. q = p \/ stop[q] = Absent
        BY <1>4, <4>1
      <4> QED  BY <1>1, <1>8, <4>1, <4>2
    <3>2. Calls(p)' = {}
      BY <3>1 DEF Calls
    <3>3. Live(p) /\ Calls(p) = {}
      BY <1>1, <1>4 DEF Live, Calls
    <3>4. p \in Registered /\ Table(p) \in SUBSET Entry
      BY <1>3, <3>3, ProgramsAre DEF ProgramsKnown
    <3>5. Quiet(ProcMap[p]) /\ ProcMap' = ProcMap
      <4>1. Waiting(p)
        BY <1>13 DEF Waiting, Calls
      <4> QED  BY <1>3, <1>4, <1>12, <3>4, <4>1, WaitingIsQuiet DEF contextVars
    <3>6. ASSUME NEW e \in Table(p), NEW a \in e.slots
          PROVE  MeasuresAt(p, e, a)'
      <4> SUFFICES ASSUME NEW t, t = ProcMap[p], NEW o, o = kfds[p][a].ofd
                   PROVE  MeasuresAt(p, e, a)'
        OBVIOUS
      <4>1. Top(t, e)' = Top(t, e) /\ Writes(t, e)' = Writes(t, e)
        BY <3>5, TopStays DEF Quiet
      <4>2. kfds'[p][a].ofd = o /\ t = ProcMap[p] /\ ProcMap'[p] = t
        BY <1>8, <3>5
      <4>3. ASSUME o # None
            PROVE  MeasuresUp(e.file, Top(t, e)', e.file.CurrPos + Writes(t, e)',
                              ofds'[o], size'[ofds'[o].name])
        <5>1. a \in Fd /\ o \in Ofd
          BY <3>4, <4>3, <1>3 DEF Entry, KernelTyped
        <5>2. ofds[o].pos \in Int /\ size[ofds[o].name] \in Int
          BY <1>3, <4>3, <5>1, LandsIn DEF TypedInv
        <5>3. ofds'[o].split => ofds[o].split \/ ofds[o].pos <= size[ofds[o].name]
          BY <1>7, <1>10, <5>1, <5>2
        <5>4. MeasuresUp(e.file, Top(t, e), e.file.CurrPos + Writes(t, e),
                         ofds'[o], size[ofds[o].name])
          BY <1>10, <3>3, <4>3, <5>1, <5>3, SplitAt
        <5> QED  BY <1>2, <1>10, <4>1, <5>1, <5>4
      <4> QED  BY <4>2, <4>3, AtBecomes
    <3>7. \A e \in Table(p)' : \A a \in e.slots : MeasuresAt(p, e, a)'
      BY <1>8, <3>6
    <3>8. Measures(p, Busy(p))'
      BY <3>7 DEF Measures
    <3>9. stop'[p].event = "fork"
      BY <1>1, <1>8
    <3>10. \A fd \in Fd : Writable(p, fd)' => At(p, fd).name' \notin unlinked'
      <4> SUFFICES ASSUME NEW fd \in Fd, Writable(p, fd)' PROVE At(p, fd).name' \notin unlinked'
        OBVIOUS
      <4>1. group'[p] = p /\ kfds'[p] = kfds[p]
        BY <1>4, <1>8
      <4>2. kfds[p][fd].ofd \in Ofd /\ ofds'[kfds[p][fd].ofd].write
        BY <1>3, <4>1 DEF Writable, IsOpen, At, Descriptors, KernelTyped
      <4>3. Writable(p, fd)
        BY <1>4, <1>10, <4>1, <4>2 DEF Writable, IsOpen, At, Descriptors
      <4>4. At(p, fd).name' = At(p, fd).name
        BY <1>4, <1>10, <4>1, <4>2 DEF At, Descriptors
      <4> QED  BY <1>2, <1>7, <4>3, <4>4
    <3> QED  BY <2>2, <3>2, <3>8, <3>9, <3>10 DEF CountsOn
  <2>3. CASE g = child
    <3>1. \A q \in Pid : group'[q] = child => stop'[q].event \in {"absent", "born"}
      <4> SUFFICES ASSUME NEW q \in Pid, group'[q] = child
                   PROVE  stop'[q].event \in {"absent", "born"}
        OBVIOUS
      <4>1. CASE q = child
        BY <1>1, <1>8, <4>1
      <4>2. CASE q # child
        <5>1. stop[q] = Absent
          BY <1>8, <1>9, <4>2
        <5>2. stop'[q] = stop[q]
          BY <1>1, <1>8, <4>2, <5>1
        <5> QED  BY <1>1, <5>1, <5>2
      <4> QED  BY <4>1, <4>2
    <3>2. Calls(child)' = {} /\ ~Live(child)'
      BY <3>1 DEF Calls, Live
    <3>3. stop'[child].event = "born"
      BY <1>1, <1>8
    <3> QED  BY <2>3, <3>2, <3>3 DEF CountsOn
  <2> QED  BY <2>1, <2>2, <2>3
<1>15. DescriptionsMeasure'
  <2>1. quirks' = {} => \A o \in Ofd : ofds'[o].split = ofds[o].split
    BY <1>7, <1>10
  <2> QED  BY <1>2, <1>3, <1>10, <1>11, <2>1, NothingMeasured
<1>16. Written' = Written /\ grown' \in Nat
  <2>1. grown' \in Nat
    BY <1>2, <1>3
  <2>2. WrittenInv /\ WrittenInv'
    BY <1>3, <1>15, <2>1, WrittenIs, WrittenIsNext
  <2> QED  BY <1>2, <1>10, <2>1, <2>2, NothingWritten
<1> QED  BY <1>12, <1>13, <1>14, <1>15, <1>16, SilentCountsKeep

LEMMA ExecCountsKeep ==
  ASSUME Exact, TypedInv', LifeInv', OutputSize' \in Nat, NEW p \in Pid,
         stop[p] = Running, Exec(p), UNCHANGED contextVars, Ordinary'
  PROVE  CountsKeep
<1> DEFINE table == [fd \in Fd |-> IF kfds[p][fd].cloexec THEN Closed ELSE kfds[p][fd]]
           dups == {o \in Ofd : ofds[o].write /\ \E a, b \in Fd :
                                  a # b /\ table[a].ofd = o /\ table[b].ofd = o}
           fds == [kfds EXCEPT ![p] = table]
           descriptions == Split(ofds, dups)
           s == [Running EXCEPT !.event = "exec"]
<1>1. s.event = "exec" /\ Running.event = "running" /\ Absent.event = "absent" /\ Running # Absent
  BY Events
<1>2. /\ SetDescriptors(fds, descriptions) /\ group' = group /\ Members(p) = {p}
      /\ stop' = [stop EXCEPT ![p] = s] /\ size' = size /\ unlinked' = unlinked
      /\ quirks' = quirks \cup Copies(dups) \cup Stale(p)
  BY DEF Exec, files
<1>3. /\ TypedInv /\ KernelTyped /\ KernelTyped' /\ LifeInv /\ grown \in Nat /\ OneOwner
      /\ DescriptionsMeasure /\ \A g \in Pid : CountsOn(g) /\ StandsOn(g)
  BY DEF Exact, TypedInv
<1>4. table \in [Fd -> [ofd : Ofd \cup {None}, cloexec : BOOLEAN]]
  BY <1>3, FreeTyped DEF KernelTyped
<1>5. \A fd \in Fd : table[fd] = kfds[p][fd] \/ table[fd].ofd = None
  BY DEF Closed
<1>6. \A o \in dups : /\ ofds[o].write /\ o \in Ofd
                      /\ \E fd \in Fd : table[fd].ofd = o
  OBVIOUS
<1> HIDE DEF table, dups, s
<1>7. fds \in Entries /\ \A q \in Pid : fds[q] = IF q = p THEN table ELSE kfds[q]
  BY <1>3, <1>4 DEF KernelTyped, Entries
<1>8. /\ descriptions \in [Ofd -> Description]
      /\ \A o \in Ofd :
           /\ descriptions[o].name = ofds[o].name /\ descriptions[o].write = ofds[o].write
           /\ descriptions[o].append = ofds[o].append /\ descriptions[o].pos = ofds[o].pos
           /\ descriptions[o].init = ofds[o].init /\ descriptions[o].peak = ofds[o].peak
           /\ descriptions[o].followed = ofds[o].followed
           /\ descriptions[o].split <=> (ofds[o].split \/ o \in dups)
           /\ ofds[o].split \in BOOLEAN /\ descriptions[o].split \in BOOLEAN
  <2>1. \A o \in Ofd : descriptions[o] = [ofds[o] EXCEPT !.split = @ \/ o \in dups]
    BY DEF Split
  <2>2. \A o \in Ofd : ofds[o] \in Description
    BY <1>3 DEF KernelTyped
  <2>3. descriptions \in [Ofd -> Description]
    BY <1>3, SplitTyped DEF KernelTyped
  <2> HIDE DEF descriptions
  <2> QED  BY <2>1, <2>2, <2>3 DEF Description
<1> HIDE DEF fds, descriptions
<1>9. /\ kfds' = fds
      /\ \A q \in Pid, fd \in Fd :
           fds[q][fd].ofd # None => ofds'[fds[q][fd].ofd] = descriptions[fds[q][fd].ofd]
      /\ \A o \in Ofd : ofds'[o] = descriptions[o] \/ ofds'[o] = Free
  BY <1>2, <1>7, <1>8, DescriptorsSet
<1>10. /\ \A q \in Pid : stop'[q] = IF q = p THEN s ELSE stop[q]
       /\ \A q : Table(q)' = Table(q)
  BY <1>2, <1>3 DEF LifeInv, ThreadInv, contextVars, Table
<1>11. group[p] = p /\ \A q \in Pid : stop[q] # Absent /\ group[q] = p => q = p
  BY <1>1, <1>2, <1>3, LonersAre
<1>12. /\ \A o \in dups : ~(ofds[o].pos > size[ofds[o].name])
       /\ quirks' = {} => dups = {}
       /\ \A fd \in Fd : Writable(p, fd) => At(p, fd).name \notin unlinked
       /\ quirks \subseteq quirks'
  <2>1. "jump" \notin quirks' /\ "stale" \notin quirks'
    BY DEF Ordinary
  <2>2. /\ \A o \in dups : ~(ofds[o].pos > size[ofds[o].name])
        /\ quirks' = {} => dups = {}
    BY <1>2, <2>1 DEF Copies, Kind
  <2>3. \A fd \in Fd : Writable(p, fd) => At(p, fd).name \notin unlinked
    BY <1>2, <2>1 DEF Stale, Kind
  <2> QED  BY <1>2, <2>2, <2>3
<1>13. Silent
  BY <1>1, <1>2, <1>10 DEF Silent
<1>14. \A q \in Pid : stop[q].event = "syscall" => stop'[q] = stop[q] /\ group'[q] = group[q]
  BY <1>1, <1>2, <1>10
<1>15. ASSUME NEW g \in Pid
       PROVE  CountsOn(g)'
  <2>1. CASE g # p
    <3>1. kfds'[g] = kfds[g] /\ stop'[g] = stop[g] /\ group'[g] = group[g]
      BY <1>2, <1>7, <1>9, <1>10, <2>1
    <3>2. ASSUME NEW o \in Ofd, Holds(g, o)
          PROVE  Still(o)
      <4>1. PICK x \in Fd : kfds[g][x].ofd = o
        BY <3>2 DEF Holds
      <4>2. o # None
        BY AccountingAssumption, Zenon
      <4>3. ofds'[o] = descriptions[o]
        BY <1>9, <3>1, <4>1, <4>2
      <4>4. o \in dups => ofds[o].split
        <5> SUFFICES ASSUME o \in dups, ~ofds[o].split PROVE FALSE
          BY <1>8
        <5>1. PICK y \in Fd : table[y].ofd = o
          BY <1>6
        <5>2. kfds[p][y].ofd = o
          BY <1>5, <4>2, <5>1
        <5>3. Sole(o)
          BY <1>6, <4>2 DEF Sole
        <5> QED  BY <1>3, <2>1, <4>1, <5>2, <5>3 DEF OneOwner
      <4> QED  BY <1>2, <1>8, <4>3, <4>4 DEF Still
    <3>3. Waiting(g)
      BY <1>14 DEF Waiting, Calls
    <3>4. Live(g)' => Live(g)
      BY <1>1, <1>2, <1>10 DEF Live
    <3>5. CountsOn(g) /\ StandsOn(g)
      BY <1>3
    <3> QED  BY <1>2, <1>3, <1>13, <3>1, <3>2, <3>3, <3>4, <3>5, PassedCounts
  <2>2. CASE g = p
    <3>1. \A q \in Pid : group'[q] = p => stop'[q].event \in {"absent", "exec"}
      BY <1>1, <1>2, <1>10, <1>11
    <3>2. Calls(p)' = {} /\ ~Live(p)'
      BY <3>1 DEF Calls, Live
    <3>3. Live(p) /\ Calls(p) = {}
      BY <1>1, <1>11 DEF Live, Calls
    <3>4. p \in Registered /\ Table(p) \in SUBSET Entry
      BY <1>3, <3>3, ProgramsAre DEF ProgramsKnown
    <3>5. Quiet(ProcMap[p]) /\ ProcMap' = ProcMap
      <4>1. Waiting(p)
        BY <1>14 DEF Waiting, Calls
      <4> QED  BY <1>3, <1>11, <1>13, <3>4, <4>1, WaitingIsQuiet DEF contextVars
    <3>6. ASSUME NEW e \in Table(p), NEW a \in e.slots
          PROVE  MeasuresAt(p, e, a)'
      <4> SUFFICES ASSUME NEW t, t = ProcMap[p], NEW o, o = kfds'[p][a].ofd
                   PROVE  MeasuresAt(p, e, a)'
        OBVIOUS
      <4>1. Top(t, e)' = Top(t, e) /\ Writes(t, e)' = Writes(t, e)
        BY <3>5, TopStays DEF Quiet
      <4>2. kfds'[p][a].ofd = o /\ t = ProcMap[p] /\ ProcMap'[p] = t
        BY <3>5
      <4>3. ASSUME o # None
            PROVE  MeasuresUp(e.file, Top(t, e)', e.file.CurrPos + Writes(t, e)',
                              ofds'[o], size'[ofds'[o].name])
        <5>1. a \in Fd
          BY <3>4 DEF Entry
        <5>2. o = kfds[p][a].ofd /\ o \in Ofd /\ ofds'[o] = descriptions[o]
          <6>1. fds[p][a].ofd = o /\ fds[p][a] = table[a]
            BY <1>7, <1>9
          <6>2. o = kfds[p][a].ofd
            BY <1>5, <4>3, <5>1, <6>1
          <6>3. o \in Ofd
            BY <1>3, <4>3, <5>1, <6>2 DEF KernelTyped
          <6> QED  BY <1>9, <4>3, <5>1, <6>1, <6>2, <6>3
        <5>3. ofds[o].pos \in Int /\ size[ofds[o].name] \in Int
          BY <1>3, <4>3, <5>1, <5>2, LandsIn DEF TypedInv
        <5>4. ofds'[o].split => ofds[o].split \/ ofds[o].pos <= size[ofds[o].name]
          BY <1>8, <1>12, <5>2, <5>3
        <5>5. MeasuresUp(e.file, Top(t, e), e.file.CurrPos + Writes(t, e),
                         ofds'[o], size[ofds[o].name])
          <6>1. PICK x : x = ofds'[o]
            OBVIOUS
          <6>2. /\ x.write = ofds[o].write /\ x.name = ofds[o].name /\ x.append = ofds[o].append
                /\ x.pos = ofds[o].pos /\ (ofds[o].split => x.split)
                /\ x.split => ofds[o].split \/ ofds[o].pos <= size[ofds[o].name]
            BY <1>8, <5>2, <5>4, <6>1
          <6>3. MeasuresUp(e.file, Top(t, e), e.file.CurrPos + Writes(t, e), x, size[ofds[o].name])
            BY <3>3, <4>3, <5>2, <6>2, SplitAt
          <6> QED  BY <6>1, <6>3
        <5> QED  BY <1>2, <1>8, <4>1, <5>2, <5>5
      <4> QED  BY <4>2, <4>3, AtBecomes
    <3>7. \A e \in Table(p)' : \A a \in e.slots : MeasuresAt(p, e, a)'
      BY <1>10, <3>6
    <3>8. Measures(p, {})'
      BY <3>7 DEF Measures
    <3>9. \A fd \in Fd : Writable(p, fd)' => At(p, fd).name' \notin unlinked'
      <4> SUFFICES ASSUME NEW fd \in Fd, Writable(p, fd)' PROVE At(p, fd).name' \notin unlinked'
        OBVIOUS
      <4> DEFINE o == kfds'[p][fd].ofd
      <4>1. group'[p] = p /\ o # None /\ o \in Ofd /\ ofds'[o].write
        BY <1>2, <1>3, <1>11 DEF Writable, IsOpen, At, Descriptors, KernelTyped
      <4>2. o = kfds[p][fd].ofd /\ ofds'[o] = descriptions[o]
        <5>1. fds[p][fd].ofd = o /\ fds[p][fd] = table[fd]
          BY <1>7, <1>9
        <5>2. o = kfds[p][fd].ofd
          BY <1>5, <4>1, <5>1
        <5> QED  BY <1>9, <4>1, <5>1, <5>2
      <4>3. Writable(p, fd)
        BY <1>8, <1>11, <4>1, <4>2 DEF Writable, IsOpen, At, Descriptors
      <4>4. At(p, fd).name' = At(p, fd).name
        BY <1>8, <1>11, <4>1, <4>2 DEF At, Descriptors
      <4> QED  BY <1>2, <1>12, <4>3, <4>4
    <3> QED  BY <2>2, <3>2, <3>8, <3>9 DEF CountsOn
  <2> QED  BY <2>1, <2>2
<1>16. DescriptionsMeasure'
  <2>1. ASSUME NEW o \in Ofd
        PROVE  \/ ofds'[o] = Free
               \/ /\ ofds'[o].name = ofds[o].name /\ ofds'[o].write = ofds[o].write
                  /\ ofds'[o].followed = ofds[o].followed
                  /\ ofds'[o].init = ofds[o].init /\ ofds'[o].peak = ofds[o].peak
                  /\ quirks' = {} => ofds'[o].split = ofds[o].split
    BY <1>8, <1>9, <1>12
  <2> QED  BY <1>2, <1>3, <1>12, <2>1, NothingMeasured
<1>17. Written' = Written /\ grown' \in Nat
  <2>1. Measured(descriptions)
    BY <1>8, DescriptionsMeasured
  <2>2. grown' \in Nat
    BY <1>2, <1>3, <2>1, FreedAreHistory
  <2>3. WrittenInv /\ WrittenInv'
    BY <1>3, <1>16, <2>2, WrittenIs, WrittenIsNext
  <2>4. \A o \in Ofd : Growth(descriptions[o]) = Growth(ofds[o])
    BY <1>8 DEF Growth
  <2>5. Written' = Written
    BY <1>2, <2>1, <2>3, <2>4, WrittenStays
  <2> QED  BY <2>2, <2>5
<1> QED  BY <1>13, <1>14, <1>15, <1>16, <1>17, SilentCountsKeep

LEMMA KernelCountsKeep ==
  ASSUME Exact, TypedInv', LifeInv', OutputSize' \in Nat, grown' \in Nat, Ordinary',
         NEW p \in Pid, ProcessStep(p) \/ TakeSignal(p)
  PROVE  CountsKeep
<1>1. stop[p] = Running /\ UNCHANGED contextVars
  BY DEF ProcessStep, TakeSignal
<1>2. KernelTyped /\ HeldInv /\ ThreadInv /\ group[p] \in Pid
  <2>1. stop[p] # Absent
    BY <1>1, Events
  <2> QED  BY <2>1, ActorsAreThere DEF Exact, TypedInv, LifeInv
<1>3. CASE ProcessStep(p)
  <2>1. Runs(p)
    BY <1>1, <1>2 DEF Runs
  <2>2. \/ \E r : Called(p, r) /\ Taken(p, r)
        \/ \E name \in Name : Unlink(name)
        \/ \E child \in Pid : Fork(p, child)
        \/ \E thread \in Pid : Clone(p, thread)
        \/ Exec(p) \/ Exit(p) \/ ThreadExit(p)
    BY <1>2, <1>3, <2>1, CallsTake
  <2>3. CASE \E r : Called(p, r) /\ Taken(p, r)
    BY <2>3, CalledCountsKeep
  <2>4. CASE \E name \in Name : Unlink(name)
    BY <1>1, <2>4, UnlinkCountsKeep
  <2>5. CASE \E child \in Pid : Fork(p, child)
    BY <1>1, <2>5, ForkCountsKeep
  <2>6. CASE \E thread \in Pid : Clone(p, thread)
    BY <1>1, <2>6, CloneCountsKeep
  <2>7. CASE Exec(p)
    BY <1>1, <2>7, ExecCountsKeep
  <2>8. CASE Exit(p)
    BY <1>1, <2>8, ExitCountsKeep
  <2>9. CASE ThreadExit(p)
    BY <1>1, <2>9, ThreadExitCountsKeep
  <2> QED  BY <2>2, <2>3, <2>4, <2>5, <2>6, <2>7, <2>8, <2>9
<1>4. CASE TakeSignal(p)
  <2>1. ~("caught" \in quirks')
    BY DEF Ordinary
  <2>2. Exit(p)
    BY <1>4, <2>1 DEF TakeSignal
  <2> QED  BY <1>1, <2>2, ExitCountsKeep
<1> QED  BY <1>3, <1>4

------------------------------------------------------------------------------
(* The births, the programs and the ends of processes are handled *)

\* The calls that have been made are still to be handled.
CallsWait ==
  \A q \in Pid : stop[q].event = "syscall" \/ stop'[q].event = "syscall" =>
    stop'[q] = stop[q] /\ group'[q] = group[q] /\ ProcMap'[q] = ProcMap[q]

LEMMA WaitIsQuiet ==
  ASSUME CallsWait
  PROVE  /\ \A s : Quiet(s)
         /\ \A g : Calls(g)' = Calls(g) /\ \A q \in Calls(g) : stop'[q] = stop[q]
<1>1. \A s : Quiet(s)
  BY DEF CallsWait, Quiet
<1>2. ASSUME NEW g
      PROVE  Calls(g)' = Calls(g) /\ \A q \in Calls(g) : stop'[q] = stop[q]
  <2>1. \A q \in Pid : group'[q] = g /\ stop'[q].event = "syscall" <=>
                         group[q] = g /\ stop[q].event = "syscall"
    BY DEF CallsWait
  <2> QED  BY <2>1 DEF Calls, CallsWait
<1> QED  BY <1>1, <1>2

\* A process whose stop is not the one that is handled.
LEMMA BystanderCounts ==
  ASSUME TypedInv, LifeInv, UNCHANGED <<files, kfds, ofds>>, NEW g \in Pid,
         CountsOn(g), StandsOn(g), Calls(g)' = Calls(g), \A q \in Calls(g) : stop'[q] = stop[q],
         Quiet(ProcMap[g]), Live(g)' => Live(g),
         stop'[g].event \in {"fork", "exec"} => stop'[g] = stop[g] /\ group'[g] = group[g],
         Live(g)' \/ stop'[g].event = "exec" => Table(g)' = Table(g) /\ ProcMap'[g] = ProcMap[g]
  PROVE  CountsOn(g)'
<1>1. \A o \in Ofd : Still(o)
  BY DEF Still, files
<1>2. stop'[g].event \in {"fork", "exec"} =>
        stop[g].event = stop'[g].event /\ group[g] = g /\ group'[g] = g
  <2> SUFFICES ASSUME stop'[g].event \in {"fork", "exec"} PROVE group[g] = g
    OBVIOUS
  <2>1. stop[g] # Absent /\ stop[g].event \in {"fork", "exec"}
    BY Events
  <2>2. Members(g) = {g}
    BY <2>1, ActorsAreThere DEF GroupInv, TypedInv
  <2> QED  BY <2>1, <2>2, LonersAre DEF TypedInv
<1>3. Live(g)' \/ stop'[g].event = "exec" =>
        /\ Table(g)' = Table(g)
        /\ \A e \in Table(g) : \A a \in e.slots : MeasuresAt(g, e, a) => MeasuresAt(g, e, a)'
  <2> SUFFICES ASSUME Live(g)' \/ stop'[g].event = "exec"
               PROVE  /\ Table(g)' = Table(g)
                      /\ \A e \in Table(g) : \A a \in e.slots :
                           MeasuresAt(g, e, a) => MeasuresAt(g, e, a)'
    OBVIOUS
  <2>1. Live(g) \/ stop[g].event = "exec"
    OBVIOUS
  <2>2. Table(g) \in SUBSET Entry
    BY <2>1, ProgramsAre DEF ProgramsKnown
  <2>3. \A e \in Table(g) : \A a \in e.slots : a \in Fd
    BY <2>2 DEF Entry
  <2> QED  BY <1>1, <2>3, AllAtStay DEF TypedInv
<1>4. \A o \in Ofd : Holds(g, o) =>
        /\ ofds'[o].name = ofds[o].name /\ ofds'[o].write = ofds[o].write
        /\ ofds'[o].split = ofds[o].split
  OBVIOUS
<1>5. Undisturbed(g)
  BY <1>2, <1>3, <1>4 DEF Undisturbed, files
<1> QED  BY <1>5, UndisturbedCounts

\* A handler neither writes nor makes the report count more or less.
LEMMA HandlersCountKeep ==
  ASSUME Exact, TypedInv', LifeInv', OutputSize' \in Nat,
         UNCHANGED <<files, kfds, ofds, grown, quirks>>,
         \A g \in Pid : CountsOn(g)', Counted' = Counted
  PROVE  CountsKeep
<1>1. /\ TypedInv /\ KernelTyped /\ KernelTyped' /\ LifeInv /\ OutputSize \in Nat
      /\ DescriptionsMeasure /\ (\A g \in Pid : CountsOn(g)) /\ grown \in Nat
  BY DEF Exact, TypedInv
<1>2. size' = size /\ grown' = grown /\ ofds' = ofds /\ quirks' = quirks
  BY DEF files
<1>3. DescriptionsMeasure'
  BY <1>1, <1>2, NothingMeasured
<1>4. WrittenInv /\ WrittenInv'
  BY <1>1, <1>2, <1>3, WrittenIs, WrittenIsNext
<1>5. Written' = Written
  BY <1>2, <1>4, NothingWritten
<1>6. Written \in Int /\ Counted \in Int
  <2>1. CallsReach
    BY <1>1, ReachIs
  <2>2. StockInv
    BY <1>1, <2>1, StockIs
  <2> QED  BY <1>4, <2>2 DEF WrittenInv, StockInv
<1>7. Counted' + Written <= Counted + Written' /\ Counted' + Written = Counted + Written'
  BY <1>5, <1>6
<1> QED  BY <1>3, <1>7 DEF CountsKeep

\* The tables of R are left alone, those of X make place for those of Y.
LEMMA CountedHandled ==
  ASSUME TypedInv, TypedInv', CallsReach, CallsReach', OutputSize \in Nat, OutputSize' \in Nat,
         NEW R, NEW X, NEW Y, Allocated = R \cup X, R \cap X = {},
         Allocated' = R \cup Y, R \cap Y = {},
         \A s \in R : Fds'[s] = Fds[s] /\ Quiet(s),
         OutputSize' + SumOf(Stock', Y) = OutputSize + SumOf(Stock, X)
  PROVE  Counted' = Counted
<1>1. StockInv /\ StockInv'
  BY StockIs, StockIsNext
<1>2. \A s \in R : Due(s, Fds[s])' = Due(s, Fds[s])
  BY DueStays DEF Quiet
<1>3. /\ Counted' + (OutputSize + SumOf(Stock, X)) = Counted + (OutputSize' + SumOf(Stock', Y))
      /\ SumOf(Stock, X) \in Nat /\ SumOf(Stock', Y) \in Nat
      /\ Counted \in Int /\ Counted' \in Int
  BY <1>1, <1>2, CountedTurns
<1> DEFINE x == OutputSize + SumOf(Stock, X)
<1>4. x \in Int /\ Counted' + x = Counted + x
  BY <1>3
<1> HIDE DEF x
<1> QED  BY <1>3, <1>4

LEMMA HandleCloneCountsKeep ==
  ASSUME Exact, TypedInv', LifeInv', OutputSize' \in Nat, NEW p \in Pid, HandleClone(p),
         UNCHANGED <<files, use, kfds, ofds, grown, quirks>>
  PROVE  CountsKeep
<1>0. /\ TypedInv /\ KernelTyped /\ KernelTyped' /\ LifeInv /\ OutputSize \in Nat
      /\ \A g \in Pid : CountsOn(g) /\ StandsOn(g)
  BY DEF Exact, TypedInv
<1>1. /\ stop[p].event = "clone" /\ RegisterThread(p, stop[p].child)
      /\ stop' = [stop EXCEPT ![p] = Running, ![stop[p].child] = Running]
      /\ group' = group
  BY DEF HandleClone
<1>2. Running.event = "running" /\ Absent.event = "absent" /\ stop[p] # Absent /\ stop[p].event # "born"
  BY <1>1, Events
<1>3. GroupInv /\ BirthInv /\ KnownInv /\ group[p] \in Pid /\ group[group[p]] = group[p]
  BY <1>0, <1>2, ActorsAreThere
<1>4. PICK c \in Pid : c = stop[p].child /\ stop[c].event = "born" /\ group[c] = group[p]
  BY <1>1, <1>3 DEF BirthInv
<1>5. c # p /\ c # group[p]
  <2>1. c # p
    BY <1>1, <1>4
  <2>2. stop[group[p]].event = "born" => group[p] = p
    BY <1>2, <1>3 DEF GroupInv
  <2> QED  BY <1>1, <1>4, <2>1, <2>2
<1>6. /\ \A q \in Pid : stop'[q] = IF q \in {p, c} THEN Running ELSE stop[q]
      /\ \A q \in Pid : ProcMap'[q] = IF q = c THEN ProcMap[p] ELSE ProcMap[q]
      /\ Fds' = Fds /\ OutputSize' = OutputSize
  BY <1>0, <1>1, <1>4 DEF LifeInv, ThreadInv, TypedInv, ContextTyped, RegisterThread
<1>7. CallsWait
  BY <1>1, <1>2, <1>4, <1>6 DEF CallsWait
<1>8. ASSUME NEW g \in Pid
      PROVE  CountsOn(g)'
  <2>1. Live(g)' => Live(g)
    BY <1>1, <1>3, <1>4, <1>6 DEF Live
  <2>2. stop'[g].event \in {"fork", "exec"} => stop'[g] = stop[g] /\ group'[g] = group[g] /\ g # c
    BY <1>1, <1>2, <1>6
  <2>3. Live(g)' => g # c
    BY <1>1, <1>3, <1>4, <1>5 DEF Live
  <2>4. g # c => Table(g)' = Table(g) /\ ProcMap'[g] = ProcMap[g]
    BY <1>6 DEF Table
  <2>5. UNCHANGED <<files, kfds, ofds>>
    OBVIOUS
  <2>6. CountsOn(g) /\ StandsOn(g)
    BY <1>0
  <2> QED  BY <1>0, <1>7, <2>1, <2>2, <2>3, <2>4, <2>5, <2>6, WaitIsQuiet, BystanderCounts
<1>9. CallsReach /\ CallsReach'
  BY <1>0, <1>8, ReachIs, ReachIsNext
<1>10. Counted' = Counted
  <2> DEFINE R == Allocated
             none == {}
  <2>1. Allocated' = R
    <3>1. p \in Registered /\ c \notin Registered
      <4>1. stop[c].event = "born"
        BY <1>4
      <4> QED  BY <1>1, <1>2, <1>3, <4>1 DEF KnownInv, Registered
    <3>2. \A q \in Registered : ProcMap'[q] = ProcMap[q] /\ q # c
      BY <1>6, <3>1 DEF Registered
    <3>3. \A q : q \in Registered' <=> q \in Registered \/ q = c
      BY <1>4, <1>6, <3>1 DEF Registered
    <3>4. ProcMap'[c] = ProcMap[p]
      BY <1>6
    <3> QED  BY <3>1, <3>2, <3>3, <3>4 DEF Allocated
  <2>2. Allocated = R \cup none /\ R \cap none = {} /\ Allocated' = R \cup none
    BY <2>1
  <2>3. SumOf(Stock, none) = 0 /\ SumOf(Stock', none) = 0
    BY SumOfNone
  <2>4. \A s : Fds'[s] = Fds[s] /\ Quiet(s)
    BY <1>6, <1>7, WaitIsQuiet
  <2> HIDE DEF R, none
  <2>5. OutputSize' + SumOf(Stock', none) = OutputSize + SumOf(Stock, none)
    BY <1>6, <2>3
  <2>6. TypedInv' /\ OutputSize' \in Nat /\ OutputSize \in Nat
    BY <1>0
  <2> QED  BY <1>0, <1>9, <2>2, <2>4, <2>5, <2>6, CountedHandled
<1>11. UNCHANGED <<files, kfds, ofds, grown, quirks>>
  OBVIOUS
<1> QED  BY <1>8, <1>10, <1>11, HandlersCountKeep

------------------------------------------------------------------------------
(* The tables no call is under way on *)

\* What an entry no call is under way on has reached.
RestInv ==
  \A s : \A e \in Entry : Via(s, e.slots, {"write"} \cup Naming) = {} =>
    /\ Writes(s, e) = 0 /\ Top(s, e) = Longer(e.file.InitSize, e.file.MaxPos)
    /\ Top(s, e) - e.file.InitSize = GetOutputSize(e.file)

LEMMA RestIs == RestInv
<1> SUFFICES ASSUME NEW s, NEW e \in Entry, Via(s, e.slots, {"write"} \cup Naming) = {}
             PROVE  /\ Writes(s, e) = 0 /\ Top(s, e) = Longer(e.file.InitSize, e.file.MaxPos)
                    /\ Top(s, e) - e.file.InitSize = GetOutputSize(e.file)
  BY DEF RestInv
<1>1. /\ Via(s, e.slots, {"write"}) = {}
      /\ Via(s, e.slots, {"pwrite64", "ftruncate", "fallocate"}) = {}
  BY DEF Via, Naming
<1>2. Writes(s, e) = 0 /\ Ends(s, e.slots) = {}
  BY <1>1, FS_EmptySet DEF Writes, Ends
<1>3. Top(s, e) = Max(Reached(e.file, 0, {}))
  BY <1>2 DEF Top
<1>4. e.file \in TFileState
  BY DEF Entry
<1>5. Max(Reached(e.file, 0, {})) - e.file.InitSize = GetOutputSize(e.file)
  BY <1>4, NothingToCome
<1>6. Counting(e.file, 0, {})
  BY <1>4, FS_EmptySet DEF Counting
<1>7. Max(Reached(e.file, 0, {})) \in Nat /\ e.file.InitSize \in Nat /\ e.file.MaxPos \in Nat
  BY <1>6, ReachedIs
<1> DEFINE m == Max(Reached(e.file, 0, {}))
<1>8. m \in Nat /\ m - e.file.InitSize = GetOutputSize(e.file) /\ Top(s, e) = m
  BY <1>3, <1>5, <1>7
<1> HIDE DEF m
<1>9. m = Longer(e.file.InitSize, e.file.MaxPos)
  BY <1>7, <1>8 DEF GetOutputSize, Longer
<1> QED  BY <1>2, <1>8, <1>9

LEMMA RestIsNext == RestInv'
BY RestIs, PTL

\* No call of a thread with that table is under way.
Idle(s) == \A q \in Pid : ~(stop[q].event = "syscall" /\ ProcMap[q] = s)

IdleInv ==
  \A s : \A table \in SUBSET Entry : Slotted(table) /\ Idle(s) =>
    Due(s, table) = OutputOf(table)

LEMMA IdleIs == CallsReach => IdleInv
<1> SUFFICES ASSUME CallsReach, NEW s, NEW table \in SUBSET Entry, Slotted(table), Idle(s)
             PROVE  Due(s, table) = OutputOf(table)
  BY DEF IdleInv
<1>1. \A slots, nrs : Via(s, slots, nrs) = {}
  BY DEF Via, Idle
<1>2. /\ Summable(Dues(s, table), table) /\ Due(s, table) = SumOf(Dues(s, table), table)
      /\ \A e \in table : Dues(s, table)[e] = Top(s, e) - e.file.InitSize
  BY DueIs
<1>3. \A e \in table : Outputs(table)[e] = Dues(s, table)[e]
  BY <1>1, <1>2, RestIs DEF RestInv, Outputs
<1>4. SumOf(Outputs(table), table) = SumOf(Dues(s, table), table)
  BY <1>2, <1>3, SumSame
<1>5. OutputOf(table) = SumOf(Outputs(table), table)
  BY OutputIsSum
<1> QED  BY <1>2, <1>4, <1>5

LEMMA IdleIsNext ==
  ASSUME CallsReach'
  PROVE  IdleInv'
BY IdleIs, PTL

LEMMA AtStarts ==
  ASSUME NEW g, NEW e, NEW a, NEW s, ProcMap'[g] = s, NEW o, kfds'[g][a].ofd = o,
         o # None => MeasuresUp(e.file, Top(s, e)', e.file.CurrPos + Writes(s, e)',
                                ofds'[o], size'[ofds'[o].name])
  PROVE  MeasuresAt(g, e, a)'
<1> DEFINE t == Top(s, e)'
           n == Writes(s, e)'
<1>1. Top(ProcMap[g], e)' = t /\ Writes(ProcMap[g], e)' = n
  OBVIOUS
<1>2. o # None => MeasuresUp(e.file, t, e.file.CurrPos + n, ofds'[o], size'[ofds'[o].name])
  OBVIOUS
<1> HIDE DEF t, n
<1>3. (kfds[g][a].ofd # None =>
         MeasuresUp(e.file, Top(ProcMap[g], e), e.file.CurrPos + Writes(ProcMap[g], e),
                    ofds[kfds[g][a].ofd], size[ofds[kfds[g][a].ofd].name]))'
  BY <1>1, <1>2
<1> QED  BY <1>3 DEF MeasuresAt

\* A file state that is copied counts from the end of the file on.
LEMMA CopyMeasures ==
  ASSUME Exact, NEW p \in Pid, stop[p].event \in {"fork", "exec"}, group[p] = p,
         Table(p) \in SUBSET Entry, NEW e \in Table(p), NEW fd \in e.slots,
         NEW o, o = kfds[p][fd].ofd, o # None, MeasuresAt(p, e, fd), Idle(ProcMap[p]),
         NEW end, end = length[e.file.Filename]
  PROVE  /\ end \in Size /\ e.file.MaxPos <= end /\ e.file.MaxPos \in Nat
         /\ MeasuresUp(CopyFileState(e.file, end), end, e.file.CurrPos, ofds[o], size[ofds[o].name])
<1>1. /\ TypedInv /\ KernelTyped /\ HeldInv /\ CountsOn(p) /\ LengthsAgree
      /\ (\A g \in Pid : CountsOn(g)) /\ LifeInv
  BY DEF Exact, TypedInv
<1>2. CallsReach
  BY <1>1, ReachIs
<1>3. e \in Entry /\ fd \in Fd /\ e.file \in TFileState /\ e.file.Filename \in Name
  BY DEF Entry, TFileState
<1>4. end \in 0 .. MaxLength /\ end \in Size
  BY <1>1, <1>3, LengthsAreSizes DEF KernelTyped
<1>5. /\ o \in Ofd /\ ofds[o] \in Description /\ ofds[o].name \in Name
      /\ size[ofds[o].name] \in Nat /\ ofds[o].pos \in Nat
  BY <1>1, <1>3, LandsIn
<1> DEFINE s == ProcMap[p]
           t == Top(s, e)
           c == e.file.CurrPos
<1>6. /\ t \in Nat /\ e.file.MaxPos \in Nat /\ c \in Nat /\ t >= e.file.MaxPos
  BY <1>2, <1>3, TopIs
<1>7. Writes(s, e) = 0
  <2>1. Via(s, e.slots, {"write"} \cup Naming) = {}
    BY DEF Via, Idle
  <2> QED  BY <1>3, <2>1, RestIs DEF RestInv
<1>8. MeasuresUp(e.file, t, c, ofds[o], size[ofds[o].name])
  <2>1. MeasuresUp(e.file, t, c + Writes(s, e), ofds[o], size[ofds[o].name])
    BY DEF MeasuresAt
  <2> QED  BY <1>6, <1>7, <2>1
<1>9. ofds[o].write => e.file.Filename = ofds[o].name /\ end = size[ofds[o].name]
  <2> SUFFICES ASSUME ofds[o].write
               PROVE  e.file.Filename = ofds[o].name /\ end = size[ofds[o].name]
    OBVIOUS
  <2>1. e.file.Filename = ofds[o].name
    BY <1>8 DEF MeasuresUp
  <2>2. Writable(p, fd) /\ At(p, fd) = ofds[o]
    BY DEF Writable, IsOpen, At, Descriptors
  <2>3. ofds[o].name \notin unlinked
    BY <1>1, <1>3, <2>2 DEF CountsOn
  <2> QED  BY <1>1, <1>5, <2>1, <2>3 DEF LengthsAgree
<1>10. /\ CopyFileState(e.file, end).MaxPos = e.file.MaxPos
       /\ CopyFileState(e.file, end).Filename = e.file.Filename
  BY <1>3 DEF CopyFileState, TFileState
<1>11. end \in Nat /\ e.file.MaxPos <= end
  <2>1. end \in Nat
    BY <1>4, LengthsAreSizes
  <2> HIDE DEF t, c
  <2>2. PICK d : d = ofds[o]
    OBVIOUS
  <2>3. PICK z \in Nat : z = size[ofds[o].name]
    BY <1>5
  <2>4. MeasuresUp(e.file, t, c, d, z) /\ (d.write => end = z) /\ d.pos \in Nat
    BY <1>5, <1>8, <1>9, <2>2, <2>3
  <2>5. CASE ~d.write
    <3>1. e.file.MaxPos = 0
      BY <2>4, <2>5 DEF MeasuresUp
    <3> QED  BY <2>1, <3>1
  <2>6. CASE d.write
    <3>1. t <= z
      BY <1>6, <2>4, <2>6 DEF MeasuresUp
    <3> QED  BY <1>6, <2>1, <2>4, <2>6, <3>1
  <2> QED  BY <2>5, <2>6
<1> DEFINE z == size[ofds[o].name]
<1>12. MeasuresUp(CopyFileState(e.file, end), end, c, ofds[o], z)
  <2> HIDE DEF t, c
  <2>1. CASE ~ofds[o].write
    BY <1>8, <1>10, <2>1 DEF MeasuresUp
  <2>2. CASE ofds[o].write
    <3>1. end = z /\ end \in Nat /\ ofds[o].pos \in Nat /\ t \in Nat /\ c \in Nat
      BY <1>5, <1>6, <1>9, <1>11, <2>2
    <3> HIDE DEF z
    <3>2. ofds[o].split => c <= t /\ t <= z /\ c <= (IF ofds[o].append THEN z ELSE ofds[o].pos)
      BY <1>8, <2>2 DEF MeasuresUp, z
    <3>3. z <= Longer(z, IF ofds[o].append THEN z ELSE ofds[o].pos)
      BY <3>1 DEF Longer
    <3>4. e.file.Filename = ofds[o].name
      BY <1>9, <2>2
    <3>5. ofds[o].split => c <= z /\ z <= z
      BY <3>1, <3>2
    <3> QED  BY <1>10, <2>2, <3>1, <3>2, <3>3, <3>4, <3>5 DEF MeasuresUp
  <2> QED  BY <2>1, <2>2
<1> QED  BY <1>4, <1>6, <1>11, <1>12

\* What a process begins with that has been given copies of file states.
LEMMA CopiesMeasure ==
  ASSUME Exact, TypedInv', CallsReach', UNCHANGED <<files, kfds, ofds>>,
         NEW p \in Pid, stop[p].event \in {"fork", "exec"}, group[p] = p,
         Table(p) \in SUBSET Entry, Slotted(Table(p)), Idle(ProcMap[p]),
         NEW kept \in SUBSET OpenSlots(Table(p)), \A fd \in kept : kfds[p][fd].ofd # None,
         \A e \in Table(p) : \A fd \in e.slots : MeasuresAt(p, e, fd),
         NEW g \in Pid, kfds[g] = kfds[p], NEW new \in ProcState, ProcMap'[g] = new,
         Fds'[new] = Copied(Table(p), kept), Idle(new)'
  PROVE  Due(new, Fds[new])' = 0 /\ Measures(g, {})'
<1> SUFFICES ASSUME NEW T, T = Copied(Table(p), kept)
             PROVE  Due(new, Fds[new])' = 0 /\ Measures(g, {})'
  OBVIOUS
<1>1. T \in SUBSET Entry /\ Slotted(T) /\ Fds'[new] = T
  BY CopiedSlots DEF TypedInv, ContextTyped
<1>2. ASSUME NEW f \in T
      PROVE  \E a \in kept : \E e \in Table(p) : \E o :
               /\ f.slots = {a} /\ a \in e.slots /\ o = kfds[p][a].ofd /\ o # None
               /\ f.file.InitSize \in Nat /\ f.file.CurrPos \in Nat
               /\ f.file.MaxPos \in Nat /\ f.file.MaxPos <= f.file.InitSize
               /\ MeasuresUp(f.file, f.file.InitSize, f.file.CurrPos, ofds[o], size[ofds[o].name])
  <2>1. PICK a \in kept : /\ f.slots = {a}
                          /\ f.file = CopyFileState(FileAt(Table(p), a),
                                                    length[FileAt(Table(p), a).Filename])
    BY CopiedSlots
  <2>2. PICK e \in Table(p) : a \in e.slots
    BY DEF OpenSlots
  <2>3. FileAt(Table(p), a) = e.file
    BY <2>2, FileAtIs
  <2> DEFINE end == length[e.file.Filename]
  <2>4. f.file = CopyFileState(e.file, end)
    BY <2>1, <2>3
  <2>5. PICK o : o = kfds[p][a].ofd /\ o # None
    BY <2>1
  <2>6. MeasuresAt(p, e, a)
    BY <2>2
  <2>7. /\ end \in Size /\ e.file.MaxPos <= end /\ e.file.MaxPos \in Nat
        /\ MeasuresUp(CopyFileState(e.file, end), end, e.file.CurrPos, ofds[o], size[ofds[o].name])
    BY <2>2, <2>5, <2>6, CopyMeasures
  <2> HIDE DEF end
  <2>8. e.file \in TFileState /\ e.file.CurrPos \in Nat
    <3>1. e.file \in TFileState
      BY DEF Entry
    <3> QED  BY <3>1, SizeModulusAssumption DEF TFileState, Size
  <2>9. f.file.InitSize = end /\ f.file.CurrPos = e.file.CurrPos /\ f.file.MaxPos = e.file.MaxPos
    BY <2>4, <2>8 DEF CopyFileState, TFileState
  <2>10. end \in Nat
    BY <2>7, SizeModulusAssumption DEF Size
  <2>11. MeasuresUp(f.file, f.file.InitSize, f.file.CurrPos, ofds[o], size[ofds[o].name])
    BY <2>4, <2>7, <2>9
  <2> QED  BY <2>1, <2>2, <2>5, <2>7, <2>8, <2>9, <2>10, <2>11
<1>3. Due(new, T)' = 0
  <2>1. IdleInv'
    BY IdleIsNext
  <2>2. Due(new, T)' = OutputOf(T)
    BY <1>1, <2>1 DEF IdleInv
  <2>3. \A f \in T : Outputs(T)[f] = 0
    BY <1>2 DEF Outputs, GetOutputSize
  <2>4. IsFiniteSet(T)
    BY <1>1, TablesAreFinite
  <2>5. SumOf(Outputs(T), T) = 0
    BY <2>3, <2>4, SumZeros
  <2>6. OutputOf(T) = SumOf(Outputs(T), T)
    BY <1>1, OutputIsSum
  <2> QED  BY <2>2, <2>5, <2>6
<1>4. Due(new, Fds[new])' = Due(new, T)'
  BY <1>1
<1>5. ASSUME NEW f \in T, NEW a \in f.slots
      PROVE  MeasuresAt(g, f, a)'
  <2>1. PICK o : /\ o = kfds[p][a].ofd /\ o # None
                 /\ f.file.InitSize \in Nat /\ f.file.CurrPos \in Nat
                 /\ f.file.MaxPos \in Nat /\ f.file.MaxPos <= f.file.InitSize
                 /\ MeasuresUp(f.file, f.file.InitSize, f.file.CurrPos, ofds[o], size[ofds[o].name])
    BY <1>2, <1>5
  <2>2. RestInv' /\ f \in Entry
    BY <1>1, RestIsNext
  <2>3. Via(new, f.slots, {"write"} \cup Naming)' = {}
    BY DEF Via, Idle
  <2>4. Writes(new, f)' = 0 /\ Top(new, f)' = Longer(f.file.InitSize, f.file.MaxPos)
    BY <2>2, <2>3 DEF RestInv
  <2>5. Top(new, f)' = f.file.InitSize
    BY <2>1, <2>4 DEF Longer
  <2>6. f.file.CurrPos + Writes(new, f)' = f.file.CurrPos
    BY <2>1, <2>4
  <2>7. kfds'[g][a].ofd = o /\ ofds'[o] = ofds[o] /\ size' = size
    BY <2>1 DEF files
  <2>8. MeasuresUp(f.file, Top(new, f)', f.file.CurrPos + Writes(new, f)',
                   ofds'[o], size'[ofds'[o].name])
    BY <2>1, <2>5, <2>6, <2>7
  <2> QED  BY <2>7, <2>8, AtStarts
<1>6. Table(g)' = T
  BY <1>1 DEF Table
<1>7. Measures(g, {})'
  <2>1. (\A e \in Table(g) : \A a \in e.slots \ {} : MeasuresAt(g, e, a))'
    BY <1>5, <1>6
  <2> QED  BY <2>1 DEF Measures
<1> QED  BY <1>3, <1>4, <1>7

------------------------------------------------------------------------------
(* The ends, births and programs are handled *)

\* The table of a process nobody else has, when no call on it is under way, is
\* worth what is recorded of it.
LEMMA LonerDue ==
  ASSUME TypedInv, CallsReach, OutputSize \in Nat, NEW p \in Registered, Idle(ProcMap[p]),
         NEW s, s = ProcMap[p]
  PROVE  SumOf(Stock, {s}) = OutputOf(Table(p)) /\ OutputOf(Table(p)) \in Nat
<1>1. p \in Pid /\ s \in ProcState
  BY DEF Registered, TypedInv, ContextTyped
<1>2. Fds[s] \in SUBSET Entry /\ Slotted(Fds[s]) /\ Table(p) = Fds[s]
  BY <1>1 DEF TypedInv, ContextTyped, SlottedInv, Table
<1>3. IdleInv /\ StockInv
  BY IdleIs, StockIs
<1>4. Due(s, Fds[s]) = OutputOf(Fds[s])
  BY <1>2, <1>3 DEF IdleInv
<1>5. Stock[s] = Due(s, Fds[s]) /\ Due(s, Fds[s]) \in Nat
  BY <1>1, <1>3 DEF StockInv
<1>6. SumOf(Stock, {s}) = Stock[s]
  BY <1>5, SumOfOne
<1> QED  BY <1>2, <1>4, <1>5, <1>6

LEMMA HandleExitCountsKeep ==
  ASSUME Exact, TypedInv', LifeInv', OutputSize' \in Nat, NEW p \in Pid, HandleExit(p),
         UNCHANGED <<files, use, kfds, ofds, grown, quirks>>
  PROVE  CountsKeep
<1>0. /\ TypedInv /\ KernelTyped /\ KernelTyped' /\ LifeInv /\ OutputSize \in Nat
      /\ (\A g \in Pid : CountsOn(g) /\ StandsOn(g))
  BY DEF Exact, TypedInv
<1>1. /\ stop[p].event = "exit" /\ VanishProcess(p, OutputSize)
      /\ group[p] = p => Members(p) = {p}
      /\ stop' = [stop EXCEPT ![p] = Absent] /\ group' = [group EXCEPT ![p] = None]
  BY DEF HandleExit
<1>2. Absent.event = "absent" /\ stop[p] # Absent /\ stop[p].event # "born"
  BY <1>1, Events
<1>3. KnownInv /\ GroupInv /\ group[p] \in Pid /\ group[group[p]] = group[p]
  BY <1>0, <1>2, ActorsAreThere
<1>4. /\ p \in Registered /\ group[p] \in Registered /\ ProcMap[group[p]] = ProcMap[p]
      /\ \A q \in Registered : ProcMap[q] = ProcMap[p] <=> group[q] = group[p]
  BY <1>0, <1>2, LeadersAreKnown
<1>5. /\ ProcMap' = [ProcMap EXCEPT ![p] = None] /\ Fds' = TornDown(p)
      /\ OutputSize' = OutputSize + RecordedBy(p)
  BY <1>1 DEF VanishProcess
<1>6. /\ \A q \in Pid : stop'[q] = IF q = p THEN Absent ELSE stop[q]
      /\ \A q \in Pid : group'[q] = IF q = p THEN None ELSE group[q]
      /\ \A q \in Pid : ProcMap'[q] = IF q = p THEN None ELSE ProcMap[q]
  BY <1>0, <1>1, <1>5 DEF LifeInv, ThreadInv, TypedInv, ContextTyped, KernelTyped
<1>7. CallsWait
  BY <1>1, <1>2, <1>6 DEF CallsWait
<1>8. p \in GroupLeaders <=> group[p] = p
  BY <1>3, <1>4 DEF KnownInv
<1>9. \A q \in Registered : q \in Pid /\ stop[q] # Absent
  BY <1>2, <1>3 DEF KnownInv, Registered
<1>10. group[p] = p => \A q \in Registered : ProcMap[q] = ProcMap[p] => q = p
  BY <1>1, <1>4, <1>9 DEF Members
<1>11. group[p] # p => Fds' = Fds
  <2> SUFFICES ASSUME group[p] # p PROVE Fds' = Fds
    OBVIOUS
  <2>1. p \notin GroupLeaders /\ group[p] \in Pid \ {p} /\ ProcMap[group[p]] = ProcMap[p]
    BY <1>3, <1>4, <1>8
  <2> QED  BY <1>5, <2>1 DEF TornDown
<1>12. \A s \in ProcState : s # ProcMap[p] => Fds'[s] = Fds[s]
  BY <1>0, <1>4, <1>5, TornDownIs DEF TypedInv
<1>13. ASSUME NEW q \in Registered, q # p
       PROVE  Table(q)' = Table(q)
  <2>1. ProcMap[q] \in ProcState /\ ProcMap'[q] = ProcMap[q]
    BY <1>0, <1>6, <1>9, <1>13, TableOfRegistered DEF TypedInv
  <2> QED  BY <1>10, <1>11, <1>12, <1>13, <2>1 DEF Table
<1>14. ASSUME NEW g \in Pid
       PROVE  CountsOn(g)'
  <2>1. Live(g)' => Live(g) /\ g # p
    BY <1>2, <1>6, IdsAssumption DEF Live
  <2>2. stop'[g].event \in {"fork", "exec"} => stop'[g] = stop[g] /\ group'[g] = group[g] /\ g # p
    BY <1>2, <1>6
  <2>3. Live(g) => g \in Registered
    BY <1>0, LiveAreKnown
  <2>4. stop[g].event = "exec" => g \in Registered
    BY <1>3 DEF KnownInv, Registered
  <2>5. Live(g)' \/ stop'[g].event = "exec" => Table(g)' = Table(g) /\ ProcMap'[g] = ProcMap[g]
    BY <1>6, <1>13, <2>1, <2>2, <2>3, <2>4
  <2>6. UNCHANGED <<files, kfds, ofds>>
    OBVIOUS
  <2>7. CountsOn(g) /\ StandsOn(g)
    BY <1>0
  <2>8. Live(g)' => Live(g)
    BY <2>1
  <2>9. stop'[g].event \in {"fork", "exec"} => stop'[g] = stop[g] /\ group'[g] = group[g]
    BY <2>2
  <2> QED  BY <1>0, <1>7, <2>5, <2>6, <2>7, <2>8, <2>9, WaitIsQuiet, BystanderCounts
<1>15. CallsReach /\ CallsReach'
  BY <1>0, <1>14, ReachIs, ReachIsNext
<1>16. StockInv /\ TypedInv' /\ OutputSize' \in Nat
  BY <1>0, <1>15, StockIs
<1>17. \A q : q \in Registered' <=> q \in Registered /\ q # p
  BY <1>6, <1>9 DEF Registered
<1>18. \A q \in Registered : q # p => ProcMap'[q] = ProcMap[q]
  BY <1>6, <1>9
<1> DEFINE none == {}
<1>19. SumOf(Stock, none) = 0 /\ SumOf(Stock', none) = 0
  BY SumOfNone
<1>20. CASE group[p] = p
  <2>1. PICK s \in ProcState : s = ProcMap[p]
    BY <1>0, <1>4, TableOfRegistered DEF TypedInv
  <2> DEFINE X == {s}
             R == Allocated \ {s}
  <2>2. Allocated = R \cup X /\ R \cap X = {}
    BY <1>4, <2>1 DEF Allocated
  <2>3. Allocated' = R \cup none /\ R \cap none = {}
    <3>1. \A x : x \in Allocated' <=> \E q \in Registered : q # p /\ x = ProcMap[q]
      BY <1>17, <1>18 DEF Allocated
    <3>2. \A x : x \in R <=> \E q \in Registered : x # s /\ x = ProcMap[q]
      BY DEF Allocated
    <3>3. \A q \in Registered : q # p <=> ProcMap[q] # s
      BY <1>4, <1>10, <1>20, <2>1
    <3> QED  BY <3>1, <3>2, <3>3
  <2>4. \A x \in R : Fds'[x] = Fds[x] /\ Quiet(x)
    <3>1. \A x \in R : x \in ProcState /\ x # ProcMap[p]
      BY <1>16, <2>1 DEF StockInv
    <3> QED  BY <1>7, <1>12, <3>1, WaitIsQuiet
  <2>5. Idle(ProcMap[p])
    <3>1. \A q \in Pid : ProcMap[q] = ProcMap[p] => q \in Registered
      BY <2>1, ContextAssumption DEF Registered
    <3> QED  BY <1>1, <1>10, <1>20, <3>1 DEF Idle
  <2>6. SumOf(Stock, X) = OutputOf(Table(p)) /\ OutputOf(Table(p)) \in Nat
    BY <1>0, <1>4, <1>15, <2>1, <2>5, LonerDue
  <2>7. RecordedBy(p) = OutputOf(Table(p))
    BY <1>8, <1>20 DEF RecordedBy
  <2> HIDE DEF R, X, none
  <2>8. OutputSize' + SumOf(Stock', none) = OutputSize + SumOf(Stock, X)
    BY <1>0, <1>5, <1>19, <2>6, <2>7
  <2>9. Counted' = Counted
    BY <1>0, <1>15, <1>16, <2>2, <2>3, <2>4, <2>8, CountedHandled
  <2>10. UNCHANGED <<files, kfds, ofds, grown, quirks>>
    OBVIOUS
  <2> QED  BY <1>14, <2>9, <2>10, HandlersCountKeep
<1>21. CASE group[p] # p
  <2> DEFINE R == Allocated
  <2>1. Allocated = R \cup none /\ R \cap none = {}
    OBVIOUS
  <2>2. Allocated' = R \cup none
    <3>1. \A x : x \in Allocated' <=> \E q \in Registered : q # p /\ x = ProcMap[q]
      BY <1>17, <1>18 DEF Allocated
    <3>2. \A x : x \in Allocated <=> \E q \in Registered : x = ProcMap[q]
      BY DEF Allocated
    <3>3. group[p] \in Registered /\ group[p] # p /\ ProcMap[group[p]] = ProcMap[p]
      BY <1>4, <1>21
    <3>4. \A x : x \in Allocated' <=> x \in Allocated
      BY <3>1, <3>2, <3>3
    <3> QED  BY <3>4
  <2>3. \A x \in R : Fds'[x] = Fds[x] /\ Quiet(x)
    BY <1>7, <1>11, <1>21, WaitIsQuiet
  <2>4. RecordedBy(p) = 0
    BY <1>8, <1>21 DEF RecordedBy
  <2> HIDE DEF R, none
  <2>5. OutputSize' + SumOf(Stock', none) = OutputSize + SumOf(Stock, none)
    BY <1>0, <1>5, <1>19, <2>4
  <2>6. Counted' = Counted
    BY <1>0, <1>15, <1>16, <2>1, <2>2, <2>3, <2>5, CountedHandled
  <2>7. UNCHANGED <<files, kfds, ofds, grown, quirks>>
    OBVIOUS
  <2> QED  BY <1>14, <2>6, <2>7, HandlersCountKeep
<1> QED  BY <1>20, <1>21

LEMMA HandleForkCountsKeep ==
  ASSUME Exact, TypedInv', LifeInv', OutputSize' \in Nat, NEW p \in Pid, HandleFork(p),
         UNCHANGED <<files, use, kfds, ofds, grown, quirks>>
  PROVE  CountsKeep
<1> DEFINE child == stop[p].child
<1>0. /\ TypedInv /\ KernelTyped /\ KernelTyped' /\ LifeInv /\ OutputSize \in Nat /\ AgreeInv
      /\ (\A g \in Pid : CountsOn(g) /\ StandsOn(g))
  BY DEF Exact, TypedInv
<1>1. /\ stop[p].event = "fork" /\ RegisterProcess(p, child)
      /\ stop' = [stop EXCEPT ![p] = Running, ![child] = Running]
      /\ group' = group
  BY DEF HandleFork
<1>2. Running.event = "running" /\ Absent.event = "absent" /\ stop[p] # Absent
  BY <1>1, Events
<1>3. /\ group[p] = p /\ child \in Pid /\ child # p
      /\ group[child] = child /\ stop[child].event = "born"
      /\ \A q \in Pid : stop[q] # Absent /\ group[q] = p => q = p
      /\ \A q \in Pid : stop[q] # Absent /\ group[q] = child => q = child
  BY <1>0, <1>1, ChildrenAre
<1>4. PICK c \in Pid : c = child
  BY <1>3
<1>5. kfds[c] = kfds[p] /\ KnownInv
  BY <1>0, <1>1, <1>2, <1>4, ActorsAreThere DEF AgreeInv, ForksAgree
<1> HIDE DEF child
<1>6. /\ p \in Registered /\ NewProcState \in ProcState /\ \A q \in Pid : ProcMap[q] # NewProcState
  BY <1>0, HandleForkKeeps
<1>7. PICK new \in ProcState : new = NewProcState
  BY <1>6
<1>8. /\ ProcMap' = [ProcMap EXCEPT ![c] = new]
      /\ Fds' = [Fds EXCEPT ![new] = Copied(Table(p), OpenSlots(Table(p)))]
      /\ OutputSize' = OutputSize
  BY <1>1, <1>4, <1>7 DEF RegisterProcess
<1>9. /\ \A q \in Pid : stop'[q] = IF q \in {p, c} THEN Running ELSE stop[q]
      /\ \A q \in Pid : ProcMap'[q] = IF q = c THEN new ELSE ProcMap[q]
      /\ \A s \in ProcState : s # new => Fds'[s] = Fds[s]
      /\ Fds'[new] = Copied(Table(p), OpenSlots(Table(p)))
  <2>1. stop = [q \in Pid |-> stop[q]]
    BY <1>0, Zenon DEF LifeInv, ThreadInv
  <2>2. ProcMap = [q \in Pid |-> ProcMap[q]] /\ Fds = [s \in ProcState |-> Fds[s]]
    BY <1>0 DEF TypedInv, ContextTyped
  <2>3. \A q \in Pid : stop'[q] = IF q \in {p, c} THEN Running ELSE stop[q]
    BY <1>1, <1>4, <2>1
  <2>4. \A q \in Pid : ProcMap'[q] = IF q = c THEN new ELSE ProcMap[q]
    BY <1>8, <2>2
  <2>5. /\ \A s \in ProcState : s # new => Fds'[s] = Fds[s]
        /\ Fds'[new] = Copied(Table(p), OpenSlots(Table(p)))
    BY <1>7, <1>8, <2>2
  <2> QED  BY <2>3, <2>4, <2>5
<1>10. CallsWait
  BY <1>1, <1>2, <1>3, <1>4, <1>9 DEF CallsWait
<1>11. c \notin Registered /\ \A q \in Registered : q \in Pid /\ ProcMap[q] \in ProcState /\ ProcMap[q] # new
  <2>1. c \notin Registered
    BY <1>3, <1>4, <1>5 DEF KnownInv, Registered
  <2>2. \A q \in Registered : q \in Pid /\ ProcMap[q] \in ProcState
    BY <1>0, TableOfRegistered DEF TypedInv
  <2> QED  BY <1>6, <1>7, <2>1, <2>2
<1>12. ASSUME NEW g \in Pid, g # c
       PROVE  CountsOn(g)'
  <2>1. Live(g)' => Live(g)
    BY <1>1, <1>3, <1>4, <1>9, <1>12 DEF Live
  <2>2. stop'[g].event \in {"fork", "exec"} => stop'[g] = stop[g] /\ group'[g] = group[g]
    BY <1>1, <1>2, <1>9
  <2>3. Live(g) => g \in Registered
    BY <1>0, LiveAreKnown
  <2>4. stop[g].event = "exec" => g \in Registered
    BY <1>5 DEF KnownInv, Registered
  <2>5. g \in Registered => Table(g)' = Table(g) /\ ProcMap'[g] = ProcMap[g]
    BY <1>9, <1>11, <1>12 DEF Table
  <2>6. Live(g)' \/ stop'[g].event = "exec" => Table(g)' = Table(g) /\ ProcMap'[g] = ProcMap[g]
    BY <2>1, <2>2, <2>3, <2>4, <2>5
  <2>7. UNCHANGED <<files, kfds, ofds>>
    OBVIOUS
  <2>8. CountsOn(g) /\ StandsOn(g)
    BY <1>0
  <2> QED  BY <1>0, <1>10, <2>1, <2>2, <2>6, <2>7, <2>8, WaitIsQuiet, BystanderCounts
<1>13. CallsReach
  BY <1>0, ReachIs
<1>14. Calls(p) = {} /\ Calls(c) = {} /\ Calls(c)' = {}
  <2>1. \A q \in Pid : group[q] = p \/ group[q] = c => stop[q].event # "syscall"
    BY <1>1, <1>2, <1>3, <1>4
  <2>2. Calls(p) = {} /\ Calls(c) = {}
    BY <2>1 DEF Calls
  <2> QED  BY <1>10, <2>2, WaitIsQuiet
<1>15. CallsReach'
  <2> SUFFICES ASSUME NEW q \in Pid, stop'[q].event = "syscall", stop'[q].regs.nr \in Naming
               PROVE  End(stop'[q].regs) \in 0 .. MaxLength
    BY DEF CallsReach
  <2>1. stop'[q] = stop[q]
    BY <1>10 DEF CallsWait
  <2> QED  BY <1>13, <2>1 DEF CallsReach
<1>16. Live(p)
  BY <1>1, <1>3 DEF Live
<1>17. /\ Table(p) \in SUBSET Entry /\ Slotted(Table(p))
  <2>1. ProcMap[p] \in ProcState
    BY <1>6, <1>11
  <2> QED  BY <1>0, <2>1 DEF TypedInv, ContextTyped, SlottedInv, Table
<1>18. Idle(ProcMap[p])
  <2>1. ASSUME NEW q \in Pid, ProcMap[q] = ProcMap[p], stop[q].event = "syscall"
        PROVE  FALSE
    <3>1. q \in Registered
      BY <1>6, <2>1 DEF Registered
    <3>2. group[q] = group[p]
      BY <1>5, <1>6, <2>1, <3>1 DEF KnownInv
    <3> QED  BY <1>1, <1>2, <1>3, <2>1, <3>2
  <2> QED  BY <2>1 DEF Idle
<1>19. \A e \in Table(p) : \A fd \in e.slots : MeasuresAt(p, e, fd)
  <2>1. Busy(p) = {}
    BY <1>14 DEF Busy
  <2>2. Measures(p, {})
    BY <1>0, <1>16, <2>1 DEF CountsOn
  <2> QED  BY <2>2 DEF Measures
<1>20. \A fd \in OpenSlots(Table(p)) : kfds[p][fd].ofd # None
  <2>1. AgreesOn(p)
    BY <1>0 DEF AgreeInv
  <2>2. Fits(Table(p), kfds[p], Followed(p), Busy(p), BusyFlags(p))
    BY <1>16, <2>1 DEF AgreesOn, Agrees
  <2>3. Busy(p) = {}
    BY <1>14 DEF Busy
  <2>4. OpenSlots(Table(p)) \subseteq Fd
    BY <1>17 DEF OpenSlots, Entry
  <2> QED  BY <2>2, <2>3, <2>4 DEF Fits, Followed
<1>21. Idle(new)'
  <2>1. \A q \in Pid : ProcMap'[q] = new => q = c
    BY <1>6, <1>7, <1>9
  <2>2. stop'[c].event # "syscall"
    BY <1>2, <1>9
  <2> QED  BY <2>1, <2>2 DEF Idle
<1>22. Due(new, Fds[new])' = 0 /\ Measures(c, {})'
  <2> DEFINE kept == OpenSlots(Table(p))
  <2>1. kept \in SUBSET OpenSlots(Table(p)) /\ ProcMap'[c] = new /\ Fds'[new] = Copied(Table(p), kept)
    BY <1>9
  <2>2. \A fd \in kept : kfds[p][fd].ofd # None
    BY <1>20
  <2> HIDE DEF kept
  <2>3. stop[p].event \in {"fork", "exec"} /\ UNCHANGED <<files, kfds, ofds>>
    BY <1>1
  <2> QED  BY <1>3, <1>5, <1>15, <1>17, <1>18, <1>19, <1>21, <2>1, <2>2, <2>3, CopiesMeasure
<1>23. CountsOn(c)'
  <2>1. stop'[c].event \notin {"fork", "exec"}
    BY <1>2, <1>9
  <2>2. Busy(c)' = {}
    BY <1>14 DEF Busy
  <2>3. Measures(c, Busy(c))'
    <3>1. Measures(c, Busy(c))' <=> Measures(c, {})'
      BY <2>2 DEF Measures
    <3> QED  BY <1>22, <3>1
  <2> QED  BY <1>14, <2>1, <2>3 DEF CountsOn
<1>24. Counted' = Counted
  <2> DEFINE none == {}
             R == Allocated
             Y == {new}
  <2>1. SumOf(Stock, none) = 0
    BY SumOfNone
  <2>2. Allocated = R \cup none /\ R \cap none = {}
    OBVIOUS
  <2>3. \A x : x \in Allocated <=> \E q \in Registered : x = ProcMap[q]
    BY DEF Allocated
  <2>4. Allocated' = R \cup Y /\ R \cap Y = {}
    <3>1. \A q : q \in Registered' <=> q \in Registered \/ q = c
      BY <1>4, <1>9, <1>11, ContextAssumption DEF Registered
    <3>2. \A q \in Registered : ProcMap'[q] = ProcMap[q]
      BY <1>9, <1>11
    <3>3. ProcMap'[c] = new
      BY <1>9
    <3>4. \A x : x \in Allocated' <=> \E q \in Registered' : x = ProcMap'[q]
      BY DEF Allocated
    <3>5. \A x : x \in Allocated' <=> x \in Allocated \/ x = new
      BY <2>3, <3>1, <3>2, <3>3, <3>4
    <3>6. new \notin Allocated
      BY <1>11, <2>3
    <3> QED  BY <3>5, <3>6
  <2>5. \A x \in R : Fds'[x] = Fds[x] /\ Quiet(x)
    <3>1. \A x \in R : x \in ProcState /\ x # new
      BY <1>11, <2>3
    <3> QED  BY <1>9, <1>10, <3>1, WaitIsQuiet
  <2>6. SumOf(Stock', Y) = 0
    <3>1. StockInv'
      BY <1>15, StockIsNext
    <3>2. Stock'[new] = 0
      BY <1>22, <3>1 DEF StockInv
    <3> QED  BY <3>2, SumOfOne
  <2> HIDE DEF none, R, Y
  <2>7. OutputSize' + SumOf(Stock', Y) = OutputSize + SumOf(Stock, none)
    BY <1>8, <2>1, <2>6
  <2> QED  BY <1>0, <1>13, <1>15, <2>2, <2>4, <2>5, <2>7, CountedHandled
<1>25. \A g \in Pid : CountsOn(g)'
  BY <1>12, <1>23
<1>26. UNCHANGED <<files, kfds, ofds, grown, quirks>>
  OBVIOUS
<1> QED  BY <1>24, <1>25, <1>26, HandlersCountKeep

LEMMA HandleExecCountsKeep ==
  ASSUME Exact, TypedInv', LifeInv', OutputSize' \in Nat, NEW p \in Pid, HandleExec(p),
         UNCHANGED <<files, use, kfds, ofds, grown, quirks>>
  PROVE  CountsKeep
<1> DEFINE kept == {fd \in OpenSlots(Table(p)) : ~IsCloexecSet(FileAt(Table(p), fd))}
<1>0. /\ TypedInv /\ KernelTyped /\ KernelTyped' /\ LifeInv /\ OutputSize \in Nat /\ AgreeInv
      /\ (\A g \in Pid : CountsOn(g) /\ StandsOn(g))
  BY DEF Exact, TypedInv
<1>1. /\ stop[p].event = "exec" /\ RegisterExec(p)
      /\ stop' = [stop EXCEPT ![p] = Running] /\ group' = group
  BY DEF HandleExec, Resume
<1>2. Running.event = "running" /\ Absent.event = "absent" /\ stop[p] # Absent /\ stop[p].event # "born"
  BY <1>1, Events
<1>3. Members(p) = {p} /\ KnownInv
  BY <1>0, <1>1, <1>2, ActorsAreThere DEF GroupInv
<1>4. group[p] = p /\ \A q \in Pid : stop[q] # Absent /\ group[q] = p => q = p
  BY <1>0, <1>2, <1>3, LonersAre
<1>5. /\ p \in Registered /\ NewProcState \in ProcState /\ \A q \in Pid : ProcMap[q] # NewProcState
  BY <1>0, HandleExecKeeps
<1>6. PICK new \in ProcState : new = NewProcState
  BY <1>5
<1>7. /\ ProcMap' = [ProcMap EXCEPT ![p] = new]
      /\ Fds' = [TornDown(p) EXCEPT ![new] = Copied(Table(p), kept)]
      /\ OutputSize' = OutputSize + RecordedBy(p)
  BY <1>1, <1>6 DEF RegisterExec
<1>8. kept \in SUBSET OpenSlots(Table(p)) /\ \A fd \in kept : ~IsCloexecSet(FileAt(Table(p), fd))
  OBVIOUS
<1> HIDE DEF kept
<1>9. /\ TornDown(p) \in [ProcState -> SUBSET Entry]
      /\ \A s \in ProcState : s # ProcMap[p] => TornDown(p)[s] = Fds[s]
  BY <1>0, <1>5, TornDownIs DEF TypedInv
<1>10. /\ \A q \in Pid : stop'[q] = IF q = p THEN Running ELSE stop[q]
       /\ \A q \in Pid : ProcMap'[q] = IF q = p THEN new ELSE ProcMap[q]
       /\ \A s \in ProcState : s # ProcMap[p] /\ s # new => Fds'[s] = Fds[s]
       /\ Fds'[new] = Copied(Table(p), kept)
  BY <1>0, <1>1, <1>7, <1>9 DEF LifeInv, ThreadInv, TypedInv, ContextTyped
<1>11. CallsWait
  BY <1>1, <1>2, <1>10 DEF CallsWait
<1>12. \A q \in Registered : /\ q \in Pid /\ ProcMap[q] \in ProcState /\ ProcMap[q] # new
                             /\ (ProcMap[q] = ProcMap[p] => q = p)
  <2>1. \A q \in Registered : q \in Pid /\ ProcMap[q] \in ProcState
    BY <1>0, TableOfRegistered DEF TypedInv
  <2>2. \A q \in Registered : stop[q] # Absent
    BY <1>2, <1>3, <2>1 DEF KnownInv, Registered
  <2>3. \A q \in Registered : ProcMap[q] = ProcMap[p] => group[q] = p
    BY <1>3, <1>4, <1>5 DEF KnownInv
  <2> QED  BY <1>4, <1>5, <1>6, <2>1, <2>2, <2>3
<1>13. ASSUME NEW g \in Pid, g # p
       PROVE  CountsOn(g)'
  <2>1. Live(g)' => Live(g)
    BY <1>1, <1>4, <1>10, <1>13 DEF Live
  <2>2. stop'[g].event \in {"fork", "exec"} => stop'[g] = stop[g] /\ group'[g] = group[g]
    BY <1>1, <1>10, <1>13
  <2>3. Live(g) => g \in Registered
    BY <1>0, LiveAreKnown
  <2>4. stop[g].event = "exec" => g \in Registered
    BY <1>3 DEF KnownInv, Registered
  <2>5. g \in Registered => Table(g)' = Table(g) /\ ProcMap'[g] = ProcMap[g]
    BY <1>10, <1>12, <1>13 DEF Table
  <2>6. Live(g)' \/ stop'[g].event = "exec" => Table(g)' = Table(g) /\ ProcMap'[g] = ProcMap[g]
    BY <2>1, <2>2, <2>3, <2>4, <2>5
  <2>7. UNCHANGED <<files, kfds, ofds>>
    OBVIOUS
  <2>8. CountsOn(g) /\ StandsOn(g)
    BY <1>0
  <2> QED  BY <1>0, <1>11, <2>1, <2>2, <2>6, <2>7, <2>8, WaitIsQuiet, BystanderCounts
<1>14. CallsReach
  BY <1>0, ReachIs
<1>15. Calls(p) = {} /\ Calls(p)' = {}
  <2>1. \A q \in Pid : group[q] = p => stop[q].event # "syscall"
    BY <1>1, <1>2, <1>4
  <2>2. Calls(p) = {}
    BY <2>1 DEF Calls
  <2> QED  BY <1>11, <2>2, WaitIsQuiet
<1>16. CallsReach'
  <2> SUFFICES ASSUME NEW q \in Pid, stop'[q].event = "syscall", stop'[q].regs.nr \in Naming
               PROVE  End(stop'[q].regs) \in 0 .. MaxLength
    BY DEF CallsReach
  <2>1. stop'[q] = stop[q]
    BY <1>11 DEF CallsWait
  <2> QED  BY <1>14, <2>1 DEF CallsReach
<1>17. /\ Table(p) \in SUBSET Entry /\ Slotted(Table(p))
  <2>1. ProcMap[p] \in ProcState
    BY <1>5, <1>12
  <2> QED  BY <1>0, <2>1 DEF TypedInv, ContextTyped, SlottedInv, Table
<1>18. Idle(ProcMap[p])
  <2>1. ASSUME NEW q \in Pid, ProcMap[q] = ProcMap[p], stop[q].event = "syscall"
        PROVE  FALSE
    <3>1. q \in Registered
      BY <1>5, <2>1 DEF Registered
    <3> QED  BY <1>1, <1>12, <2>1, <3>1
  <2> QED  BY <2>1 DEF Idle
<1>19. \A e \in Table(p) : \A fd \in e.slots : MeasuresAt(p, e, fd)
  <2>1. Measures(p, {})
    BY <1>0, <1>1 DEF CountsOn
  <2> QED  BY <2>1 DEF Measures
<1>20. \A fd \in kept : kfds[p][fd].ofd # None
  <2>1. OpenSlots(Table(p)) \subseteq Fd
    BY <1>17 DEF OpenSlots, Entry
  <2>2. \A fd \in kept : fd \in Followed(p)
    BY <1>0, <1>1, <1>8, <2>1 DEF AgreeInv, ExecsAgree
  <2> QED  BY <2>2 DEF Followed
<1>21. Idle(new)'
  <2>1. \A q \in Pid : ProcMap'[q] = new => q = p
    BY <1>5, <1>6, <1>10
  <2>2. stop'[p].event # "syscall"
    BY <1>2, <1>10
  <2> QED  BY <2>1, <2>2 DEF Idle
<1>22. Due(new, Fds[new])' = 0 /\ Measures(p, {})'
  <2>1. ProcMap'[p] = new /\ Fds'[new] = Copied(Table(p), kept)
    BY <1>10
  <2>2. stop[p].event \in {"fork", "exec"} /\ UNCHANGED <<files, kfds, ofds>>
    BY <1>1
  <2> QED  BY <1>4, <1>8, <1>16, <1>17, <1>18, <1>19, <1>20, <1>21, <2>1, <2>2, CopiesMeasure
<1>23. CountsOn(p)'
  <2>1. stop'[p].event \notin {"fork", "exec"}
    BY <1>2, <1>10
  <2>2. Busy(p)' = {}
    BY <1>15 DEF Busy
  <2>3. Measures(p, Busy(p))'
    <3>1. Measures(p, Busy(p))' <=> Measures(p, {})'
      BY <2>2 DEF Measures
    <3> QED  BY <1>22, <3>1
  <2> QED  BY <1>15, <2>1, <2>3 DEF CountsOn
<1>24. Counted' = Counted
  <2>1. PICK s \in ProcState : s = ProcMap[p] /\ s # new
    BY <1>5, <1>12
  <2> DEFINE X == {s}
             R == Allocated \ {s}
             Y == {new}
  <2>2. \A x : x \in Allocated <=> \E q \in Registered : x = ProcMap[q]
    BY DEF Allocated
  <2>3. Allocated = R \cup X /\ R \cap X = {}
    BY <1>5, <2>1, <2>2
  <2>4. Allocated' = R \cup Y /\ R \cap Y = {}
    <3>1. \A q : q \in Registered' <=> q \in Registered
      BY <1>5, <1>10, ContextAssumption DEF Registered
    <3>2. \A q \in Registered : q # p => ProcMap'[q] = ProcMap[q] /\ ProcMap[q] # s
      BY <1>10, <1>12, <2>1
    <3>3. ProcMap'[p] = new
      BY <1>10
    <3>4. \A x : x \in Allocated' <=> \E q \in Registered' : x = ProcMap'[q]
      BY DEF Allocated
    <3>5. \A x : x \in Allocated' => (x \in Allocated /\ x # s) \/ x = new
      BY <2>2, <3>1, <3>2, <3>3, <3>4
    <3>6. \A x : (x \in Allocated /\ x # s) \/ x = new => x \in Allocated'
      BY <1>5, <2>1, <2>2, <3>1, <3>2, <3>3, <3>4
    <3>7. new \notin Allocated
      BY <1>12, <2>2
    <3> QED  BY <3>5, <3>6, <3>7
  <2>5. \A x \in R : Fds'[x] = Fds[x] /\ Quiet(x)
    <3>1. \A x \in R : x \in ProcState /\ x # new /\ x # ProcMap[p]
      BY <1>12, <2>1, <2>2
    <3> QED  BY <1>10, <1>11, <3>1, WaitIsQuiet
  <2>6. SumOf(Stock', Y) = 0
    <3>1. StockInv'
      BY <1>16, StockIsNext
    <3>2. Stock'[new] = 0
      BY <1>22, <3>1 DEF StockInv
    <3> QED  BY <3>2, SumOfOne
  <2>7. SumOf(Stock, X) = OutputOf(Table(p)) /\ OutputOf(Table(p)) \in Nat
    BY <1>0, <1>5, <1>14, <1>18, <2>1, LonerDue
  <2>8. RecordedBy(p) = OutputOf(Table(p))
    BY <1>3, <1>4, <1>5 DEF KnownInv, RecordedBy
  <2> HIDE DEF R, X, Y
  <2>9. OutputSize' + SumOf(Stock', Y) = OutputSize + SumOf(Stock, X)
    BY <1>0, <1>7, <2>6, <2>7, <2>8
  <2> QED  BY <1>0, <1>14, <1>16, <2>3, <2>4, <2>5, <2>9, CountedHandled
<1>25. \A g \in Pid : CountsOn(g)'
  BY <1>13, <1>23
<1>26. UNCHANGED <<files, kfds, ofds, grown, quirks>>
  OBVIOUS
<1> QED  BY <1>24, <1>25, <1>26, HandlersCountKeep

------------------------------------------------------------------------------
(* A call is handled *)

\* The calls on the table of a process are those of its threads.
ViaInv ==
  \A g \in Pid : Live(g) =>
    \A slots, nrs : Via(ProcMap[g], slots, nrs) = Pending(g, slots, nrs)

LEMMA ViaAre == TypedInv /\ LifeInv => ViaInv
<1> SUFFICES ASSUME TypedInv, LifeInv, NEW g \in Pid, Live(g)
             PROVE  \A slots, nrs : Via(ProcMap[g], slots, nrs) = Pending(g, slots, nrs)
  BY DEF ViaInv
<1>1. PICK q \in Pid : group[q] = g /\ stop[q].event \in {"running", "syscall", "fork", "clone"}
  BY DEF Live
<1>2. stop[q] # Absent
  BY <1>1, Events
<1>3. g \in Registered /\ group[g] = g /\ KnownInv
  BY <1>2, LiveAreKnown, ActorsAreThere DEF TypedInv
<1>4. \A x \in Pid : stop[x].event = "syscall" => (ProcMap[x] = ProcMap[g] <=> group[x] = g)
  BY <1>3 DEF KnownInv, Registered
<1> QED  BY <1>4 DEF Via, Pending, Calls

LEMMA ViaAreNext ==
  ASSUME TypedInv', LifeInv'
  PROVE  ViaInv'
BY ViaAre, PTL

\* What a call does to a file state, when it does not wrap.
LEMMA EffectReaches ==
  ASSUME NEW r, NEW file \in TFileState, NEW new, new = Effect(r, file)
  PROVE  /\ r.nr = "write" /\ r.ret = 1 /\ file.CurrPos + 1 <= MaxLength =>
              /\ new.CurrPos = file.CurrPos + 1
              /\ new.MaxPos = Longer(file.MaxPos, file.CurrPos + 1)
         /\ r.nr \in Naming /\ Succeeded(r) /\ End(r) \in 0 .. MaxLength =>
              new.CurrPos = file.CurrPos /\ new.MaxPos = Longer(file.MaxPos, End(r))
         /\ r.nr = "lseek" => new.MaxPos = file.MaxPos
         /\ r.nr \notin {"write", "lseek"} \cup Naming => new = file
<1>1. /\ file.CurrPos \in Nat /\ file.MaxPos \in Nat /\ MaxLength \in Nat /\ MaxLength < SizeModulus
      /\ SizeModulus \in Nat
  BY AccountingAssumption, SizeModulusAssumption DEF TFileState, Size
<1>2. \A x \in 0 .. MaxLength : x % SizeModulus = x /\ Reach(file, x) = Longer(file.MaxPos, x)
  BY <1>1 DEF Reach, Longer
<1>3. ASSUME r.nr = "write", r.ret = 1, file.CurrPos + 1 <= MaxLength
      PROVE  /\ new.CurrPos = file.CurrPos + 1
             /\ new.MaxPos = Longer(file.MaxPos, file.CurrPos + 1)
  <2> DEFINE x == file.CurrPos + 1
             y == x % SizeModulus
  <2>1. x \in 0 .. MaxLength
    BY <1>1, <1>3
  <2>2. new = Enroll(file, 1)
    BY <1>3 DEF Effect, Succeeded
  <2>3. new = [file EXCEPT !.CurrPos = y, !.MaxPos = Reach(file, y)]
    BY <2>2 DEF Enroll
  <2>4. y = x /\ Reach(file, x) = Longer(file.MaxPos, x)
    BY <1>2, <2>1
  <2> HIDE DEF x, y
  <2>5. new.CurrPos = y /\ new.MaxPos = Reach(file, y)
    BY <2>3 DEF TFileState
  <2> QED  BY <2>4, <2>5 DEF x
<1>4. ASSUME r.nr \in Naming, Succeeded(r), End(r) \in 0 .. MaxLength
      PROVE  new.CurrPos = file.CurrPos /\ new.MaxPos = Longer(file.MaxPos, End(r))
  <2>1. CASE r.nr = "pwrite64"
    <3> DEFINE x == r.arg + r.ret
               y == x % SizeModulus
    <3>1. End(r) = x /\ new = EnrollNoShift(file, r.ret, r.arg)
      BY <1>4, <2>1 DEF End, Effect
    <3>2. new = [file EXCEPT !.MaxPos = Reach(file, y)]
      BY <3>1 DEF EnrollNoShift
    <3>3. y = x /\ Reach(file, x) = Longer(file.MaxPos, x)
      BY <1>2, <1>4, <3>1
    <3> HIDE DEF x, y
    <3>4. new.CurrPos = file.CurrPos /\ new.MaxPos = Reach(file, y)
      BY <3>2 DEF TFileState
    <3> QED  BY <3>1, <3>3, <3>4
  <2>2. CASE r.nr \in {"ftruncate", "fallocate"}
    <3> DEFINE x == 0 + r.arg
               y == x % SizeModulus
    <3>1. End(r) = r.arg /\ new = EnrollNoShift(file, r.arg, 0)
      BY <1>4, <2>2 DEF End, Effect
    <3>2. new = [file EXCEPT !.MaxPos = Reach(file, y)]
      BY <3>1 DEF EnrollNoShift
    <3>3. x = r.arg
      BY <1>1, <1>4, <3>1
    <3>4. y = x /\ Reach(file, x) = Longer(file.MaxPos, x)
      BY <1>2, <1>4, <3>1, <3>3
    <3> HIDE DEF x, y
    <3>5. new.CurrPos = file.CurrPos /\ new.MaxPos = Reach(file, y)
      BY <3>2 DEF TFileState
    <3> QED  BY <3>1, <3>3, <3>4, <3>5
  <2> QED  BY <1>4, <2>1, <2>2 DEF Naming
<1>5. r.nr = "lseek" => new.MaxPos = file.MaxPos
  <2>1. \A pos : SetCurrPos(file, pos).MaxPos = file.MaxPos
    BY DEF SetCurrPos, TFileState
  <2> QED  BY <2>1 DEF Effect
<1>6. r.nr \notin {"write", "lseek"} \cup Naming => new = file
  BY DEF Effect, Naming
<1> QED  BY <1>3, <1>4, <1>5, <1>6

LEMMA EffectStays ==
  ASSUME NEW r, NEW file \in TFileState, NEW new, new = Effect(r, file)
  PROVE  new.InitSize = file.InitSize /\ new.Filename = file.Filename
<1>1. \A n, k : /\ EnrollNoShift(file, n, k).InitSize = file.InitSize
                /\ EnrollNoShift(file, n, k).Filename = file.Filename
  BY DEF EnrollNoShift, TFileState
<1>2. \A n : Enroll(file, n).InitSize = file.InitSize /\ Enroll(file, n).Filename = file.Filename
  BY DEF Enroll, TFileState
<1>3. \A n : SetCurrPos(file, n).InitSize = file.InitSize /\ SetCurrPos(file, n).Filename = file.Filename
  BY DEF SetCurrPos, TFileState
<1> QED  BY <1>1, <1>2, <1>3 DEF Effect

\* What is still to come for an entry f once the call is handled, which makes
\* it e.
Answers(r, s, f, e) ==
  /\ r.nr = "write" /\ r.fd \in f.slots =>
       Writes(s, f) = Writes(s, e)' + 1 /\ Ends(s, f.slots) = Ends(s, e.slots)'
  /\ r.nr \in Naming /\ r.fd \in f.slots =>
       Writes(s, f) = Writes(s, e)' /\ Ends(s, f.slots) = Ends(s, e.slots)' \cup {End(r)}
  /\ ~(r.nr \in Naming \cup {"write"} /\ r.fd \in f.slots) =>
       Writes(s, f) = Writes(s, e)' /\ Ends(s, f.slots) = Ends(s, e.slots)'
  /\ Writes(s, e)' \in Nat

\* The calls that are still to be handled once one of them has been.
LEMMA TurnedCalls ==
  ASSUME TypedInv, LifeInv, TypedInv', LifeInv', NEW p, NEW r, NEW g, NEW name, NEW new,
         Turning(p, r, g, name, new), p \in Pid, NEW s, s = ProcMap[g], ProcMap[p] = s, ProcMap'[g] = s,
         NEW f, NEW e, Becomes(r, f, e)
  PROVE  Answers(r, s, f, e)
<1> DEFINE W == Via(s, f.slots, {"write"})
           N == Via(s, f.slots, Naming)
           W1 == Via(s, e.slots, {"write"})'
           N1 == Via(s, e.slots, Naming)'
<1>0. ASSUME NEW nrs, nrs \cap {"open", "creat"} = {}
      PROVE  Via(s, e.slots, nrs)' = Via(s, f.slots, nrs) \ {p}
  <2>1. /\ g \in Pid /\ group[p] = g /\ group[g] = g /\ stop'[p].event = "running" /\ group' = group
        /\ RegsTyped(r) /\ Live(g)
    BY DEF Turning
  <2>2. Live(g)'
    BY <2>1 DEF Live
  <2>3. ViaInv /\ ViaInv'
    BY ViaAre, ViaAreNext
  <2>4. Via(s, f.slots, nrs) = Pending(g, f.slots, nrs)
    BY <2>1, <2>3 DEF ViaInv
  <2>5. Via(s, e.slots, nrs)' = Pending(g, e.slots, nrs)'
    <3> SUFFICES ASSUME NEW t, t = e.slots PROVE Via(s, t, nrs)' = Pending(g, t, nrs)'
      OBVIOUS
    <3>1. Via(ProcMap[g], t, nrs)' = Pending(g, t, nrs)'
      BY <2>1, <2>2, <2>3 DEF ViaInv
    <3> QED  BY <3>1
  <2>6. Pending(g, e.slots, nrs)' = Pending(g, f.slots, nrs) \ {p}
    <3>1. e.slots = (f.slots \ Gone(r)) \cup Joined(r, f.slots)
      BY DEF Becomes
    <3>2. \A fd \in Joined(r, f.slots) : fd \in Changes(r) \/ fd \in f.slots
      BY DEF Joined, Changes, Dups, NewFd
    <3>3. Gone(r) \subseteq Changes(r)
      BY <2>1, ChangesAre
    <3>4. \A fd : fd \in e.slots \ f.slots \/ fd \in f.slots \ e.slots => fd \in Changes(r)
      BY <3>1, <3>2, <3>3
    <3> QED  BY <1>0, <3>4, TurningPending
  <2> QED  BY <2>4, <2>5, <2>6
<1>1. W1 = W \ {p}
  BY <1>0
<1>2. N1 = N \ {p}
  <2>1. Naming \cap {"open", "creat"} = {}
    BY DEF Naming
  <2> QED  BY <1>0, <2>1
<1>3. stop[p].event = "syscall" /\ stop[p].regs = r /\ \A q \in Pid \ {p} : stop'[q] = stop[q]
  BY DEF Turning
<1>4. /\ p \in W <=> r.nr = "write" /\ r.fd \in f.slots
      /\ p \in N <=> r.nr \in Naming /\ r.fd \in f.slots
      /\ N \subseteq Pid
  BY <1>3 DEF Via
<1>5. /\ Writes(s, f) = Cardinality(W) /\ Writes(s, e)' = Cardinality(W1)
      /\ Ends(s, f.slots) = {End(stop[q].regs) : q \in N}
      /\ Ends(s, e.slots)' = {End(stop'[q].regs) : q \in N1}
  BY DEF Writes, Ends, Naming
<1>6. IsFiniteSet(W) /\ Cardinality(W) \in Nat
  BY ViaIs
<1>7. IsFiniteSet(W1) /\ Cardinality(W1) \in Nat
  BY <1>1, <1>6, FS_Subset, FS_CardinalityType
<1> HIDE DEF W, N, W1, N1
<1>8. p \in W => Writes(s, f) = Writes(s, e)' + 1
  <2> SUFFICES ASSUME p \in W PROVE Writes(s, f) = Writes(s, e)' + 1
    OBVIOUS
  <2>1. Cardinality(W \ {p}) = Cardinality(W) - 1
    BY <1>6, FS_RemoveElement
  <2> QED  BY <1>1, <1>5, <1>6, <2>1
<1>9. p \notin W => Writes(s, f) = Writes(s, e)'
  <2>1. p \notin W => W1 = W
    BY <1>1
  <2> QED  BY <1>5, <2>1
<1>10. \A q \in N1 : stop'[q] = stop[q]
  BY <1>2, <1>3, <1>4
<1>11. Ends(s, e.slots)' = {End(stop[q].regs) : q \in N1}
  BY <1>5, <1>10
<1>12. p \in N => Ends(s, f.slots) = Ends(s, e.slots)' \cup {End(r)}
  <2> SUFFICES ASSUME p \in N PROVE Ends(s, f.slots) = Ends(s, e.slots)' \cup {End(r)}
    OBVIOUS
  <2>1. N = N1 \cup {p}
    BY <1>2
  <2> QED  BY <1>3, <1>5, <1>11, <2>1
<1>13. p \notin N => Ends(s, f.slots) = Ends(s, e.slots)'
  <2>1. p \notin N => N1 = N
    BY <1>2
  <2> QED  BY <1>5, <1>11, <2>1
<1>14. "write" \notin Naming
  BY DEF Naming
<1> QED  BY <1>4, <1>5, <1>7, <1>8, <1>9, <1>12, <1>13, <1>14 DEF Answers

\* It has reached as far, and will.
Handed(r, s, f, e) ==
  /\ e.file.InitSize = f.file.InitSize /\ e.file.Filename = f.file.Filename
  /\ Top(s, e)' = Top(s, f)
  /\ ~(r.nr = "lseek" /\ r.fd \in f.slots) =>
       e.file.CurrPos + Writes(s, e)' = f.file.CurrPos + Writes(s, f)
  /\ ~(r.nr \in Naming \cup {"write"} /\ r.fd \in f.slots) => e.file.MaxPos = f.file.MaxPos

LEMMA TurnedTop ==
  ASSUME Exact, TypedInv', LifeInv', NEW p \in Pid, NEW r, NEW g, NEW name, NEW new,
         Turning(p, r, g, name, new), NEW s, s = ProcMap[g], ProcMap[p] = s, ProcMap'[g] = s,
         NEW f \in Table(p), NEW e, Becomes(r, f, e)
  PROVE  Handed(r, s, f, e)
<1>1. /\ TypedInv /\ LifeInv /\ KernelTyped /\ HeldInv /\ (\A x \in Pid : CountsOn(x) /\ StandsOn(x))
      /\ g \in Pid /\ Live(g) /\ Table(g) = Table(p) /\ Table(p) \in SUBSET Entry /\ RegsTyped(r)
      /\ p \in Calls(g) /\ stop[p].regs = r
      /\ \A q \in Calls(g) : stop[q].regs.nr = "write" => stop[q].regs.fd \notin Busy(g)
      /\ \A q \in Calls(g) : q # p =>
           Changes(stop[q].regs) \cap Slots(r) = {}
  BY DEF Exact, TypedInv, Turning
<1>2. /\ Sized(r, kfds[g]) /\ Positioned(r, Table(p), kfds[g]) /\ Measures(g, Busy(g))
      /\ Grouped(Table(p), kfds[g], Busy(g))
      /\ \A q \in Calls(g) : q # p => Commute(r, stop[q].regs, kfds[g])
      /\ CountsOn(g)
  BY <1>1 DEF CountsOn, StandsOn
<1>3. f \in Entry /\ e \in Entry /\ f.file \in TFileState /\ e.file \in TFileState /\ f.slots \subseteq Fd
  BY <1>1 DEF Becomes, Entry
<1>4. Answers(r, s, f, e)
  BY <1>1, TurnedCalls
<1>5. CallsReach
  BY <1>1, ReachIs
<1>6. Counting(f.file, Writes(s, f), Ends(s, f.slots))
  BY <1>3, <1>5, CallsCount
<1> DEFINE n == Writes(s, f)
           E == Ends(s, f.slots)
           n1 == Writes(s, e)'
           E1 == Ends(s, e.slots)'
           on == r.fd \in f.slots
           t == Top(s, f)
<1>7. /\ r.nr = "write" /\ on => n = n1 + 1 /\ E = E1
      /\ r.nr \in Naming /\ on => n = n1 /\ E = E1 \cup {End(r)}
      /\ ~(r.nr \in Naming \cup {"write"} /\ on) => n = n1 /\ E = E1
      /\ n1 \in Nat
  BY <1>4 DEF Answers
<1>8. n \in Nat /\ E \in SUBSET Nat /\ IsFiniteSet(E)
  BY <1>6 DEF Counting
<1>9. t = Max(Reached(f.file, n, E)) /\ Top(s, e)' = Max(Reached(e.file, n1, E1))
  BY DEF Top
<1>10. /\ e.file.CurrPos \in Nat /\ f.file.CurrPos \in Nat /\ f.file.MaxPos \in Nat /\ e.file.MaxPos \in Nat
       /\ On(r, f) <=> r.nr \notin {"open", "creat"} /\ on
       /\ Like(e.file, IF On(r, f) THEN Effect(r, f.file) ELSE f.file)
  BY <1>3 DEF TFileState, Size, On, Becomes
<1> HIDE DEF n, n1, E, E1, t, on
<1>11. E1 \subseteq E /\ Counting(f.file, n1, E1)
  <2>1. E1 \subseteq E
    BY <1>7
  <2>2. IsFiniteSet(E1)
    BY <1>8, <2>1, FS_Subset
  <2> QED  BY <1>3, <1>7, <1>8, <2>1, <2>2 DEF Counting
<1>12. e.file.InitSize = f.file.InitSize /\ e.file.Filename = f.file.Filename
  <2>1. Effect(r, f.file).InitSize = f.file.InitSize /\ Effect(r, f.file).Filename = f.file.Filename
    BY <1>3, EffectStays
  <2> QED  BY <1>10, <2>1 DEF Like
<1>13. CASE r.nr = "write" /\ on
  <2>1. r.ret = 1 /\ r.fd \in f.slots \ Busy(g) /\ kfds[g][r.fd].ofd # None /\ ofds[kfds[g][r.fd].ofd].write
    BY <1>1, <1>2, <1>13 DEF Positioned, Sized, on
  <2>2. PICK o : o = kfds[g][r.fd].ofd
    OBVIOUS
  <2>3. MeasuresAt(g, f, r.fd)
    BY <1>1, <1>2, <2>1 DEF Measures
  <2>4. MeasuresUp(f.file, t, f.file.CurrPos + n, ofds[o], size[ofds[o].name])
    BY <2>1, <2>2, <2>3 DEF MeasuresAt, t, n
  <2>5. r.fd \in Fd
    BY <1>3, <1>13 DEF on
  <2>6. ofds[o].name \in Name
    BY <1>1, <2>1, <2>2, <2>5, LandsIn
  <2> DEFINE z == size[ofds[o].name]
  <2>7. z \in 0 .. MaxLength /\ MaxLength \in Nat
    BY <1>1, <2>6, AccountingAssumption, SizeModulusAssumption DEF KernelTyped, Size
  <2> HIDE DEF z
  <2>8. f.file.CurrPos + 1 \in Reached(f.file, n, E)
    <3>1. 1 \in 1 .. n
      BY <1>7, <1>13
    <3> QED  BY <3>1 DEF Reached
  <2>9. t \in Nat /\ f.file.CurrPos + 1 <= t
    <3>1. Counting(f.file, n, E)
      BY <1>6 DEF n, E
    <3>2. Max(Reached(f.file, n, E)) \in Nat /\ \A x \in Reached(f.file, n, E) : x <= Max(Reached(f.file, n, E))
      BY <3>1, ReachedIs
    <3> QED  BY <1>9, <2>8, <3>2
  <2>10. t <= z
    <3>1. PICK w : w = ofds[o]
      OBVIOUS
    <3>2. PICK c : c = f.file.CurrPos + n
      OBVIOUS
    <3>3. MeasuresUp(f.file, t, c, w, z) /\ w.write
      BY <2>1, <2>2, <2>4, <3>1, <3>2 DEF z
    <3> QED  BY <2>7, <2>9, <3>3 DEF MeasuresUp
  <2>11. f.file.CurrPos + 1 <= MaxLength
    BY <1>10, <2>7, <2>9, <2>10
  <2>12. /\ e.file.CurrPos = f.file.CurrPos + 1
         /\ e.file.MaxPos = Longer(f.file.MaxPos, f.file.CurrPos + 1)
    <3>1. PICK x : x = Effect(r, f.file)
      OBVIOUS
    <3>2. x.CurrPos = f.file.CurrPos + 1 /\ x.MaxPos = Longer(f.file.MaxPos, f.file.CurrPos + 1)
      BY <1>3, <1>13, <2>1, <2>11, <3>1, EffectReaches
    <3> QED  BY <1>10, <1>13, <3>1, <3>2 DEF Like
  <2>13. Max(Reached(e.file, n1, E1)) = Max(Reached(f.file, n1 + 1, E1))
    BY <1>3, <1>11, <1>12, <2>12, ReachesSame
  <2>14. Top(s, e)' = t
    BY <1>7, <1>9, <1>13, <2>13
  <2>15. e.file.CurrPos + n1 = f.file.CurrPos + n
    BY <1>7, <1>10, <1>13, <2>12
  <2> QED  BY <1>12, <1>13, <2>14, <2>15 DEF Handed, t, n, n1, on
<1>14. CASE r.nr \in Naming /\ on
  <2>1. Succeeded(r) /\ End(r) \in 0 .. MaxLength
    BY <1>2, <1>14 DEF Sized, Naming
  <2>2. End(r) \in Nat /\ r.nr \notin {"open", "creat", "write", "lseek"}
    BY <1>14, <2>1, LengthsAreSizes DEF Naming
  <2>3. e.file.CurrPos = f.file.CurrPos /\ e.file.MaxPos = Longer(f.file.MaxPos, End(r))
    <3>1. PICK x : x = Effect(r, f.file)
      OBVIOUS
    <3>2. x.CurrPos = f.file.CurrPos /\ x.MaxPos = Longer(f.file.MaxPos, End(r))
      BY <1>3, <1>14, <2>1, <3>1, EffectReaches
    <3> QED  BY <1>10, <1>14, <2>2, <3>1, <3>2 DEF Like
  <2>4. Max(Reached(e.file, n1, E1)) = Max(Reached(f.file, n1, E1 \cup {End(r)}))
    BY <1>3, <1>11, <1>12, <2>2, <2>3, ReachesSame
  <2>5. Top(s, e)' = t
    BY <1>7, <1>9, <1>14, <2>4
  <2>6. e.file.CurrPos + n1 = f.file.CurrPos + n
    BY <1>7, <1>14, <2>3
  <2> QED  BY <1>12, <1>14, <2>5, <2>6 DEF Handed, t, n, n1, on
<1>15. CASE r.nr = "lseek" /\ on
  <2>1. r.fd \notin Busy(g)
    <3>1. r.fd \in Slots(r) /\ Changes(r) = {}
      BY <1>1, <1>15, ChangesAre
    <3>2. \A fd : fd \in Busy(g) <=> \E q \in Calls(g) : fd \in Changes(stop[q].regs)
      BY BusyIs
    <3> QED  BY <1>1, <3>1, <3>2
  <2>2. Writes(s, f) = 0
    <3>1. ViaInv
      BY <1>1, ViaAre
    <3>2. Via(s, f.slots, {"write"}) = Pending(g, f.slots, {"write"})
      BY <1>1, <3>1 DEF ViaInv
    <3>3. ASSUME NEW q \in Pending(g, f.slots, {"write"})
          PROVE  FALSE
      <4>1. q \in Calls(g) /\ stop[q].regs.nr = "write" /\ stop[q].regs.fd \in f.slots
        BY <3>3 DEF Pending
      <4>2. q # p
        BY <1>1, <1>15, <4>1
      <4>3. {r.nr, stop[q].regs.nr} \in {{"lseek"}, {"lseek", "write"}}
        BY <1>15, <4>1
      <4>4. kfds[g][r.fd].ofd # kfds[g][stop[q].regs.fd].ofd
        BY <1>2, <4>1, <4>2, <4>3 DEF Commute
      <4>5. stop[q].regs.fd \notin Busy(g)
        BY <1>1, <4>1
      <4> QED  BY <1>2, <1>15, <2>1, <4>1, <4>4, <4>5 DEF Grouped, on
    <3>4. Via(s, f.slots, {"write"}) = {}
      BY <3>2, <3>3
    <3> QED  BY <3>4, FS_EmptySet DEF Writes
  <2>3. n = 0 /\ n1 = 0 /\ E = E1
    <3>1. "lseek" \notin Naming \cup {"write"}
      BY DEF Naming
    <3> QED  BY <1>7, <1>15, <2>2, <3>1 DEF n
  <2>4. e.file.MaxPos = f.file.MaxPos
    <3>1. PICK x : x = Effect(r, f.file)
      OBVIOUS
    <3>2. x.MaxPos = f.file.MaxPos
      BY <1>3, <1>15, <3>1, EffectReaches
    <3> QED  BY <1>10, <1>15, <3>1, <3>2 DEF Like
  <2>5. Max(Reached(e.file, 0, E1)) = Max(Reached(f.file, 0, E1))
    BY <1>3, <1>11, <1>12, <2>3, <2>4, ReachesSame
  <2>6. Top(s, e)' = t
    BY <1>9, <2>3, <2>5
  <2> QED  BY <1>12, <1>15, <2>4, <2>6 DEF Handed, t, on
<1>16. CASE ~(r.nr \in Naming \cup {"write", "lseek"} /\ on)
  <2>1. e.file.CurrPos = f.file.CurrPos /\ e.file.MaxPos = f.file.MaxPos
    <3>1. PICK x : x = Effect(r, f.file)
      OBVIOUS
    <3>2. r.nr \notin {"write", "lseek"} \cup Naming => x = f.file
      BY <1>3, <3>1, EffectReaches
    <3> QED  BY <1>10, <1>16, <3>1, <3>2 DEF Like
  <2>2. Max(Reached(e.file, n1, E1)) = Max(Reached(f.file, n1, E1))
    BY <1>3, <1>11, <1>12, <2>1, ReachesSame
  <2>3. n = n1 /\ E = E1
    BY <1>7, <1>16
  <2>4. Top(s, e)' = t
    BY <1>9, <2>2, <2>3
  <2> QED  BY <1>12, <2>1, <2>3, <2>4 DEF Handed, t, n, n1
<1> QED  BY <1>13, <1>14, <1>15, <1>16

LEMMA FdsFree ==
  ASSUME NEW p, NEW r, NEW g, NEW name, NEW new, Turning(p, r, g, name, new),
         r.nr \in Naming \cup {"write", "lseek"}
  PROVE  r.fd \notin Busy(g) /\ r.fd \in Fd /\ Changes(r) = {}
<1>1. /\ RegsTyped(r) /\ stop[p].regs = r
      /\ \A q \in Calls(g) : q # p => Changes(stop[q].regs) \cap Slots(r) = {}
  BY DEF Turning
<1>2. r.fd \in Slots(r) /\ r.fd \in Fd /\ Changes(r) = {}
  BY <1>1, ChangesAre DEF Naming, Changes, Dups, NewFd
<1>3. \A fd : fd \in Busy(g) <=> \E q \in Calls(g) : fd \in Changes(stop[q].regs)
  BY BusyIs
<1> QED  BY <1>1, <1>2, <1>3

\* The file of a call that is handled still measures up.
LEMMA TurningMeasures ==
  ASSUME Exact, TypedInv', LifeInv', NEW p \in Pid, NEW r, NEW g, NEW name, NEW new,
         Turning(p, r, g, name, new), NEW s, s = ProcMap[g], ProcMap[p] = s, ProcMap'[g] = s
  PROVE  Measures(g, Busy(g))'
<1>1. /\ TypedInv /\ LifeInv /\ KernelTyped /\ HeldInv /\ LengthsAgree
      /\ (\A x \in Pid : CountsOn(x) /\ StandsOn(x)) /\ (\A x \in Pid : AgreesOn(x))
      /\ g \in Pid /\ Live(g) /\ Table(g) = Table(p) /\ Table(p) \in SUBSET Entry /\ RegsTyped(r)
      /\ p \in Calls(g) /\ stop[p].regs = r /\ new \in SUBSET Entry /\ Table(g)' = new
      /\ Turned(r, name, Table(p), new) /\ UNCHANGED <<kfds, ofds, files, group>>
      /\ name = (IF Follows(r) THEN ofds[kfds[g][r.ret].ofd].name ELSE None)
      /\ group[p] = g /\ group[g] = g /\ stop'[p].event = "running"
  BY DEF Exact, TypedInv, Turning, AgreeInv
<1>2. /\ Sized(r, kfds[g]) /\ Positioned(r, Table(p), kfds[g]) /\ Measures(g, Busy(g))
      /\ Grouped(Table(p), kfds[g], Busy(g)) /\ Done(r, Table(p), kfds[g], Followed(g))
  BY <1>1 DEF CountsOn, StandsOn, AgreesOn
<1>3. size' = size /\ ofds' = ofds /\ kfds' = kfds /\ length' = length
  BY <1>1 DEF files
<1> SUFFICES ASSUME NEW e \in new, NEW a \in e.slots, a \notin Busy(g)'
             PROVE  MeasuresAt(g, e, a)'
  BY <1>1 DEF Measures
<1>4. PICK o : o = kfds[g][a].ofd
  OBVIOUS
<1>5. ASSUME o # None => MeasuresUp(e.file, Top(s, e)', e.file.CurrPos + Writes(s, e)',
                                    ofds[o], size[ofds[o].name])
      PROVE  MeasuresAt(g, e, a)'
  BY <1>3, <1>4, <1>5, AtStarts
<1>6. CASE /\ Follows(r) /\ e.slots = {r.ret}
           /\ e.file = NewFileState(name, r.flags, length[name])
  <2>1. r.nr \in {"open", "creat"} /\ a = r.ret /\ name = ofds[o].name /\ r.ret \in Fd
    BY <1>1, <1>4, <1>6, ChangesAre DEF Follows
  <2>2. /\ o # None /\ ofds[o].write /\ ~ofds[o].split
        /\ ofds[o].name = r.name /\ r.name \notin unlinked
    BY <1>2, <1>4, <1>6, <2>1 DEF Positioned
  <2>3. name \in Name /\ length[name] = size[name] /\ size[name] \in Nat
    <3>1. ofds[o].name \in Name /\ size[ofds[o].name] \in Nat
      BY <1>1, <1>4, <2>1, <2>2, LandsIn
    <3> QED  BY <1>1, <2>1, <2>2, <3>1 DEF LengthsAgree
  <2>4. e.file.InitSize = size[name] /\ e.file.MaxPos = 0 /\ e.file.Filename = name
    BY <1>6, <2>3 DEF NewFileState
  <2>5. Via(s, e.slots, {"write"} \cup Naming)' = {}
    <3> SUFFICES ASSUME NEW t, t = e.slots, NEW nrs, nrs = {"write"} \cup Naming
                 PROVE  Via(s, t, nrs)' = {}
      OBVIOUS
    <3>1. Live(g)' /\ ViaInv'
      BY <1>1, ViaAreNext DEF Live
    <3>2. Via(ProcMap[g], t, nrs)' = Pending(g, t, nrs)'
      BY <1>1, <3>1 DEF ViaInv
    <3>3. Pending(g, t, nrs)' = Pending(g, {}, nrs) \ {p}
      <4>1. \A fd : fd \in t \ {} \/ fd \in {} \ t => fd \in Changes(r)
        BY <1>1, <1>6, <2>1, ChangesAre
      <4>2. nrs \cap {"open", "creat"} = {}
        BY DEF Naming
      <4> QED  BY <4>1, <4>2, TurningPending
    <3> QED  BY <3>2, <3>3 DEF Pending
  <2>6. Top(s, e)' = Longer(e.file.InitSize, e.file.MaxPos)
    <3>1. RestInv' /\ e \in Entry
      BY <1>1, RestIsNext
    <3> QED  BY <2>5, <3>1 DEF RestInv
  <2>7. Top(s, e)' = size[ofds[o].name]
    BY <2>1, <2>3, <2>4, <2>6 DEF Longer
  <2>8. MeasuresUp(e.file, Top(s, e)', e.file.CurrPos + Writes(s, e)',
                   ofds[o], size[ofds[o].name])
    BY <2>1, <2>2, <2>4, <2>7 DEF MeasuresUp
  <2> QED  BY <1>5, <2>8
<1>7. ASSUME NEW f \in Table(p), Becomes(r, f, e)
      PROVE  MeasuresAt(g, e, a)'
  <2>1. PICK c \in f.slots \ Busy(g) : kfds[g][c].ofd = o
    <3>1. CASE r.nr \in {"open", "creat"} /\ ~Follows(r) /\ a = r.ret
      <4>1. Gone(r) = {} /\ Joined(r, f.slots) = {}
        BY <3>1 DEF Gone, Joined, Dups, NewFd, Follows
      <4>2. a \in f.slots
        BY <1>7, <4>1 DEF Becomes
      <4> QED  BY <1>2, <3>1, <4>2 DEF Done, OpenSlots
    <3> QED  BY <1>2, <1>4, <1>7, <3>1, TurnedSlot
  <2>2. MeasuresAt(g, f, c)
    BY <1>1, <1>2, <2>1 DEF Measures
  <2>3. Handed(r, s, f, e)
    BY <1>7, TurnedTop
  <2>4. r.nr \in Naming \cup {"write", "lseek"} /\ r.fd \in f.slots => kfds[g][r.fd].ofd = o
    BY <1>2, <2>1, FdsFree DEF Grouped
  <2> SUFFICES ASSUME o # None
               PROVE  MeasuresUp(e.file, Top(s, e)', e.file.CurrPos + Writes(s, e)',
                                 ofds[o], size[ofds[o].name])
    BY <1>5
  <2>5. MeasuresUp(f.file, Top(s, f), f.file.CurrPos + Writes(s, f), ofds[o], size[ofds[o].name])
    BY <2>1, <2>2 DEF MeasuresAt
  <2>6. ~ofds[o].write => e.file.MaxPos = f.file.MaxPos
    <3>1. r.nr \in Naming \cup {"write"} /\ r.fd \in f.slots => ofds[o].write
      BY <1>2, <2>4 DEF Sized, Naming
    <3> QED  BY <2>3, <3>1 DEF Handed
  <2>7. ofds[o].write /\ ofds[o].split =>
          e.file.CurrPos + Writes(s, e)' = f.file.CurrPos + Writes(s, f)
    <3>1. r.nr = "lseek" /\ r.fd \in f.slots => ~(ofds[o].write /\ ofds[o].split)
      BY <1>2, <2>4 DEF Sized
    <3> QED  BY <2>3, <3>1 DEF Handed
  <2>8. e.file.Filename = f.file.Filename /\ Top(s, e)' = Top(s, f)
    BY <2>3 DEF Handed
  <2> DEFINE t == Top(s, f)
             t1 == Top(s, e)'
             n == f.file.CurrPos + Writes(s, f)
             n1 == e.file.CurrPos + Writes(s, e)'
             z == size[ofds[o].name]
  <2>9. /\ ~ofds[o].write => e.file.MaxPos = f.file.MaxPos
        /\ ofds[o].write /\ ofds[o].split => n1 = n
        /\ e.file.Filename = f.file.Filename /\ t1 = t
        /\ MeasuresUp(f.file, t, n, ofds[o], z)
    BY <2>5, <2>6, <2>7, <2>8
  <2> HIDE DEF t, t1, n, n1, z
  <2>10. MeasuresUp(e.file, t1, n1, ofds[o], z)
    BY <2>9 DEF MeasuresUp
  <2> QED  BY <2>10 DEF t1, n1, z
<1> QED  BY <1>1, <1>6, <1>7, TurnedFrom

LEMMA TurningCounts ==
  ASSUME Exact, TypedInv', LifeInv', NEW p \in Pid, NEW r, NEW g, NEW name, NEW new,
         Turning(p, r, g, name, new), NEW s, s = ProcMap[g], ProcMap[p] = s, ProcMap'[g] = s
  PROVE  CountsOn(g)'
<1>1. /\ TypedInv /\ LifeInv /\ CountsOn(g) /\ g \in Pid /\ group[p] = g /\ group[g] = g
      /\ stop[p].event = "syscall" /\ stop'[p].event = "running"
      /\ Calls(g)' = Calls(g) \ {p} /\ UNCHANGED <<kfds, ofds>>
      /\ \A q \in Calls(g) : q # p => stop'[q] = stop[q]
      /\ \A q \in Pid \ {p} : stop'[q] = stop[q]
  BY DEF Exact, Turning
<1>2. \A q \in Calls(g)' : Sized(stop[q].regs, kfds[g])'
  <2> SUFFICES ASSUME NEW q \in Calls(g), q # p, NEW x, x = stop'[q].regs
               PROVE  Sized(x, kfds[g])'
    BY <1>1
  <2>1. Sized(x, kfds[g])
    BY <1>1 DEF CountsOn
  <2> QED  BY <1>1, <2>1 DEF Sized
<1>3. Measures(g, Busy(g))'
  BY TurningMeasures
<1>4. stop'[g].event \notin {"fork", "exec"}
  <2>1. CASE g = p
    BY <1>1, <2>1
  <2>2. CASE g # p
    <3>1. stop[p] # Absent /\ stop[p].event # "born"
      BY <1>1, Events
    <3>2. stop[g].event \notin {"fork", "exec"}
      BY <1>1, <2>2, <3>1, LonersAreApart DEF TypedInv
    <3> QED  BY <1>1, <2>2, <3>2
  <2> QED  BY <2>1, <2>2
<1> QED  BY <1>2, <1>3, <1>4 DEF CountsOn

\* A file that has been opened for writing has not been written to.
LEMMA FreshRests ==
  ASSUME TypedInv', LifeInv', NEW p \in Pid, NEW r, NEW g, NEW name, NEW new,
         Turning(p, r, g, name, new), NEW s, ProcMap'[g] = s,
         NEW e, e \in Fresh(r, name), e \in Entry
  PROVE  Top(s, e)' - e.file.InitSize = 0
<1>1. /\ Follows(r) /\ e.slots = {r.ret} /\ e.file = NewFileState(name, r.flags, length[name])
  BY DEF Fresh
<1>2. /\ g \in Pid /\ Live(g) /\ RegsTyped(r) /\ group' = group /\ group[p] = g /\ group[g] = g
      /\ stop'[p].event = "running"
  BY DEF Turning
<1>3. Via(s, e.slots, {"write"} \cup Naming)' = {}
  <2> SUFFICES ASSUME NEW t, t = e.slots, NEW nrs, nrs = {"write"} \cup Naming
               PROVE  Via(s, t, nrs)' = {}
    OBVIOUS
  <2>1. Live(g)' /\ ViaInv'
    BY <1>2, ViaAreNext DEF Live
  <2>2. Via(ProcMap[g], t, nrs)' = Pending(g, t, nrs)'
    BY <1>2, <2>1 DEF ViaInv
  <2>3. Pending(g, t, nrs)' = Pending(g, {}, nrs) \ {p}
    <3>1. r.nr \in {"open", "creat"}
      BY <1>1 DEF Follows
    <3>2. \A fd : fd \in t \ {} \/ fd \in {} \ t => fd \in Changes(r)
      BY <1>1, <1>2, <3>1, ChangesAre
    <3>3. nrs \cap {"open", "creat"} = {}
      BY DEF Naming
    <3> QED  BY <3>2, <3>3, TurningPending
  <2> QED  BY <2>2, <2>3 DEF Pending
<1>4. Top(s, e)' - e.file.InitSize = GetOutputSize(e.file)
  BY <1>3, RestIsNext DEF RestInv
<1>5. e.file.MaxPos = 0 /\ e.file.InitSize \in Nat
  BY <1>1 DEF NewFileState, Entry, TFileState, Size
<1> QED  BY <1>4, <1>5 DEF GetOutputSize

\* The entries that are left are as many as before.
LEMMA LeftApart ==
  ASSUME NEW r, RegsTyped(r), NEW table, Slotted(table), NEW h,
         \A f \in Left(r, table) : Becomes(r, f, h[f]), NEW name
  PROVE  /\ \A x, y \in Left(r, table) : h[x] = h[y] => x = y
         /\ Fresh(r, name) \cap {h[f] : f \in Left(r, table)} = {}
<1>1. \A x \in Left(r, table) : x \in table /\ \E c \in x.slots : c \notin Gone(r)
  BY DEF Left, LastRefs
<1>2. \A x \in Left(r, table) : h[x].slots = (x.slots \ Gone(r)) \cup Joined(r, x.slots)
  BY DEF Becomes
<1>3. ASSUME NEW x \in Left(r, table), NEW y \in Left(r, table), h[x] = h[y]
      PROVE  x = y
  <2>1. PICK c \in x.slots : c \notin Gone(r)
    BY <1>1
  <2>2. c \in (y.slots \ Gone(r)) \cup Joined(r, y.slots)
    BY <1>2, <1>3, <2>1
  <2>3. c \in Joined(r, y.slots) => c \in y.slots
    BY <2>1 DEF Joined, Gone, Dups, NewFd, Follows
  <2> QED  BY <1>1, <2>1, <2>2, <2>3 DEF Slotted
<1>4. ASSUME NEW x \in Left(r, table), h[x] \in Fresh(r, name)
      PROVE  FALSE
  <2>1. Follows(r) /\ h[x].slots = {r.ret}
    BY <1>4 DEF Fresh
  <2>2. Gone(r) = {r.ret} /\ Joined(r, x.slots) = {}
    BY <2>1, ChangesAre DEF Joined, Follows
  <2> QED  BY <1>2, <2>1, <2>2
<1> QED  BY <1>3, <1>4

\* What is recorded of the entries that go is what they were due.
LEMMA LastRecorded ==
  ASSUME Exact, NEW p \in Pid, NEW r, NEW g, NEW name, NEW new,
         Turning(p, r, g, name, new), NEW s, s = ProcMap[g], NEW T, T = Table(p),
         NEW B, B = LastRefs(T, Gone(r)), NEW w, Summable(w, B),
         \A e \in B : w[e] = Top(s, e) - e.file.InitSize
  PROVE  SumOf(w, B) = IF Follows(r) THEN 0 ELSE OutputOf(B)
<1>1. /\ TypedInv /\ LifeInv /\ (\A x \in Pid : AgreesOn(x)) /\ g \in Pid /\ Live(g)
      /\ T \in SUBSET Entry /\ Slotted(T) /\ RegsTyped(r) /\ p \in Calls(g) /\ stop[p].regs = r
      /\ \A q \in Calls(g) : q # p => Changes(r) \cap Slots(stop[q].regs) = {}
      /\ \A q \in Calls(g) : RegsTyped(stop[q].regs)
  BY DEF Exact, Turning, AgreeInv
<1>2. Done(r, T, kfds[g], Followed(g))
  BY <1>1 DEF AgreesOn
<1>3. B \in SUBSET Entry /\ B \subseteq T /\ Slotted(B) /\ \A e \in B : e.slots # {} /\ e.slots \subseteq Gone(r)
  BY <1>1 DEF LastRefs, Slotted
<1>4. CASE Follows(r)
  <2>1. r.nr \in {"open", "creat"} /\ Gone(r) = {r.ret}
    BY <1>1, <1>4, ChangesAre DEF Follows
  <2>2. B = {}
    <3> SUFFICES ASSUME NEW e \in B PROVE FALSE
      OBVIOUS
    <3>1. r.ret \in e.slots /\ e \in T
      BY <1>3, <2>1
    <3>2. r.ret \in OpenSlots(T)
      BY <3>1 DEF OpenSlots
    <3> QED  BY <1>2, <2>1, <3>2 DEF Done
  <2> QED  BY <1>4, <2>2, SumOfNone
<1>5. CASE ~Follows(r)
  <2>1. ASSUME NEW e \in B
        PROVE  w[e] = GetOutputSize(e.file)
    <3>1. Via(s, e.slots, {"write"} \cup Naming) = Pending(g, e.slots, {"write"} \cup Naming)
      BY <1>1, ViaAre DEF ViaInv
    <3>2. ASSUME NEW q \in Pending(g, e.slots, {"write"} \cup Naming)
          PROVE  FALSE
      <4>1. /\ q \in Calls(g) /\ stop[q].regs.nr \in {"write"} \cup Naming
            /\ stop[q].regs.fd \in e.slots
        BY <3>2 DEF Pending
      <4>2. stop[q].regs.fd \in Changes(r)
        BY <1>1, <1>3, <4>1, ChangesAre
      <4>3. stop[q].regs.fd \in Slots(stop[q].regs)
        BY <1>1, <4>1, ChangesAre DEF Naming
      <4>4. q # p
        <5>1. r.nr \in {"write"} \cup Naming => Changes(r) = {}
          BY DEF Changes, Naming, Dups, NewFd
        <5> QED  BY <1>1, <4>1, <4>2, <5>1
      <4> QED  BY <1>1, <4>1, <4>2, <4>3, <4>4
    <3>3. Via(s, e.slots, {"write"} \cup Naming) = {}
      BY <3>1, <3>2
    <3>4. Top(s, e) - e.file.InitSize = GetOutputSize(e.file)
      BY <1>3, <3>3, RestIs DEF RestInv
    <3> QED  BY <3>4
  <2>2. \A e \in B : Outputs(B)[e] = w[e]
    BY <2>1 DEF Outputs
  <2>3. SumOf(Outputs(B), B) = SumOf(w, B)
    BY <2>2, SumSame
  <2>4. OutputOf(B) = SumOf(Outputs(B), B)
    BY <1>3, OutputIsSum
  <2> QED  BY <1>5, <2>3, <2>4
<1> QED  BY <1>4, <1>5

\* The table owes what it did, but for x, which has been recorded.
Owes(s, new, T, x) ==
  Due(s, new)' + x = Due(s, T) /\ x \in Nat /\ Due(s, new)' \in Nat /\ Due(s, T) \in Nat

LEMMA TurnedDue ==
  ASSUME Exact, TypedInv', LifeInv', CallsReach, CallsReach', NEW p \in Pid, NEW r, NEW g, NEW name,
         NEW new, Turning(p, r, g, name, new),
         NEW s, s = ProcMap[g], ProcMap[p] = s, ProcMap'[g] = s, NEW T, T = Table(p),
         NEW B, B = LastRefs(T, Gone(r)), NEW x, x = IF Follows(r) THEN 0 ELSE OutputOf(B)
  PROVE  Owes(s, new, T, x)
<1>1. /\ T \in SUBSET Entry /\ Slotted(T) /\ new \in SUBSET Entry /\ Slotted(new) /\ RegsTyped(r)
      /\ Turned(r, name, T, new)
  BY DEF Turning
<1>2. DuesInv /\ DuesInv'
  BY DuesAre, DuesAreNext
<1>3. PICK w : w = Dues(s, T)
  OBVIOUS
<1>4. /\ Summable(w, T) /\ Due(s, T) = SumOf(w, T) /\ Due(s, T) \in Nat
      /\ \A e \in T : w[e] = Top(s, e) - e.file.InitSize
  BY <1>1, <1>2, <1>3 DEF DuesInv
<1> DEFINE v == Dues(s, new)'
<1>5. /\ Summable(v, new) /\ Due(s, new)' = SumOf(v, new) /\ Due(s, new)' \in Nat
      /\ \A e \in new : v[e] = Top(s, e)' - e.file.InitSize
  BY <1>1, <1>2 DEF DuesInv
<1> HIDE DEF v
<1> DEFINE A == Left(r, T)
<1>6. T = A \cup B /\ A \cap B = {}
  BY DEF Left, LastRefs
<1>7. PICK h : /\ \A f \in A : Becomes(r, f, h[f])
               /\ new = {h[f] : f \in A} \cup Fresh(r, name)
  BY <1>1 DEF Turned
<1> DEFINE I == {h[f] : f \in A}
           F == Fresh(r, name)
<1>8. (\A y, z \in A : h[y] = h[z] => y = z) /\ F \cap I = {}
  BY <1>1, <1>7, LeftApart
<1>9. ASSUME NEW f \in A PROVE v[h[f]] = w[f]
  <2>1. f \in Table(p) /\ f \in T /\ Becomes(r, f, h[f]) /\ h[f] \in new
    BY <1>7 DEF Left
  <2>2. PICK e : e = h[f]
    OBVIOUS
  <2>3. Handed(r, s, f, e)
    BY <2>1, <2>2, TurnedTop
  <2>4. Top(s, e)' = Top(s, f) /\ e.file.InitSize = f.file.InitSize
    BY <2>3 DEF Handed
  <2>5. v[e] = Top(s, e)' - e.file.InitSize /\ w[f] = Top(s, f) - f.file.InitSize
    BY <1>4, <1>5, <2>1, <2>2
  <2> QED  BY <2>2, <2>4, <2>5
<1>10. ASSUME NEW e \in F PROVE v[e] = 0
  <2>1. e \in new /\ e \in Entry
    BY <1>1, <1>7
  <2>2. Top(s, e)' - e.file.InitSize = 0
    BY <2>1, FreshRests
  <2> QED  BY <1>5, <2>1, <2>2
<1> HIDE DEF A, I, F
<1>11. SumOf(w, T) = SumOf(w, A) + SumOf(w, B) /\ SumOf(w, A) \in Nat /\ SumOf(w, B) \in Nat
       /\ Summable(w, A) /\ Summable(w, B)
  <2>1. Summable(w, A \cup B)
    BY <1>4, <1>6
  <2>2. /\ SumOf(w, A \cup B) = SumOf(w, A) + SumOf(w, B) /\ SumOf(w, A) \in Nat /\ SumOf(w, B) \in Nat
        /\ Summable(w, A) /\ Summable(w, B)
    BY <1>6, <2>1, SumSplit
  <2> QED  BY <1>6, <2>2
<1>12. SumOf(v, I) = SumOf(w, A)
  BY <1>8, <1>9, <1>11, SumImage DEF I
<1>13. SumOf(v, new) = SumOf(v, I) + SumOf(v, F) /\ Summable(v, F)
  <2>1. new = I \cup F
    BY <1>7 DEF I, F
  <2>2. Summable(v, I \cup F) /\ I \cap F = {}
    BY <1>5, <1>8, <2>1
  <2>3. SumOf(v, I \cup F) = SumOf(v, I) + SumOf(v, F) /\ Summable(v, F)
    BY <2>2, SumSplit
  <2> QED  BY <2>1, <2>3
<1>14. SumOf(v, F) = 0
  <2>1. IsFiniteSet(F)
    BY <1>13 DEF Summable
  <2> QED  BY <1>10, <2>1, SumZeros
<1>15. SumOf(w, B) = x
  <2>1. \A e \in B : w[e] = Top(s, e) - e.file.InitSize
    BY <1>4, <1>6
  <2>2. SumOf(w, B) = IF Follows(r) THEN 0 ELSE OutputOf(B)
    BY <1>11, <2>1, LastRecorded
  <2> QED  BY <2>2
<1> QED  BY <1>4, <1>5, <1>11, <1>12, <1>13, <1>14, <1>15 DEF Owes

\* The other processes.
LEMMA AnsweredCounts ==
  ASSUME Exact, NEW p \in Pid, NEW new, Answered(p, new),
         UNCHANGED <<files, use, kfds, ofds>>, NEW g \in Pid, group[p] # g
  PROVE  CountsOn(g)'
<1>0. /\ TypedInv /\ LifeInv /\ KernelTyped /\ CountsOn(g) /\ StandsOn(g)
  BY DEF Exact, TypedInv
<1>1. /\ stop[p].event = "syscall" /\ stop' = [stop EXCEPT ![p] = Running]
      /\ UNCHANGED <<ProcMap, GroupLeaders, group>> /\ Fds' = [Fds EXCEPT ![ProcMap[p]] = new]
  BY DEF Answered
<1>2. Running.event = "running" /\ stop[p] # Absent /\ stop[p].event # "born"
  BY <1>1, Events
<1>3. /\ \A q \in Pid : stop'[q] = IF q = p THEN Running ELSE stop[q]
      /\ group' = group /\ ProcMap' = ProcMap
  BY <1>0, <1>1 DEF LifeInv, ThreadInv
<1>4. /\ p \in Registered /\ group[p] \in Pid
      /\ \A q \in Registered : ProcMap[q] = ProcMap[p] <=> group[q] = group[p]
  BY <1>0, <1>2, ActorsAreThere, LeadersAreKnown DEF TypedInv
<1>5. Calls(g)' = Calls(g) /\ \A q \in Calls(g) : stop'[q] = stop[q]
  <2>1. \A q \in Calls(g) : q # p
    BY DEF Calls
  <2>2. \A q \in Pid : group'[q] = g /\ stop'[q].event = "syscall" <=>
                         group[q] = g /\ stop[q].event = "syscall"
    BY <1>2, <1>3
  <2>3. \A q \in Calls(g) : q \in Pid
    BY DEF Calls
  <2> QED  BY <1>3, <2>1, <2>2, <2>3 DEF Calls
<1>6. Live(g)' => Live(g)
  BY <1>2, <1>3 DEF Live
<1>7. stop'[g].event \in {"fork", "exec"} => g # p /\ stop'[g] = stop[g] /\ group[g] # group[p]
  <2> SUFFICES ASSUME stop'[g].event \in {"fork", "exec"}
               PROVE  g # p /\ stop'[g] = stop[g] /\ group[g] # group[p]
    OBVIOUS
  <2>1. g # p /\ stop'[g] = stop[g]
    BY <1>2, <1>3
  <2> QED  BY <1>0, <1>2, <2>1, LonersAreApart
<1>8. CASE ProcMap[g] # ProcMap[p]
  <2>1. Quiet(ProcMap[g])
    BY <1>3, <1>8 DEF Quiet
  <2>2. g \in Registered => Table(g)' = Table(g)
    <3>1. g \in Registered => ProcMap[g] \in ProcState
      BY <1>0, TableOfRegistered DEF TypedInv
    <3> QED  BY <1>0, <1>1, <1>3, <1>8, <3>1 DEF TypedInv, ContextTyped, Table
  <2>3. Live(g) => g \in Registered
    BY <1>0, LiveAreKnown
  <2>4. stop[g].event = "exec" => g \in Registered
    <3> SUFFICES ASSUME stop[g].event = "exec" PROVE g \in Registered
      OBVIOUS
    <3>1. stop[g] # Absent /\ stop[g].event # "born"
      BY Events
    <3> QED  BY <1>0, <3>1, LeadersAreKnown
  <2>5. Live(g)' \/ stop'[g].event = "exec" => Table(g)' = Table(g) /\ ProcMap'[g] = ProcMap[g]
    BY <1>3, <1>6, <1>7, <2>2, <2>3, <2>4
  <2>6. UNCHANGED <<files, kfds, ofds>>
    OBVIOUS
  <2>7. stop'[g].event \in {"fork", "exec"} => stop'[g] = stop[g] /\ group'[g] = group[g]
    BY <1>3, <1>7
  <2> QED  BY <1>0, <1>5, <1>6, <2>1, <2>5, <2>6, <2>7, BystanderCounts
<1>9. CASE ProcMap[g] = ProcMap[p]
  <2>1. g \in Registered /\ group[g] = group[p]
    BY <1>4, <1>9 DEF Registered
  <2>2. group'[g] # g
    BY <1>3, <2>1
  <2>3. ~Live(g)'
    BY <2>2 DEF Live
  <2>4. Calls(g) = {}
    <3> SUFFICES ASSUME NEW q \in Calls(g) PROVE FALSE
      OBVIOUS
    <3>1. q \in Pid /\ group[q] = g /\ stop[q].event = "syscall"
      BY DEF Calls
    <3>2. stop[q] # Absent
      BY <3>1, Events
    <3>3. group[group[q]] = group[q]
      BY <1>0, <3>1, <3>2, ActorsAreThere
    <3> QED  BY <1>3, <2>2, <3>1, <3>3
  <2>5. stop'[g].event \notin {"fork", "exec"}
    BY <1>7, <2>1
  <2> QED  BY <1>5, <2>3, <2>4, <2>5 DEF CountsOn
<1> QED  BY <1>8, <1>9

\* With the process that is served.
LEMMA TurningCountsKeep ==
  ASSUME Exact, TypedInv', LifeInv', OutputSize' \in Nat, NEW p \in Pid,
         NEW r, NEW g, NEW name, NEW new, NEW s, s = ProcMap[p],
         Answered(p, new), Turns(p, r, name, new), Turning(p, r, g, name, new),
         UNCHANGED <<files, use, kfds, ofds, grown, quirks>>
  PROVE  CountsKeep
<1>0. /\ TypedInv /\ KernelTyped /\ KernelTyped' /\ LifeInv /\ OutputSize \in Nat
      /\ (\A x \in Pid : CountsOn(x)) /\ UNCHANGED <<files, use, kfds, ofds>>
  BY DEF Exact, TypedInv
<1>1. g \in Pid /\ group[p] = g /\ group[g] = g /\ Table(g) = Table(p) /\ stop[p].event = "syscall"
  BY DEF Turning
<1>2. stop[p] # Absent /\ stop[p].event # "born" /\ Running.event = "running"
  BY <1>1, Events
<1>3. /\ stop' = [stop EXCEPT ![p] = Running] /\ ProcMap' = ProcMap
      /\ Fds' = [Fds EXCEPT ![ProcMap[p]] = new]
  BY DEF Answered
<1>4. /\ p \in Registered /\ ProcMap[g] = s /\ s \in ProcState /\ ProcMap[p] = s
  BY <1>0, <1>1, <1>2, ActorsAreThere, LeadersAreKnown, TableOfRegistered DEF TypedInv
<1>5. s = ProcMap[g] /\ ProcMap[p] = s /\ ProcMap'[g] = s
  BY <1>3, <1>4
<1>6. CountsOn(g)'
  BY <1>5, TurningCounts
<1>7. ASSUME NEW x \in Pid PROVE CountsOn(x)'
  <2>1. CASE x = g
    BY <1>6, <2>1
  <2>2. CASE x # g
    BY <1>0, <1>1, <2>2, AnsweredCounts
  <2> QED  BY <2>1, <2>2
<1>8. CallsReach /\ CallsReach'
  BY <1>0, <1>7, ReachIs, ReachIsNext
<1>9. StockInv /\ StockInv'
  BY <1>0, <1>8, StockIs, StockIsNext
<1>10. PICK T : T = Table(p)
  OBVIOUS
<1>11. PICK B : B = LastRefs(T, Gone(r))
  OBVIOUS
<1>12. PICK z : z = IF Follows(r) THEN 0 ELSE OutputOf(B)
  OBVIOUS
<1>13. /\ Due(s, new)' + z = Due(s, T) /\ z \in Nat
       /\ Due(s, new)' \in Nat /\ Due(s, T) \in Nat
  <2>1. Owes(s, new, T, z)
    BY <1>5, <1>8, <1>10, <1>11, <1>12, TurnedDue
  <2> QED  BY <2>1 DEF Owes
<1>14. OutputSize' = OutputSize + z
  BY <1>10, <1>11, <1>12 DEF Turns
<1> DEFINE X == {s}
           R == Allocated \ {s}
<1>15. Allocated = R \cup X /\ R \cap X = {} /\ Allocated' = Allocated
  <2>1. s \in Allocated
    BY <1>4 DEF Allocated
  <2>2. Allocated' = Allocated
    BY <1>3 DEF Allocated, Registered
  <2> QED  BY <2>1, <2>2
<1>16. ASSUME NEW x \in R PROVE Fds'[x] = Fds[x] /\ Quiet(x)
  <2>1. x \in ProcState /\ x # s
    BY <1>9 DEF StockInv
  <2>2. Fds'[x] = Fds[x]
    BY <1>0, <1>3, <1>4, <2>1 DEF TypedInv, ContextTyped
  <2>3. \A q \in Pid : stop'[q] = IF q = p THEN Running ELSE stop[q]
    BY <1>0, <1>3 DEF LifeInv, ThreadInv
  <2>4. Quiet(x)
    BY <1>3, <1>4, <2>1, <2>3 DEF Quiet
  <2> QED  BY <2>2, <2>4
<1>17. SumOf(Stock, X) = Due(s, T) /\ SumOf(Stock', X) = Due(s, new)'
  <2>1. Fds[s] = T /\ Fds'[s] = new
    BY <1>0, <1>3, <1>4, <1>10 DEF TypedInv, ContextTyped, Table
  <2>2. Stock[s] = Due(s, T)
    BY <1>4, <1>9, <2>1 DEF StockInv
  <2>3. Stock'[s] = Due(s, Fds[s])'
    BY <1>4, <1>9 DEF StockInv
  <2>4. Due(s, Fds[s])' = Due(s, new)'
    BY <2>1 DEF Due, Dues
  <2>5. Stock[s] \in Nat /\ Stock'[s] \in Nat
    BY <1>13, <2>2, <2>3, <2>4
  <2> QED  BY <2>2, <2>3, <2>4, <2>5, SumOfOne
<1> HIDE DEF X, R
<1>18. OutputSize' + SumOf(Stock', X) = OutputSize + SumOf(Stock, X)
  <2>1. PICK y \in Nat : y = Due(s, new)'
    BY <1>13
  <2>2. PICK t \in Nat : t = Due(s, T)
    BY <1>13
  <2>3. y + z = t /\ z \in Nat /\ SumOf(Stock', X) = y /\ SumOf(Stock, X) = t
    BY <1>13, <1>17, <2>1, <2>2
  <2> QED  BY <1>0, <1>14, <2>3
<1>19. Counted' = Counted
  BY <1>0, <1>8, <1>15, <1>16, <1>18, CountedHandled
<1>20. UNCHANGED <<files, kfds, ofds, grown, quirks>>
  OBVIOUS
<1> QED  BY <1>7, <1>19, <1>20, HandlersCountKeep

LEMMA HandleSyscallCountsKeep ==
  ASSUME Exact, TypedInv', LifeInv', OutputSize' \in Nat, NEW p \in Pid, HandleSyscall(p),
         UNCHANGED <<files, use, kfds, ofds, grown, quirks>>
  PROVE  CountsKeep
<1>0. /\ TypedInv /\ LifeInv /\ OutputSize \in Nat /\ AgreeInv
      /\ (\A x \in Pid : StandsOn(x) /\ AgreesOn(x))
  BY DEF Exact, AgreeInv
<1>1. stop[p].event = "syscall"
  BY DEF HandleSyscall
<1>2. /\ Running.event = "running" /\ Absent.event = "absent"
      /\ stop[p] # Absent /\ stop[p].event # "born"
  BY <1>1, Events
<1>3. PICK r : r = stop[p].regs
  OBVIOUS
<1>4. PICK g : g = group[p]
  OBVIOUS
<1>5. PICK name : name = IF Follows(r) THEN At(p, r.ret).name ELSE None
  OBVIOUS
<1>6. PICK s : s = ProcMap[p]
  OBVIOUS
<1>7. g \in Pid /\ group[g] = g /\ p \in Calls(g)
  <2>1. group[p] \in Pid /\ group[group[p]] = group[p]
    BY <1>0, <1>2, ActorsAreThere DEF TypedInv
  <2> QED  BY <1>1, <1>4, <2>1 DEF Calls
<1>8. Follows(r) => IsOpen(p, r.ret)
  <2> SUFFICES ASSUME Follows(r) PROVE IsOpen(p, r.ret)
    OBVIOUS
  <2>1. r.nr \in {"open", "creat"}
    BY DEF Follows
  <2>2. Done(r, Table(p), kfds[g], Followed(g))
    BY <1>0, <1>3, <1>7 DEF AgreesOn
  <2> QED  BY <1>4, <2>1, <2>2 DEF Done, IsOpen, Descriptors
<1>9. stop'[p] # Absent
  <2>1. stop' = [stop EXCEPT ![p] = Running]
    BY <1>3, <1>8 DEF HandleSyscall, Resume
  <2> QED  BY <1>0, <1>2, <2>1 DEF LifeInv, ThreadInv
<1>10. UNCHANGED <<files, use, kfds, ofds>>
  OBVIOUS
<1>11. PICK new : ContextTyped' /\ Answered(p, new) /\ Turns(p, r, name, new)
  BY <1>0, <1>3, <1>5, <1>9, <1>10, SyscallIsTurned
<1>12. Turning(p, r, g, name, new)
  <2>1. \A a, b \in Calls(g) : a # b => Apart(stop[a].regs, stop[b].regs)
    BY <1>0, <1>7 DEF StandsOn, Commute
  <2> QED  BY <1>0, <1>3, <1>4, <1>5, <1>10, <1>11, <2>1, AnsweredTurns
<1> QED  BY <1>6, <1>11, <1>12, TurningCountsKeep

------------------------------------------------------------------------------
(* The steps *)

\* Everyone has gone.
LEMMA OverEnds ==
  ASSUME Over
  PROVE  /\ \A p \in Pid : ~ProcessStep(p) /\ ~TakeSignal(p) /\ ~TracerStep(p)
         /\ \A g \in Pid : CountsOn(g)
<1>1. Running.event = "running" /\ Absent.event = "absent" /\ Running # Absent
  BY Events
<1>2. \A p \in Pid : stop[p] = Absent
  BY DEF Over
<1>3. \A p \in Pid : ~ProcessStep(p) /\ ~TakeSignal(p)
  BY <1>1, <1>2 DEF ProcessStep, TakeSignal
<1>4. \A p \in Pid : ~TracerStep(p)
  BY <1>1, <1>2 DEF TracerStep, HandleSyscall, HandleFork, HandleClone, HandleExec, HandleExit
<1>5. \A g \in Pid : Calls(g) = {} /\ ~Live(g) /\ stop[g].event \notin {"fork", "exec"}
  BY <1>1, <1>2 DEF Calls, Live
<1>6. \A g \in Pid : CountsOn(g)
  BY <1>5 DEF CountsOn
<1> QED  BY <1>3, <1>4, <1>6

\* What the total is then.
LEMMA CountsOfNext ==
  ASSUME TypedInv, LifeInv, TypedInv', LifeInv', OutputSize \in Nat, OutputSize' \in Nat,
         grown \in Nat, grown' \in Nat, quirks \subseteq quirks', CountInv,
         Ordinary' => CountsKeep
  PROVE  CountInv'
<1> SUFFICES ASSUME Ordinary' PROVE CountInv'
  BY DEF CountInv, Ordinary
<1>1. Ordinary
  BY DEF Ordinary
<1>2. /\ Counted <= Written /\ (quirks = {} => Counted = Written)
      /\ DescriptionsMeasure /\ (\A g \in Pid : CountsOn(g))
  BY <1>1 DEF CountInv, Ordinary
<1>3. /\ DescriptionsMeasure' /\ (\A g \in Pid : CountsOn(g)')
      /\ Counted' + Written <= Counted + Written'
      /\ quirks' = {} => Counted' + Written = Counted + Written'
  BY DEF CountsKeep
<1>4. KernelTyped /\ KernelTyped'
  BY DEF TypedInv
<1>5. CallsReach /\ CallsReach'
  BY <1>2, <1>3, <1>4, ReachIs, ReachIsNext
<1>6. StockInv /\ StockInv'
  BY <1>5, StockIs, StockIsNext
<1>7. WrittenInv /\ WrittenInv'
  BY <1>2, <1>3, <1>4, WrittenIs, WrittenIsNext
<1>8. Counted \in Int /\ Counted' \in Int /\ Written \in Int /\ Written' \in Int
  BY <1>6, <1>7 DEF StockInv, WrittenInv
<1>9. Counted' <= Written'
  <2>1. PICK a \in Int, b \in Int, c \in Int, d \in Int :
           a = Counted /\ b = Written /\ c = Counted' /\ d = Written'
    BY <1>8
  <2>2. a <= b /\ c + b <= a + d
    BY <1>2, <1>3, <2>1
  <2>3. c <= d
    BY <2>2
  <2> QED  BY <2>1, <2>3
<1>10. quirks' = {} => Counted' = Written'
  <2> SUFFICES ASSUME quirks' = {} PROVE Counted' = Written'
    OBVIOUS
  <2>1. quirks = {}
    OBVIOUS
  <2>2. Counted = Written /\ Counted' + Written = Counted + Written'
    BY <1>2, <1>3, <2>1
  <2> QED  BY <1>8, <2>2
<1> QED  BY <1>3, <1>9, <1>10 DEF CountInv

LEMMA StuttersCount ==
  ASSUME TypedInv, LifeInv, TypedInv', LifeInv', OutputSize \in Nat, grown \in Nat,
         DescriptionsMeasure, \A g \in Pid : CountsOn(g), Over \/ (\A g \in Pid : StandsOn(g)),
         UNCHANGED vars
  PROVE  CountsKeep
<1>1. /\ UNCHANGED <<contextVars, files, kfds, ofds, stop, group, grown, quirks>>
      /\ UNCHANGED <<files, kfds, ofds>> /\ size' = size /\ ofds' = ofds
      /\ OutputSize' = OutputSize /\ Fds' = Fds /\ ProcMap' = ProcMap
      /\ stop' = stop /\ group' = group /\ grown' = grown /\ quirks' = quirks
  BY DEF vars, kernelVars, contextVars, files
<1>2. KernelTyped /\ KernelTyped' /\ OutputSize' \in Nat /\ grown' \in Nat
  BY <1>1 DEF TypedInv
<1>3. DescriptionsMeasure'
  BY <1>1, <1>2, NothingMeasured
<1>4. \A s : Quiet(s)
  BY <1>1 DEF Quiet
<1>5. \A g \in Pid : CountsOn(g)'
  <2>1. CASE Over
    <3>1. \A p \in Pid : stop'[p] = Absent
      BY <1>1, <2>1 DEF Over
    <3>2. Absent.event = "absent"
      BY Events
    <3>3. \A g \in Pid : Calls(g)' = {} /\ ~Live(g)' /\ stop'[g].event \notin {"fork", "exec"}
      BY <3>1, <3>2 DEF Calls, Live
    <3> QED  BY <3>3 DEF CountsOn
  <2>2. CASE \A g \in Pid : StandsOn(g)
    <3> SUFFICES ASSUME NEW g \in Pid PROVE CountsOn(g)'
      OBVIOUS
    <3>1. Calls(g)' = Calls(g) /\ (Live(g)' => Live(g)) /\ Table(g)' = Table(g)
      BY <1>1 DEF Calls, Live, Table
    <3> QED  BY <1>1, <1>4, <2>2, <3>1, BystanderCounts
  <2> QED  BY <2>1, <2>2
<1>6. CallsReach /\ CallsReach'
  BY <1>2, <1>5, ReachIs, ReachIsNext
<1> DEFINE none == {}
           R == Allocated
<1>7. Allocated = R \cup none /\ R \cap none = {} /\ Allocated' = R \cup none
  BY <1>1 DEF Allocated, Registered
<1>8. SumOf(Stock, none) = 0 /\ SumOf(Stock', none) = 0
  BY SumOfNone
<1> HIDE DEF none, R
<1>9. OutputSize' + SumOf(Stock', none) = OutputSize + SumOf(Stock, none)
  BY <1>1, <1>8
<1>10. Counted' = Counted
  BY <1>1, <1>2, <1>4, <1>6, <1>7, <1>9, CountedHandled
<1>11. WrittenInv /\ WrittenInv'
  BY <1>2, <1>3, WrittenIs, WrittenIsNext
<1>12. Written' = Written
  BY <1>1, <1>11, NothingWritten
<1>13. Counted \in Int /\ Written \in Int
  <2>1. StockInv
    BY <1>6, StockIs
  <2> QED  BY <1>11, <2>1 DEF StockInv, WrittenInv
<1>14. Counted' + Written <= Counted + Written' /\ Counted' + Written = Counted + Written'
  BY <1>10, <1>12, <1>13
<1> QED  BY <1>3, <1>5, <1>14 DEF CountsKeep

LEMMA StepsKeepCounts ==
  ASSUME AccountingInv, PositionInv, CountInv, TypeOK, TypeOK', [Next]_vars
  PROVE  CountInv'
<1>0. /\ TypedInv /\ LifeInv /\ OutputSize \in Nat /\ OutputSize' \in Nat
      /\ grown \in Nat /\ grown' \in Nat
  BY DEF AccountingInv, TypeOK
<1>1. Keeps
  BY <1>0, ProcessStepKeeps, TakeSignalKeeps, TracerStepKeeps, NothingKeeps DEF Next, AllGone
<1>2. TypedInv' /\ LifeInv' /\ quirks \subseteq quirks'
  BY <1>1 DEF Keeps
<1>3. ASSUME Ordinary' PROVE CountsKeep
  <2>1. Ordinary /\ Without(PositionKinds) /\ Without({"cloexec", "race"})
    BY <1>2, <1>3 DEF Ordinary, Without, PositionKinds
  <2>2. DescriptionsMeasure /\ \A g \in Pid : CountsOn(g)
    BY <2>1 DEF CountInv, Ordinary
  <2>3. ~Over => AgreeInv /\ OneOwner /\ LengthsAgree /\ OneWriter /\ \A g \in Pid : StandsOn(g)
    BY <2>1 DEF AccountingInv, PositionInv
  <2>4. ~Over => Exact
    BY <1>0, <2>2, <2>3 DEF Exact
  <2>5. CASE UNCHANGED vars
    BY <1>0, <1>2, <2>2, <2>3, <2>5, StuttersCount
  <2>6. ASSUME NEW p \in Pid, ProcessStep(p) \/ TakeSignal(p) PROVE CountsKeep
    <3>1. ~Over
      BY <2>6, OverEnds
    <3> QED  BY <1>0, <1>2, <1>3, <2>4, <2>6, <3>1, KernelCountsKeep
  <2>7. ASSUME NEW p \in Pid, TracerStep(p) PROVE CountsKeep
    <3>1. ~Over
      BY <2>7, OverEnds
    <3>2. Exact /\ UNCHANGED <<files, use, kfds, ofds, grown, quirks>>
      BY <2>4, <2>7, <3>1 DEF TracerStep
    <3>3. CASE HandleSyscall(p)
      BY <1>0, <1>2, <3>2, <3>3, HandleSyscallCountsKeep
    <3>4. CASE HandleFork(p)
      BY <1>0, <1>2, <3>2, <3>4, HandleForkCountsKeep
    <3>5. CASE HandleClone(p)
      BY <1>0, <1>2, <3>2, <3>5, HandleCloneCountsKeep
    <3>6. CASE HandleExec(p)
      BY <1>0, <1>2, <3>2, <3>6, HandleExecCountsKeep
    <3>7. CASE HandleExit(p)
      BY <1>0, <1>2, <3>2, <3>7, HandleExitCountsKeep
    <3> QED  BY <2>7, <3>3, <3>4, <3>5, <3>6, <3>7 DEF TracerStep
  <2> QED  BY <2>5, <2>6, <2>7 DEF Next, AllGone
<1> QED  BY <1>0, <1>2, <1>3, CountsOfNext

------------------------------------------------------------------------------
(* The start *)

\* A file state that has just been made counts for nothing.
LEMMA NothingWrittenYet ==
  ASSUME NEW table \in SUBSET Entry, Slotted(table), \A e \in table : e.file.MaxPos = 0
  PROVE  OutputOf(table) = 0
<1>1. Summable(Outputs(table), table) /\ OutputOf(table) = SumOf(Outputs(table), table)
  BY OutputIsSum
<1>2. \A e \in table : Outputs(table)[e] = 0
  <2> SUFFICES ASSUME NEW e \in table PROVE GetOutputSize(e.file) = 0
    BY DEF Outputs
  <2>1. e.file.InitSize \in Nat
    BY SizeModulusAssumption DEF Entry, TFileState, Size
  <2> QED  BY <2>1 DEF GetOutputSize
<1>3. IsFiniteSet(table)
  BY <1>1 DEF Summable
<1> QED  BY <1>1, <1>2, <1>3, SumZeros

\* One process, whose table has counted for nothing, and no description that
\* has been written through.
LEMMA StartCounted ==
  ASSUME TypedInv, LifeInv, OutputSize = 0, grown = 0,
         \A p \in Pid : ProcMap[p] # None <=> p = TraceePid, TraceePid \in Pid,
         \A g : Calls(g) = {}, \A q \in Pid : stop[q].event # "syscall",
         \A e \in Table(TraceePid) : e.file.MaxPos = 0,
         DescriptionsMeasure, \A o \in Ofd : ofds[o].peak = 0,
         \A g \in Pid : CountsOn(g)
  PROVE  Counted = Written
<1>0. KernelTyped /\ OutputSize \in Nat /\ grown \in Nat
  BY DEF TypedInv
<1>1. CallsReach
  BY <1>0, ReachIs
<1>2. Registered = {TraceePid}
  BY DEF Registered
<1>3. PICK s : s = ProcMap[TraceePid]
  OBVIOUS
<1>4. Allocated = {s}
  BY <1>2, <1>3 DEF Allocated
<1>5. s \in ProcState /\ Table(TraceePid) \in SUBSET Entry /\ Slotted(Table(TraceePid))
  BY <1>2, <1>3, TableOfRegistered DEF TypedInv, SlottedInv, Table
<1>6. Idle(s)
  BY DEF Idle
<1>7. SumOf(Stock, {s}) = 0
  <2>1. SumOf(Stock, {s}) = OutputOf(Table(TraceePid))
    BY <1>0, <1>1, <1>2, <1>3, <1>6, LonerDue
  <2> QED  BY <1>5, <2>1, NothingWrittenYet
<1>8. Counted = 0
  <2> DEFINE none == {}
  <2>1. Allocated = none \cup {s} /\ none \cap {s} = {}
    BY <1>4
  <2>2. SumOf(Stock, none) = 0
    BY SumOfNone
  <2>3. StockInv
    BY <1>0, <1>1, StockIs
  <2> HIDE DEF none
  <2>4. Counted = OutputSize + (SumOf(Stock, none) + SumOf(Stock, {s}))
    BY <2>1, <2>3 DEF StockInv
  <2> QED  BY <1>7, <2>2, <2>4
<1>9. Written = 0
  <2>1. WrittenInv
    BY <1>0, WrittenIs
  <2>2. \A o \in Ofd : Growths(ofds)[o] = 0
    <3> SUFFICES ASSUME NEW o \in Ofd PROVE Growth(ofds[o]) = 0
      BY DEF Growths
    <3>1. ofds[o].init \in Nat
      BY <1>0, DescriptionsMeasured
    <3> QED  BY <3>1 DEF Growth
  <2>3. IsFiniteSet(Ofd)
    BY <2>1 DEF WrittenInv, Summable
  <2>4. SumOf(Growths(ofds), Ofd) = 0
    BY <2>2, <2>3, SumZeros
  <2> QED  BY <2>1, <2>4 DEF WrittenInv
<1> QED  BY <1>8, <1>9

LEMMA StartCounts ==
  ASSUME Init, TypedInv, LifeInv
  PROVE  CountInv
<1>1. /\ TraceePid \in Pid /\ 0 \in Fd /\ None \notin Ofd
      /\ \A i \in use.inherited \ {None} :
           /\ i.file \in Description /\ i.file.name # None /\ ~i.file.split /\ i.file.peak = 0
  BY AccountingAssumption, Zenon DEF Init
<1>2. /\ size = length /\ grown = 0
      /\ stop = [p \in Pid |-> IF p = TraceePid THEN Running ELSE Absent]
      /\ group = [p \in Pid |-> IF p = TraceePid THEN p ELSE None]
  BY DEF Init
<1>3. /\ \A p \in Pid : stop[p] = IF p = TraceePid THEN Running ELSE Absent
      /\ Running.event = "running" /\ Absent.event = "absent"
  BY <1>2, Events
<1>4. (\A g : Calls(g) = {}) /\ \A q \in Pid : stop[q].event \notin {"syscall", "fork", "exec"}
  BY <1>3 DEF Calls
<1>5. \A g \in Pid : Live(g) => g = TraceePid
  BY <1>2, <1>3 DEF Live
<1>6. PICK i \in use.inherited :
        IF i = None
        THEN /\ RegisterTracee(TraceePid, << >>)
             /\ kfds = [p \in Pid |-> AllClosed]
             /\ ofds = [o \in Ofd |-> Free]
             /\ quirks = {}
        ELSE LET o == Min(use.ofds)
             IN  /\ RegisterTracee(TraceePid, [fd \in {0} |-> i.file.name])
                 /\ kfds = [p \in Pid |-> IF p = TraceePid
                                          THEN [AllClosed EXCEPT ![0] = [ofd |-> o, cloexec |-> i.cloexec]]
                                          ELSE AllClosed]
                 /\ ofds = [d \in Ofd |-> IF d = o THEN [i.file EXCEPT !.init = length[i.file.name],
                                                                  !.followed = TRUE]
                                                   ELSE Free]
                 /\ quirks = Kind("cloexec", i.cloexec) \cup
                             Kind("inherited", i.file.append \/ i.file.pos # 0)
  BY DEF Init
<1>7. length \in [Name -> Size] /\ length \in [Name -> Nat]
  BY LengthsAreSizes DEF TypedInv, KernelTyped
<1>8. OutputSize = 0
  BY <1>6 DEF RegisterTracee
<1>9. ASSUME NEW g \in Pid, Live(g) => Measures(g, Busy(g)) PROVE CountsOn(g)
  BY <1>4, <1>9 DEF CountsOn
<1>10. CASE i = None
  <2>1. \A d \in Ofd : ofds[d] = Free
    BY <1>6, <1>10
  <2>2. DescriptionsMeasure /\ \A d \in Ofd : ofds[d].peak = 0
    BY <2>1 DEF DescriptionsMeasure, Free
  <2> DEFINE none == [fd \in {} |-> None]
  <2>3. RegisterTracee(TraceePid, none) /\ none \in [{} -> Name] /\ FillFds(none) = {}
    BY <1>6, <1>10 DEF FillFds
  <2> HIDE DEF none
  <2> DEFINE E == {}
  <2>4. E \in SUBSET Fd /\ none \in [E -> Name]
    BY <2>3
  <2> HIDE DEF E
  <2>5. Table(TraceePid) = {} /\ \A p \in Pid : ProcMap[p] # None <=> p = TraceePid
    BY <1>7, <2>3, <2>4, TraceeRegistered
  <2>6. \A g \in Pid : CountsOn(g)
    BY <1>5, <1>9, <2>5 DEF Measures
  <2>7. Counted = Written
    BY <1>1, <1>2, <1>4, <1>8, <2>2, <2>5, <2>6, StartCounted
  <2>8. Counted <= Written
    <3>1. KernelTyped /\ grown \in Nat
      BY <1>2 DEF TypedInv
    <3>2. Written \in Nat
      BY <2>2, <3>1, WrittenIs DEF WrittenInv
    <3> QED  BY <2>7, <3>2
  <2> QED  BY <2>2, <2>6, <2>7, <2>8 DEF CountInv
<1>11. CASE i # None
  <2> DEFINE o == Min(use.ofds)
             only == [fd \in {0} |-> i.file.name]
             first == [AllClosed EXCEPT ![0] = [ofd |-> o, cloexec |-> i.cloexec]]
             file == [i.file EXCEPT !.init = length[i.file.name], !.followed = TRUE]
  <2>1. /\ RegisterTracee(TraceePid, only)
        /\ kfds = [p \in Pid |-> IF p = TraceePid THEN first ELSE AllClosed]
        /\ ofds = [d \in Ofd |-> IF d = o THEN file ELSE Free]
        /\ quirks = Kind("cloexec", i.cloexec) \cup
                    Kind("inherited", i.file.append \/ i.file.pos # 0)
    BY <1>6, <1>11
  <2>2. /\ i.file \in Description /\ i.file.name \in Name /\ ~i.file.split /\ i.file.peak = 0
        /\ i.file.name # None
    BY <1>1, <1>11 DEF Description
  <2>3. /\ file.append = i.file.append /\ file.pos = i.file.pos /\ ~file.split
        /\ file.name = i.file.name /\ file.peak = 0 /\ file.init = length[i.file.name]
        /\ file.followed /\ file.write = i.file.write
    BY <2>2 DEF Description
  <2>4. only \in [{0} -> Name] /\ {0} \in SUBSET Fd
    BY <1>1, <2>2
  <2>5. FillFds(only) = {[slots |-> {0}, file |-> NewFileState(i.file.name, {}, length[i.file.name])]}
    BY DEF FillFds
  <2> HIDE DEF o, only, first, file
  <2>6. Table(TraceePid) = FillFds(only) /\ \A p \in Pid : ProcMap[p] # None <=> p = TraceePid
    BY <1>7, <2>1, <2>4, TraceeRegistered
  <2>7. \A d \in Ofd : ofds[d] = IF d = o THEN file ELSE Free
    BY <2>1
  <2>8. length[i.file.name] \in Nat
    BY <1>7, <2>2
  <2>9. \A d \in Ofd : ofds[d].peak = 0
    BY <2>3, <2>7 DEF Free
  <2>10. DescriptionsMeasure
    <3>1. \A d \in Ofd : d # o => ~ofds[d].write
      BY <2>7 DEF Free
    <3>2. Longer(length[i.file.name], 0) = length[i.file.name]
      BY <2>8 DEF Longer
    <3> QED  BY <1>2, <2>2, <2>3, <2>7, <2>9, <3>1, <3>2 DEF DescriptionsMeasure
  <2>11. \A e \in Table(TraceePid) :
           /\ e.file.MaxPos = 0 /\ e.file.InitSize = length[i.file.name]
           /\ e.file.Filename = i.file.name
    BY <2>5, <2>6 DEF NewFileState
  <2>12. Table(TraceePid) \in SUBSET Entry
    <3>1. TraceePid \in Registered
      BY <1>1, <2>6 DEF Registered
    <3> QED  BY <3>1, TableOfRegistered DEF TypedInv
  <2>13. ASSUME NEW g \in Pid, Live(g) PROVE Measures(g, Busy(g))
    <3>1. g = TraceePid
      BY <1>5, <2>13
    <3>2. ASSUME NEW e \in Table(g), NEW a \in e.slots, NEW d, d = kfds[g][a].ofd, d # None
          PROVE  MeasuresUp(e.file, Top(ProcMap[g], e), e.file.CurrPos + Writes(ProcMap[g], e),
                            ofds[d], size[ofds[d].name])
      <4>1. d \in Ofd
        <5>1. a \in Fd
          BY <2>12, <3>1, <3>2 DEF Entry
        <5> QED  BY <3>2, <5>1 DEF TypedInv, KernelTyped
      <4>2. e \in Entry /\ e.file.MaxPos = 0 /\ e.file.InitSize = length[i.file.name]
            /\ e.file.Filename = i.file.name
        BY <2>11, <2>12, <3>1, <3>2
      <4>3. Via(ProcMap[g], e.slots, {"write"} \cup Naming) = {}
        BY <1>4 DEF Via
      <4>4. Top(ProcMap[g], e) = Longer(e.file.InitSize, e.file.MaxPos)
        BY <4>2, <4>3, RestIs DEF RestInv
      <4>5. Top(ProcMap[g], e) = length[i.file.name]
        BY <2>8, <4>2, <4>4 DEF Longer
      <4>6. CASE ofds[d].write
        <5>1. d = o
          BY <2>7, <4>1, <4>6 DEF Free
        <5>2. ofds[d].name = i.file.name /\ ~ofds[d].split
          BY <2>3, <2>7, <4>1, <5>1
        <5>3. size[ofds[d].name] = length[i.file.name]
          BY <1>2, <5>2
        <5> QED  BY <4>2, <4>5, <4>6, <5>2, <5>3 DEF MeasuresUp
      <4>7. CASE ~ofds[d].write
        BY <4>2, <4>7 DEF MeasuresUp
      <4> QED  BY <4>6, <4>7
    <3> QED  BY <3>2 DEF Measures, MeasuresAt
  <2>14. \A g \in Pid : CountsOn(g)
    BY <1>9, <2>13
  <2>15. Counted = Written
    BY <1>1, <1>2, <1>4, <1>8, <2>6, <2>9, <2>10, <2>11, <2>14, StartCounted
  <2>16. Counted <= Written
    <3>1. KernelTyped /\ grown \in Nat
      BY <1>2 DEF TypedInv
    <3>2. Written \in Nat
      BY <2>10, <3>1, WrittenIs DEF WrittenInv
    <3> QED  BY <2>15, <3>2
  <2> QED  BY <2>10, <2>14, <2>15, <2>16 DEF CountInv
<1> QED  BY <1>10, <1>11

\* What will have been counted, against the lengths of the files, as long as the
\* program stays within what the context follows exactly; but descriptions may be
\* shared between processes and calls lost.
THEOREM CountInvHolds == Spec => []CountInv
<1>1. AccountingInv => TypedInv /\ LifeInv
  BY DEF AccountingInv
<1>2. Init => CountInv
  BY StartAgrees, StartCounts
<1>3. AccountingInv /\ PositionInv /\ CountInv /\ TypeOK /\ TypeOK' /\ [Next]_vars => CountInv'
  BY StepsKeepCounts
<1> QED  BY <1>2, <1>3, InvariantHolds, PositionInvHolds, AccountingIsTyped, PTL DEF Spec

\* The inductive invariant of Accounting: threads, tables, descriptors,
\* positions, and what will have been counted, while calls the tracer has not
\* come to yet are under way.
THEOREM InductiveInvariant == Spec => []IInv
BY InvariantHolds, PositionInvHolds, CountInvHolds, PTL DEF IInv

------------------------------------------------------------------------------
(* What the report says *)

Outs == [s \in ProcState |-> OutputOf(Fds[s])]

LEMMA AccountedIs ==
  ASSUME TypedInv, Summable(Outs, Allocated)
  PROVE  Accounted = OutputSize + SumOf(Outs, Allocated)
<1> DEFINE plus(t, f) == IF t = {} THEN 0 ELSE OutputOf(Fds[OneOf(t)]) + f[t \ {OneOf(t)}]
           sums(f) == f = [t \in SUBSET Allocated |-> plus(t, f)]
           h == CHOOSE f : sums(f)
<1>1. Accounted = OutputSize + h[Allocated]
  BY Zenon DEF Accounted, Allocated, MapThenSumSet, MapThenFoldSet, OneOf
<1>2. \A s \in Allocated : Outs[s] = OutputOf(Fds[s])
  BY DEF Outs, Allocated, Registered, TypedInv, ContextTyped
<1>3. ASSUME NEW f PROVE sums(f) <=> Sums(Outs, Allocated, f)
  <2>1. ASSUME NEW t \in SUBSET Allocated PROVE plus(t, f) = Plus(Outs, t, f)
    <3>1. t # {} => OneOf(t) \in Allocated
      BY OneIsIn
    <3> QED  BY <1>2, <3>1 DEF Plus
  <2> HIDE DEF plus
  <2> QED  BY <2>1 DEF Sums
<1> HIDE DEF sums
<1>4. \E f : sums(f)
  BY <1>3, SumsExist
<1>5. Sums(Outs, Allocated, h)
  BY <1>3, <1>4
<1> HIDE DEF h
<1>6. h[Allocated] = SumOf(Outs, Allocated)
  BY <1>5, SumIs
<1> QED  BY <1>1, <1>6

\* What is counted now is not more than what will have been.
LEMMA OutputIsLess ==
  ASSUME CallsReach, NEW s, NEW table \in SUBSET Entry, Slotted(table)
  PROVE  OutputOf(table) \in Nat /\ OutputOf(table) <= Due(s, table) /\ Due(s, table) \in Nat
<1>1. Summable(Outputs(table), table) /\ OutputOf(table) = SumOf(Outputs(table), table)
  BY OutputIsSum
<1>2. /\ Summable(Dues(s, table), table) /\ Due(s, table) = SumOf(Dues(s, table), table)
      /\ Due(s, table) \in Nat
      /\ \A e \in table : Dues(s, table)[e] = Top(s, e) - e.file.InitSize
  BY DueIs
<1>3. ASSUME NEW e \in table PROVE Outputs(table)[e] <= Dues(s, table)[e]
  <2>1. /\ Top(s, e) \in Nat /\ e.file.InitSize \in Nat /\ e.file.MaxPos \in Nat
        /\ Top(s, e) >= e.file.InitSize /\ Top(s, e) >= e.file.MaxPos
    BY TopIs
  <2>2. GetOutputSize(e.file) <= Top(s, e) - e.file.InitSize
    BY <2>1 DEF GetOutputSize
  <2> QED  BY <1>2, <2>2 DEF Outputs
<1>4. SumOf(Outputs(table), table) <= SumOf(Dues(s, table), table)
  BY <1>1, <1>2, <1>3, SumLess
<1>5. SumOf(Outputs(table), table) \in Nat
  BY <1>1, SumTyped
<1> QED  BY <1>1, <1>2, <1>4, <1>5

LEMMA AccountedAndCounted ==
  ASSUME TypedInv, CallsReach, OutputSize \in Nat
  PROVE  /\ Accounted \in Nat /\ Counted \in Nat /\ Accounted <= Counted
         /\ (\A s : Idle(s)) => Accounted = Counted
<1>1. StockInv /\ IdleInv
  BY StockIs, IdleIs
<1> DEFINE none == {}
<1>2. Allocated = Allocated \cup none /\ Allocated \cap none = {} /\ SumOf(Stock, none) = 0
  BY SumOfNone
<1> HIDE DEF none
<1>3. /\ Summable(Stock, Allocated) /\ SumOf(Stock, Allocated) \in Nat
      /\ Counted = OutputSize + (SumOf(Stock, Allocated) + SumOf(Stock, none))
  BY <1>1, <1>2 DEF StockInv
<1>4. Counted = OutputSize + SumOf(Stock, Allocated)
  BY <1>2, <1>3
<1>5. Allocated \in SUBSET ProcState
  BY <1>1 DEF StockInv
<1>6. ASSUME NEW s \in Allocated
      PROVE  /\ Outs[s] \in Nat /\ Outs[s] <= Stock[s]
             /\ (\A x : Idle(x)) => Stock[s] = Outs[s]
  <2>1. s \in ProcState /\ Fds[s] \in SUBSET Entry /\ Slotted(Fds[s])
    BY <1>5 DEF TypedInv, ContextTyped, SlottedInv
  <2>2. Outs[s] = OutputOf(Fds[s]) /\ Stock[s] = Due(s, Fds[s])
    BY <1>1, <2>1 DEF Outs, StockInv
  <2>3. OutputOf(Fds[s]) \in Nat /\ OutputOf(Fds[s]) <= Due(s, Fds[s])
    BY <2>1, OutputIsLess
  <2>4. (\A x : Idle(x)) => Due(s, Fds[s]) = OutputOf(Fds[s])
    BY <1>1, <2>1 DEF IdleInv
  <2> QED  BY <2>2, <2>3, <2>4
<1>7. Summable(Outs, Allocated)
  BY <1>3, <1>6 DEF Summable
<1>8. SumOf(Outs, Allocated) \in Nat /\ SumOf(Outs, Allocated) <= SumOf(Stock, Allocated)
  BY <1>3, <1>6, <1>7, SumLess, SumTyped
<1>9. (\A s : Idle(s)) => SumOf(Outs, Allocated) = SumOf(Stock, Allocated)
  BY <1>6, <1>7, SumSame
<1>10. Accounted = OutputSize + SumOf(Outs, Allocated)
  BY <1>7, AccountedIs
<1> QED  BY <1>3, <1>4, <1>8, <1>9, <1>10

LEMMA TotalsFollow ==
  ASSUME AccountingInv, CountInv, TypeOK
  PROVE  TotalIsWritten /\ NothingCountedTwice
<1>0. TypedInv /\ KernelTyped /\ LifeInv /\ OutputSize \in Nat /\ grown \in Nat
  BY DEF AccountingInv, TypedInv, TypeOK
<1>1. ASSUME quirks \subseteq {"split", "lost"}
      PROVE  /\ Accounted <= Written
             /\ quirks = {} /\ AllSettled => Accounted = Written
  <2>1. /\ Counted <= Written /\ (quirks = {} => Counted = Written)
        /\ DescriptionsMeasure /\ \A g \in Pid : CountsOn(g)
    BY <1>1 DEF CountInv
  <2>2. CallsReach /\ WrittenInv
    BY <1>0, <2>1, ReachIs, WrittenIs
  <2>3. Written \in Nat
    BY <2>2 DEF WrittenInv
  <2>4. /\ Accounted \in Nat /\ Counted \in Nat /\ Accounted <= Counted
        /\ (\A s : Idle(s)) => Accounted = Counted
    BY <1>0, <2>2, AccountedAndCounted
  <2>5. AllSettled => \A s : Idle(s)
    <3>1. Running.event = "running" /\ Absent.event = "absent"
      BY Events
    <3> QED  BY <3>1 DEF AllSettled, Idle
  <2>6. Accounted <= Written
    <3>1. PICK a \in Nat, b \in Nat, c \in Nat : a = Accounted /\ b = Counted /\ c = Written
      BY <2>3, <2>4
    <3>2. a <= b /\ b <= c
      BY <2>1, <2>4, <3>1
    <3> QED  BY <3>1, <3>2
  <2> QED  BY <2>1, <2>4, <2>5, <2>6
<1>2. TotalIsWritten
  BY <1>1 DEF TotalIsWritten
<1>3. NothingCountedTwice
  BY <1>1 DEF NothingCountedTwice
<1> QED  BY <1>2, <1>3

\* TotalIsWritten: in ordinary use what has been recorded and what is still in
\* the tables is exactly what has been written, whatever the number of processes
\* and threads and in whatever order descriptors are duplicated and closed and
\* stops are handled (context.cpp: SyscallExit, VanishProcess, RegisterExec).
THEOREM TotalIsCounted == Spec => []TotalIsWritten
<1>1. AccountingInv /\ CountInv /\ TypeOK => TotalIsWritten
  BY TotalsFollow
<1> QED  BY <1>1, InvariantHolds, CountInvHolds, AccountingIsTyped, PTL

\* NothingCountedTwice: fork and execve copy file states, and still no output is
\* counted twice (types.cpp: the copy constructor of TFileState); nor is what a
\* thread has done that is killed before its stop is handled.
THEOREM SharersCountOnce == Spec => []NothingCountedTwice
<1>1. AccountingInv /\ CountInv /\ TypeOK => NothingCountedTwice
  BY TotalsFollow
<1> QED  BY <1>1, InvariantHolds, CountInvHolds, AccountingIsTyped, PTL
==============================================================================
