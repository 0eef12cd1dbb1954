-------------------------- MODULE FileStorageProofs --------------------------
(***************************************************************************)
(* The theorems of FileStorage, for every set of files and every capacity: *)
(* the queue holds the largest files recorded, and so the storage keeps    *)
(* the promise of LargestFiles; the total is that of all of them; the      *)
(* report lists the queue in order.                                        *)
(***************************************************************************)
EXTENDS FileStorage, SumsProofs

\* Sets of files are finite, and their sizes are numbers (AddFileEntry
\* compares them).
LEMMA Files ==
  /\ \A f \in File : f.Size \in Nat
  /\ \A files \in SUBSET File : IsFiniteSet(files) /\ Cardinality(files) \in Nat
<1>1. \A f \in File : f.Size \in Nat
  BY FileStorageAssumption
<1>2. ASSUME NEW files \in SUBSET File
      PROVE  IsFiniteSet(files) /\ Cardinality(files) \in Nat
  BY FS_Subset, FS_CardinalityType, FileStorageAssumption
<1> QED  BY <1>1, <1>2

\* Every step keeps the types (AddFileEntry).
THEOREM TypeCorrect == Spec => []TypeOK
<1>1. Init => TypeOK
  BY FileStorageAssumption DEF Init, TypeOK
<1>2. TypeOK /\ [Next]_vars => TypeOK'
  BY DEF TypeOK, Next, AllOffered, AddFileEntry, Push, PopAndPush, Tops, vars
<1> QED  BY <1>1, <1>2, PTL DEF Spec

\* With room left, the file just joins the queue (AddFileEntry, Queue.push).
LEMMA PushKeepsLargest ==
  ASSUME TypeOK, KeepsLargest, NEW f \in File, f \notin offered,
         Push(f), recorded' = recorded \cup {f}, UNCHANGED Capacity
  PROVE  KeepsLargest'
<1>1. Queue = recorded
  BY DEF Push, KeepsLargest
<1>2. Queue' = recorded'
  BY <1>1 DEF Push
<1>3. Capacity >= 0 => Cardinality(Queue') <= Capacity
  <2>1. Cardinality(Queue') <= Cardinality(Queue) + 1
    BY Files, FS_AddElement DEF TypeOK, Push
  <2>2. Queue \in SUBSET File /\ Queue' \in SUBSET File
    BY DEF TypeOK, Push
  <2> QED  BY <2>1, <2>2, Files DEF Push, TypeOK
<1> QED  BY <1>2, <1>3 DEF KeepsLargest

\* In a full queue the file takes the place of the smallest one, if that is
\* smaller (AddFileEntry, Queue.top and Queue.pop): the file that is dropped
\* is no larger than any that stay, and no smaller than any dropped before.
LEMMA PopAndPushKeepsLargest ==
  ASSUME TypeOK, KeepsLargest, NEW f \in File, f \notin offered,
         PopAndPush(f), recorded' = recorded \cup {f}, UNCHANGED Capacity
  PROVE  KeepsLargest'
<1> PICK top \in Tops(Queue) :
      Queue' = IF top.Size < f.Size THEN (Queue \ {top}) \cup {f} ELSE Queue
  BY DEF PopAndPush
<1>1. /\ top \in Queue /\ top \in File /\ \A g \in Queue : top.Size <= g.Size
      /\ f \notin Queue /\ f \notin recorded
      /\ Queue \in SUBSET File /\ recorded \in SUBSET File
  BY DEF Tops, TypeOK
<1>2. Cardinality(Queue') = Cardinality(Queue)
  <2>1. CASE top.Size < f.Size
    <3>1. /\ IsFiniteSet(Queue \ {top})
          /\ Cardinality(Queue \ {top}) = Cardinality(Queue) - 1
      BY <1>1, Files, FS_RemoveElement
    <3>2. Cardinality((Queue \ {top}) \cup {f}) = Cardinality(Queue \ {top}) + 1
      BY <1>1, <3>1, FS_AddElement
    <3> QED  BY <2>1, <3>1, <3>2, <1>1, Files
  <2>2. CASE ~(top.Size < f.Size)
    BY <2>2
  <2> QED  BY <2>1, <2>2
<1>3. ASSUME NEW x \in Queue', NEW g \in recorded' \ Queue'
      PROVE  g.Size <= x.Size
  <2>1. /\ f.Size \in Nat /\ top.Size \in Nat /\ x.Size \in Nat /\ g.Size \in Nat
        /\ \A h \in Queue : top.Size <= h.Size
        /\ \A h \in recorded \ Queue : h.Size <= top.Size
    BY <1>1, Files DEF KeepsLargest
  <2>2. CASE top.Size < f.Size
    BY <2>1, <2>2
  <2>3. CASE ~(top.Size < f.Size)
    BY <2>1, <2>3
  <2> QED  BY <2>2, <2>3
<1>4. Cardinality(Queue') >= Capacity
  BY <1>1, <1>2, Files DEF PopAndPush, TypeOK
<1>5. ~(Capacity < 0) /\ ~(Cardinality(Queue') < Capacity)
  BY <1>1, <1>2 DEF PopAndPush
<1>6. Capacity >= 0 => Cardinality(Queue') <= Capacity
  BY <1>2 DEF KeepsLargest
<1> QED  BY <1>3, <1>5, <1>6 DEF KeepsLargest

\* The inductive invariant is KeepsLargest itself, with the types.
LEMMA NextKeepsLargest == TypeOK /\ KeepsLargest /\ [Next]_vars => KeepsLargest'
<1> SUFFICES ASSUME TypeOK, KeepsLargest, [Next]_vars PROVE KeepsLargest'
  OBVIOUS
<1>1. ASSUME NEW f \in File, AddFileEntry(f)
      PROVE  KeepsLargest'
  <2>1. CASE TurnedAway(f)
    BY <1>1, <2>1 DEF AddFileEntry, KeepsLargest
  <2>2. CASE ~TurnedAway(f)
    BY <1>1, <2>2, PushKeepsLargest, PopAndPushKeepsLargest DEF AddFileEntry
  <2> QED  BY <2>1, <2>2
<1>2. CASE UNCHANGED vars
  BY <1>2 DEF vars, KeepsLargest
<1> QED  BY <1>1, <1>2 DEF Next, AllOffered

\* No file that is dropped from the report is larger than one in it, whatever
\* the order AddFileEntry is called in and however ties are broken.
THEOREM ReportKeepsLargest == Spec => []KeepsLargest
<1>1. Init => KeepsLargest
  BY FileStorageAssumption, FS_EmptySet DEF Init, KeepsLargest
<1> QED  BY <1>1, NextKeepsLargest, TypeCorrect, PTL DEF Spec

\* A queue that keeps the largest is one of the choices the report may list.
LEMMA QueueIsChoice == TypeOK /\ KeepsLargest => Promise!Largest(Queue, recorded)
<1> SUFFICES ASSUME TypeOK, KeepsLargest PROVE Promise!Largest(Queue, recorded)
  OBVIOUS
<1>1. /\ Queue \in SUBSET recorded /\ IsFiniteSet(recorded)
      /\ Cardinality(Queue) \in Nat /\ Cardinality(recorded) \in Nat
      /\ Capacity \in Int
  BY Files DEF TypeOK
<1>2. /\ Cardinality(Queue) <= Cardinality(recorded)
      /\ Cardinality(recorded) = Cardinality(Queue) => recorded = Queue
  BY <1>1, FS_Subset
<1>3. \A f \in Queue, g \in recorded \ Queue : g.Size <= f.Size
  BY DEF KeepsLargest
<1>4. IF Capacity < 0 \/ Cardinality(recorded) <= Capacity
      THEN Queue = recorded ELSE Cardinality(Queue) = Capacity
  BY <1>1, <1>2 DEF KeepsLargest
<1>5. \A S : Promise!Cardinality(S) = Cardinality(S)
  BY DEF Cardinality, Promise!Cardinality, IsFiniteSet, Promise!IsFiniteSet
<1> QED  BY <1>1, <1>3, <1>4, <1>5 DEF Promise!Largest

\* FileStorage implements LargestFiles: a call that AddFileEntry turns away is
\* a stutter, any other one records a file.
THEOREM StorageKeepsPromise == Spec => PromiseKept
<1>1. Init => Promise!Init
  BY FileStorageAssumption DEF Init, Promise!Init
<1>2. (TypeOK /\ KeepsLargest => Promise!Largest(Queue, recorded))'
  BY QueueIsChoice, PTL
<1>3. /\ TypeOK /\ TypeOK' /\ KeepsLargest' /\ [Next]_vars
      => [Promise!Next]_(Promise!vars)
  <2> SUFFICES ASSUME TypeOK, TypeOK', KeepsLargest', [Next]_vars
               PROVE  [Promise!Next]_(Promise!vars)
    OBVIOUS
  <2>1. ASSUME NEW f \in File, AddFileEntry(f), ~TurnedAway(f)
        PROVE  Promise!Record(f)
    <3>1. UNCHANGED Capacity /\ recorded' = recorded \cup {f} /\ f \notin recorded
      BY <2>1 DEF AddFileEntry, TypeOK
    <3>2. Queue' \in SUBSET recorded'
      BY DEF TypeOK
    <3>3. Promise!Largest(Queue', recorded')
      BY <1>2, <3>1 DEF Promise!Largest
    <3> QED  BY <3>1, <3>2, <3>3 DEF Promise!Record
  <2>2. ASSUME NEW f \in File, AddFileEntry(f), TurnedAway(f)
        PROVE  UNCHANGED Promise!vars
    BY <2>2 DEF AddFileEntry, Promise!vars
  <2>3. CASE UNCHANGED vars
    BY <2>3 DEF vars, Promise!vars
  <2> QED  BY <2>1, <2>2, <2>3 DEF Next, AllOffered, Promise!Next
<1> QED
  BY <1>1, <1>3, TypeCorrect, ReportKeepsLargest, PTL
  DEF Spec, PromiseKept, Promise!Spec

------------------------------------------------------------------------------
(* The report is computed by recursion over the queue                         *)

\* f is what GetLargestFiles computes of the subsets of a queue.
TopOf(s) == CHOOSE x \in Tops(s) : TRUE
Popped(s, f) == IF s = {} THEN << >> ELSE Append(f[s \ {TopOf(s)}], TopOf(s))
Pops(S, f) == f = [s \in SUBSET S |-> Popped(s, f)]

LEMMA ReportIsPopped == GetLargestFiles = (CHOOSE f : Pops(Queue, f))[Queue]
BY Zenon DEF GetLargestFiles, Pops, Popped, TopOf

\* A set of files, unless it is empty, has a smallest one, so that TopOf is it.
LEMMA TopIsSmallest ==
  ASSUME NEW s \in (SUBSET File) \ {{}}
  PROVE  TopOf(s) \in s /\ \A g \in s : TopOf(s).Size <= g.Size
<1> DEFINE upTo(g) == {h \in s : h.Size <= g.Size}
<1>1. IsFiniteSet(s) /\ \A g \in s : g.Size \in Nat
  BY Files
<1>2. PICK top \in s : \A g \in s : upTo(g) \subseteq upTo(top) => upTo(g) = upTo(top)
  <2> DEFINE T == {upTo(g) : g \in s}
  <2>1. T \in SUBSET (SUBSET s) /\ T # {}
    OBVIOUS
  <2>2. PICK t \in T : \A u \in T : u \subseteq t => u = t
    <3> HIDE DEF T
    <3> QED  BY <1>1, <2>1, SmallestSet
  <2>3. PICK top \in s : t = upTo(top)
    OBVIOUS
  <2> HIDE DEF upTo
  <2> QED  BY <2>2, <2>3
<1>3. ASSUME NEW g \in s PROVE top.Size <= g.Size
  <2> SUFFICES ASSUME g.Size < top.Size PROVE FALSE
    BY <1>1
  <2>1. upTo(g) \subseteq upTo(top)
    BY <1>1
  <2>2. top \in upTo(top) /\ top \notin upTo(g)
    BY <1>1
  <2> QED  BY <1>2, <2>1, <2>2
<1>4. top \in Tops(s)
  BY <1>3 DEF Tops
<1>5. TopOf(s) \in Tops(s)
  BY <1>4 DEF TopOf
<1> QED  BY <1>5 DEF Tops

LEMMA PopsExist == ASSUME NEW S \in SUBSET File PROVE \E f : Pops(S, f)
<1> DEFINE one == [s \in SUBSET S |-> TopOf(s)]
           step == [p \in (SUBSET S) \X Seq(File) |->
                      IF p[1] = {} THEN << >> ELSE Append(p[2], TopOf(p[1]))]
<1>1. \A s \in (SUBSET S) \ {{}} : one[s] \in s
  BY TopIsSmallest
<1>2. step \in [(SUBSET S) \X Seq(File) -> Seq(File)]
  <2>1. ASSUME NEW p \in (SUBSET S) \X Seq(File)
        PROVE  (IF p[1] = {} THEN << >> ELSE Append(p[2], TopOf(p[1]))) \in Seq(File)
    <3>1. p[1] # {} => TopOf(p[1]) \in File
      BY TopIsSmallest
    <3> QED  BY <3>1
  <2> QED  BY <2>1
<1>3. PICK f : Solves(f, S, Seq(File), << >>, one, step)
  <2>1. << >> \in Seq(File)
    OBVIOUS
  <2> HIDE DEF one, step
  <2>2. Recursion(S, Seq(File), << >>, one, step)
    BY <1>1, <1>2, <2>1, Files DEF Recursion
  <2> QED  BY <2>2, RecursionOnSets
<1>4. ASSUME NEW s \in SUBSET S PROVE Value(s, f, << >>, one, step) = Popped(s, f)
  <2>1. one[s] = TopOf(s)
    OBVIOUS
  <2>2. f[s \ {TopOf(s)}] \in Seq(File)
    BY <1>3 DEF Solves
  <2>3. s # {} => step[<<s, f[s \ {TopOf(s)}]>>] = Append(f[s \ {TopOf(s)}], TopOf(s))
    BY <2>2
  <2> HIDE DEF one, step
  <2> QED  BY <2>1, <2>3 DEF Value, Popped
<1>5. \A s \in SUBSET S : f[s] = Popped(s, f)
  <2> HIDE DEF one, step
  <2> QED  BY <1>3, <1>4 DEF Solves
<1> QED  BY <1>3, <1>5 DEF Pops, Solves

------------------------------------------------------------------------------
(* The total *)

Sizes == [f \in File |-> f.Size]

LEMMA SizesAdd == ASSUME NEW S \in SUBSET File PROVE Summable(Sizes, S)
BY Files DEF Summable, Sizes

LEMMA TotalIsSum ==
  ASSUME NEW S \in SUBSET File
  PROVE  Total(S) = SumOf(Sizes, S)
<1> DEFINE plus(s, f) == IF s = {} THEN 0 ELSE OneOf(s).Size + f[s \ {OneOf(s)}]
           sums(f) == f = [s \in SUBSET S |-> plus(s, f)]
           g == CHOOSE f : sums(f)
<1>1. Total(S) = g[S]
  BY Zenon DEF Total, MapThenSumSet, MapThenFoldSet, OneOf
<1>2. ASSUME NEW f PROVE sums(f) <=> Sums(Sizes, S, f)
  <2>1. ASSUME NEW s \in SUBSET S PROVE plus(s, f) = Plus(Sizes, s, f)
    <3>1. s # {} => OneOf(s) \in File
      BY OneIsIn
    <3> QED  BY <3>1 DEF Plus, Sizes
  <2> HIDE DEF plus
  <2> QED  BY <2>1 DEF Sums
<1> HIDE DEF sums
<1>3. \E f : sums(f)
  BY <1>2, SizesAdd, SumsExist
<1>4. Sums(Sizes, S, g)
  BY <1>2, <1>3
<1> HIDE DEF g
<1> QED  BY <1>1, <1>4, SizesAdd, SumIs

LEMMA TotalOfNone == Total({}) = 0
BY TotalIsSum, SumOfNone

LEMMA TotalAdds ==
  ASSUME NEW S \in SUBSET File, NEW x \in File \ S
  PROVE  Total(S \cup {x}) = Total(S) + x.Size
<1>1. Total(S \cup {x}) = SumOf(Sizes, S \cup {x}) /\ Total(S) = SumOf(Sizes, S)
  BY TotalIsSum
<1>2. Summable(Sizes, S \cup {x})
  BY SizesAdd
<1>3. SumOf(Sizes, S \cup {x}) = SumOf(Sizes, S) + Sizes[x]
  BY <1>2, SumAdds
<1> QED  BY <1>1, <1>3 DEF Sizes

\* The total printed counts every file that was recorded, once, whether the
\* queue has kept it or not (AddFileEntry).
THEOREM TotalCountsAll == Spec => []TotalIsOfAll
<1>1. Init => TotalIsOfAll
  BY TotalOfNone DEF Init, TotalIsOfAll
<1>2. TypeOK /\ TotalIsOfAll /\ [Next]_vars => TotalIsOfAll'
  <2> SUFFICES ASSUME TypeOK, TotalIsOfAll, [Next]_vars PROVE TotalIsOfAll'
    OBVIOUS
  <2>1. OutputSize = Total(recorded)
    BY DEF TotalIsOfAll
  <2>2. OutputSize' = Total(recorded')
    <3>1. ASSUME NEW f \in File, AddFileEntry(f), ~TurnedAway(f)
          PROVE  OutputSize' = Total(recorded')
      <4>1. /\ f \notin recorded /\ recorded \in SUBSET File
            /\ OutputSize' = OutputSize + f.Size /\ recorded' = recorded \cup {f}
        BY <3>1 DEF AddFileEntry, TypeOK
      <4> QED  BY <2>1, <4>1, TotalAdds
    <3>2. CASE UNCHANGED <<OutputSize, recorded>>
      BY <2>1, <3>2
    <3> QED  BY <3>1, <3>2 DEF Next, AllOffered, AddFileEntry, vars
  <2> QED  BY <2>2 DEF TotalIsOfAll
<1> QED  BY <1>1, <1>2, TypeCorrect, PTL DEF Spec

------------------------------------------------------------------------------
(* The report *)

\* report lists s, the largest first.
Lists(report, s) ==
  /\ report \in Seq(File)
  /\ {report[i] : i \in 1 .. Len(report)} = s
  /\ Len(report) = Cardinality(s)
  /\ \A i \in 1 .. Len(report) - 1 : report[i].Size >= report[i + 1].Size

\* A file that is no larger than any listed goes to the end of the list.
LEMMA AppendSmallest ==
  ASSUME NEW s \in SUBSET File, NEW top \in s, \A g \in s : top.Size <= g.Size,
         NEW report, Lists(report, s \ {top})
  PROVE  Lists(Append(report, top), s)
<1> DEFINE n == Len(report)
           longer == Append(report, top)
<1>1. report \in Seq(File) /\ n \in Nat /\ top \in File
  BY DEF Lists
<1>2. /\ longer \in Seq(File) /\ Len(longer) = n + 1 /\ longer[n + 1] = top
      /\ \A i \in 1 .. n : longer[i] = report[i]
  BY <1>1
<1> HIDE DEF longer, n
<1>3. {report[i] : i \in 1 .. n} = s \ {top} /\ n = Cardinality(s \ {top})
  BY DEF Lists, n
<1>4. {longer[i] : i \in 1 .. n + 1} = s
  <2>1. ASSUME NEW i \in 1 .. n + 1 PROVE longer[i] \in s
    <3>1. i \in 1 .. n \/ i = n + 1
      BY <1>1
    <3> QED  BY <3>1, <1>2, <1>3
  <2>2. ASSUME NEW x \in s PROVE \E i \in 1 .. n + 1 : x = longer[i]
    <3>1. CASE x = top
      <4>1. n + 1 \in 1 .. n + 1
        BY <1>1
      <4> QED  BY <3>1, <4>1, <1>2
    <3>2. CASE x # top
      <4>1. PICK i \in 1 .. n : x = report[i]
        BY <3>2, <1>3
      <4>2. i \in 1 .. n + 1
        BY <1>1
      <4> QED  BY <4>1, <4>2, <1>2
    <3> QED  BY <3>1, <3>2
  <2> QED  BY <2>1, <2>2
<1>5. n + 1 = Cardinality(s)
  <2>1. Cardinality(s \ {top}) = Cardinality(s) - 1
    BY Files, FS_RemoveElement
  <2>2. Cardinality(s) \in Nat
    BY Files
  <2> QED  BY <2>1, <2>2, <1>3
<1>6. ASSUME NEW i \in 1 .. n PROVE longer[i].Size >= longer[i + 1].Size
  <2>1. CASE i = n
    <3>1. report[i] \in s
      BY <1>3
    <3>2. longer[i] = report[i] /\ longer[i + 1] = top
      BY <2>1, <1>2
    <3>3. report[i].Size \in Nat /\ top.Size \in Nat /\ top.Size <= report[i].Size
      BY <3>1, Files
    <3> QED  BY <3>2, <3>3
  <2>2. CASE i # n
    <3>1. i \in 1 .. n - 1 /\ i + 1 \in 1 .. n
      BY <2>2, <1>1
    <3>2. report[i].Size >= report[i + 1].Size
      BY <3>1 DEF Lists, n
    <3> QED  BY <3>1, <3>2, <1>2
  <2> QED  BY <2>1, <2>2
<1>7. 1 .. Len(longer) - 1 = 1 .. n
  BY <1>1, <1>2
<1> QED
  <2>1. Lists(longer, s)
    BY <1>2, <1>4, <1>5, <1>6, <1>7 DEF Lists
  <2> QED  BY <2>1 DEF longer

LEMMA PoppedAreSorted ==
  ASSUME NEW S \in SUBSET File, NEW f, Pops(S, f)
  PROVE  \A s \in SUBSET S : Lists(f[s], s)
<1> DEFINE T == {s \in SUBSET S : ~Lists(f[s], s)}
<1>1. ASSUME T # {} PROVE FALSE
  <2>1. T \in SUBSET (SUBSET S) /\ IsFiniteSet(S)
    BY Files
  <2>2. PICK s \in T : \A t \in T : t \subseteq s => t = s
    <3> HIDE DEF T
    <3> QED  BY <1>1, <2>1, SmallestSet
  <2>3. s \in SUBSET S /\ ~Lists(f[s], s)
    OBVIOUS
  <2>4. f[s] = Popped(s, f)
    BY <2>3 DEF Pops
  <2>5. CASE s = {}
    <3>1. f[s] = << >>
      BY <2>4, <2>5 DEF Popped
    <3>2. Cardinality({}) = 0
      BY FS_EmptySet
    <3>3. Lists(<< >>, {})
      <4>1. << >> \in Seq(File) /\ Len(<< >>) = 0 /\ 1 .. 0 = {}
        OBVIOUS
      <4> QED  BY <3>2, <4>1 DEF Lists
    <3> QED  BY <2>3, <2>5, <3>1, <3>3
  <2>6. CASE s # {}
    <3> DEFINE top == TopOf(s)
    <3>1. top \in s /\ \A g \in s : top.Size <= g.Size
      BY <2>3, <2>6, TopIsSmallest
    <3>2. f[s] = Append(f[s \ {top}], top)
      BY <2>4, <2>6 DEF Popped
    <3> HIDE DEF top
    <3>3. Lists(f[s \ {top}], s \ {top})
      BY <2>2, <2>3, <3>1
    <3>4. s \in SUBSET File
      BY <2>3
    <3> QED  BY <2>3, <3>1, <3>2, <3>3, <3>4, AppendSmallest
  <2> QED  BY <2>5, <2>6
<1> QED  BY <1>1

\* The report lists each file of the queue once, and none before a larger one,
\* whatever order the files came in and whatever has been dropped since
\* (GetLargestFiles).
THEOREM ReportsAreSorted == Spec => []ReportIsSorted
<1>1. TypeOK => ReportIsSorted
  <2> SUFFICES ASSUME TypeOK PROVE ReportIsSorted
    OBVIOUS
  <2>1. Queue \in SUBSET File
    BY DEF TypeOK
  <2> DEFINE f == CHOOSE g : Pops(Queue, g)
  <2>2. Pops(Queue, f)
    BY <2>1, PopsExist
  <2>3. GetLargestFiles = f[Queue]
    BY ReportIsPopped
  <2> HIDE DEF f
  <2>4. Lists(GetLargestFiles, Queue)
    BY <2>1, <2>2, <2>3, PoppedAreSorted
  <2> QED  BY <2>4 DEF Lists, ReportIsSorted
<1> QED  BY <1>1, TypeCorrect, PTL
==============================================================================
