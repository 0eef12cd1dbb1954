----------------------------- MODULE SumsProofs ------------------------------
(***************************************************************************)
(* Sums over finite sets (MapThenSumSet), and what is computed like them   *)
(* by recursion over a set.  There is no induction over sets here: that    *)
(* there are such functions, and what they yield, is shown on a smallest   *)
(* set for which it would fail.                                            *)
(***************************************************************************)
EXTENDS FiniteSetsExt, FiniteSetTheorems, WellFoundedInduction, TLAPS

\* Of some subsets of a finite set, one has no other of them as a subset.
LEMMA SmallestSet ==
  ASSUME NEW S, IsFiniteSet(S), NEW T \in SUBSET (SUBSET S), T # {}
  PROVE  \E s \in T : \A t \in T : t \subseteq s => t = s
<1> DEFINE R == StrictSubsetOrdering(S)
<1>1. IsWellFoundedOn(R, SUBSET S)
  BY FS_FiniteSubsetsOfFinite, FS_StrictSubsetOrderingWellFounded
<1>2. \A s, t \in SUBSET S : t \subseteq s /\ t # s => <<t, s>> \in R
  BY DEF StrictSubsetOrdering
<1> HIDE DEF R
<1>3. PICK s \in T : \A t \in T : ~ (<<t, s>> \in R)
  BY <1>1, WFMin
<1>4. s \in SUBSET S /\ \A t \in T : t \in SUBSET S
  OBVIOUS
<1> QED  BY <1>2, <1>3, <1>4, Zenon

\* A function of the subsets of S that is v of the empty set, and of any other
\* one what step makes of the value for the set without one of its elements.
Value(s, f, v, one, step) == IF s = {} THEN v ELSE step[<<s, f[s \ {one[s]}]>>]

Recursion(S, V, v, one, step) ==
  /\ IsFiniteSet(S) /\ v \in V
  /\ \A s \in (SUBSET S) \ {{}} : one[s] \in s
  /\ step \in [(SUBSET S) \X V -> V]

Solves(f, S, V, v, one, step) ==
  f \in [SUBSET S -> V] /\ \A s \in SUBSET S : f[s] = Value(s, f, v, one, step)

\* There is such a function.  Of the families of subsets outside of which a
\* function can be right, all of them with their supersets, take a smallest: of
\* its smallest member the function can be made right, so that it has none.
LEMMA RecursionOnSets ==
  ASSUME NEW S, NEW V, NEW v, NEW one, NEW step, Recursion(S, V, v, one, step)
  PROVE  \E f : Solves(f, S, V, v, one, step)
<1> DEFINE Right(f, C) == \A s \in (SUBSET S) \ C : f[s] = Value(s, f, v, one, step)
           Upward(C) == \A s \in C, t \in SUBSET S : s \subseteq t => t \in C
           T == {C \in SUBSET (SUBSET S) : Upward(C) /\ \E f \in [SUBSET S -> V] : Right(f, C)}
<1> USE DEF Recursion, Solves
<1>1. SUBSET S \in T
  <2>1. [s \in SUBSET S |-> v] \in [SUBSET S -> V] /\ Right([s \in SUBSET S |-> v], SUBSET S)
    OBVIOUS
  <2> QED  BY <2>1
<1>2. IsFiniteSet(SUBSET S)
  BY FS_SUBSET
<1>3. PICK C \in T : \A D \in T : D \subseteq C => D = C
  <2>1. T \in SUBSET (SUBSET (SUBSET S)) /\ T # {}
    BY <1>1
  <2> HIDE DEF T
  <2> QED  BY <1>2, <2>1, SmallestSet
<1>4. PICK f \in [SUBSET S -> V] : Right(f, C)
  BY <1>3
<1>5. C \in SUBSET (SUBSET S) /\ Upward(C)
  BY <1>3
<1>6. ASSUME C # {} PROVE FALSE
  <2>1. PICK m \in C : \A t \in C : t \subseteq m => t = m
    BY <1>5, <1>6, SmallestSet
  <2> DEFINE g == [f EXCEPT ![m] = Value(m, f, v, one, step)]
             D == C \ {m}
  <2>2. m \in SUBSET S
    BY <1>5
  <2>3. Value(m, f, v, one, step) \in V
    <3>1. m # {} => f[m \ {one[m]}] \in V
      BY <2>2
    <3> QED  BY <2>2, <3>1 DEF Value
  <2>4. g \in [SUBSET S -> V]
    BY <2>3
  <2>5. Upward(D)
    <3> SUFFICES ASSUME NEW s \in D, NEW t \in SUBSET S, s \subseteq t PROVE t \in D
      OBVIOUS
    <3>1. t \in C
      BY <1>5
    <3>2. t # m
      BY <2>1
    <3> QED  BY <3>1, <3>2
  <2>6. ASSUME NEW s \in (SUBSET S) \ D PROVE g[s] = Value(s, g, v, one, step)
    <3>1. s \ {one[s]} \in SUBSET S
      OBVIOUS
    <3>2. s # {} => s \ {one[s]} # m
      <4> SUFFICES ASSUME s # {}, s \ {one[s]} = m PROVE FALSE
        OBVIOUS
      <4>1. m \subseteq s /\ m # s
        OBVIOUS
      <4>2. s \in C
        BY <1>5, <4>1, <2>1
      <4> QED  BY <4>1, <4>2
    <3>3. s # {} => g[s \ {one[s]}] = f[s \ {one[s]}]
      BY <3>1, <3>2
    <3>4. Value(s, g, v, one, step) = Value(s, f, v, one, step)
      BY <3>3 DEF Value
    <3>5. CASE s = m
      BY <3>4, <3>5, <2>2
    <3>6. CASE s # m
      <4>1. s \in (SUBSET S) \ C
        BY <3>6
      <4>2. f[s] = Value(s, f, v, one, step)
        BY <4>1, <1>4
      <4>3. g[s] = f[s]
        BY <3>6
      <4> QED  BY <3>4, <4>2, <4>3
    <3> QED  BY <3>5, <3>6
  <2>7. D \in T
    <3>1. Right(g, D)
      BY <2>6
    <3>2. D \in SUBSET (SUBSET S)
      BY <1>5
    <3> HIDE DEF g, Right, Upward, D
    <3> QED  BY <2>4, <2>5, <3>1, <3>2
  <2>8. D \subseteq C /\ D # C
    BY <2>1
  <2> QED  BY <1>3, <2>7, <2>8
<1> QED  BY <1>4, <1>6

------------------------------------------------------------------------------
(* Sums *)

\* f is what MapThenSumSet computes of the subsets of S, w[x] being the summand
\* of x.
OneOf(s) == CHOOSE x \in s : TRUE
Plus(w, s, f) == IF s = {} THEN 0 ELSE w[OneOf(s)] + f[s \ {OneOf(s)}]
Sums(w, S, f) == f = [s \in SUBSET S |-> Plus(w, s, f)]

SumOf(w, S) == (CHOOSE f : Sums(w, S, f))[S]

Summable(w, S) == IsFiniteSet(S) /\ \A x \in S : w[x] \in Nat

LEMMA OneIsIn == ASSUME NEW s, s # {} PROVE OneOf(s) \in s
BY DEF OneOf

LEMMA SummableParts ==
  ASSUME NEW w, NEW S, Summable(w, S), NEW R \in SUBSET S
  PROVE  Summable(w, R)
BY FS_Subset DEF Summable

LEMMA SumsExist == ASSUME NEW w, NEW S, Summable(w, S) PROVE \E f : Sums(w, S, f)
<1> DEFINE one == [s \in SUBSET S |-> OneOf(s)]
           step == [p \in (SUBSET S) \X Nat |->
                      IF p[1] = {} THEN 0 ELSE w[OneOf(p[1])] + p[2]]
<1>1. \A s \in (SUBSET S) \ {{}} : one[s] \in s
  BY OneIsIn
<1>2. step \in [(SUBSET S) \X Nat -> Nat]
  <2>1. ASSUME NEW p \in (SUBSET S) \X Nat
        PROVE  (IF p[1] = {} THEN 0 ELSE w[OneOf(p[1])] + p[2]) \in Nat
    <3>1. p[1] # {} => w[OneOf(p[1])] \in Nat
      BY OneIsIn DEF Summable
    <3> QED  BY <3>1
  <2> QED  BY <2>1
<1>3. PICK f : Solves(f, S, Nat, 0, one, step)
  <2>1. 0 \in Nat
    OBVIOUS
  <2> HIDE DEF one, step
  <2>2. Recursion(S, Nat, 0, one, step)
    BY <1>1, <1>2, <2>1 DEF Recursion, Summable
  <2> QED  BY <2>2, RecursionOnSets
<1>4. ASSUME NEW s \in SUBSET S PROVE Value(s, f, 0, one, step) = Plus(w, s, f)
  <2>1. one[s] = OneOf(s)
    OBVIOUS
  <2>2. f[s \ {OneOf(s)}] \in Nat
    BY <1>3 DEF Solves
  <2>3. s # {} => step[<<s, f[s \ {OneOf(s)}]>>] = w[OneOf(s)] + f[s \ {OneOf(s)}]
    BY <2>2
  <2> HIDE DEF one, step
  <2> QED  BY <2>1, <2>3 DEF Value, Plus
<1>5. \A s \in SUBSET S : f[s] = Plus(w, s, f)
  <2> HIDE DEF one, step
  <2> QED  BY <1>3, <1>4 DEF Solves
<1> QED  BY <1>3, <1>5 DEF Sums, Solves

\* The sum does not depend on the order in which the elements are taken.
LEMMA AnyOrder ==
  ASSUME NEW w, NEW S, Summable(w, S), NEW f, Sums(w, S, f)
  PROVE  \A s \in SUBSET S : f[s] \in Nat /\ \A x \in s : f[s] = w[x] + f[s \ {x}]
<1> DEFINE Good(s) == f[s] \in Nat /\ \A x \in s : f[s] = w[x] + f[s \ {x}]
           T == {s \in SUBSET S : ~Good(s)}
<1>1. ASSUME T # {} PROVE FALSE
  <2>1. T \in SUBSET (SUBSET S) /\ IsFiniteSet(S)
    BY DEF Summable
  <2>2. PICK s \in T : \A t \in T : t \subseteq s => t = s
    <3> HIDE DEF T
    <3> QED  BY <1>1, <2>1, SmallestSet
  <2>3. s \in SUBSET S /\ ~Good(s)
    OBVIOUS
  <2>4. \A t \in SUBSET S : t \subseteq s /\ t # s => Good(t)
    BY <2>2
  <2>5. f[s] = Plus(w, s, f)
    BY <2>3 DEF Sums
  <2>6. s # {}
    BY <2>3, <2>5 DEF Plus
  <2> DEFINE y == OneOf(s)
  <2>7. y \in s
    BY <2>6, OneIsIn
  <2>8. f[s] = w[y] + f[s \ {y}] /\ f[s \ {y}] \in Nat /\ f[s] \in Nat
    <3>1. f[s] = w[y] + f[s \ {y}]
      BY <2>5, <2>6 DEF Plus
    <3>2. s \ {y} \in SUBSET S /\ s \ {y} \subseteq s /\ s \ {y} # s
      BY <2>7, <2>3
    <3>3. f[s \ {y}] \in Nat
      BY <3>2, <2>4
    <3>4. w[y] \in Nat
      BY <2>3, <2>7 DEF Summable
    <3> QED  BY <3>1, <3>3, <3>4
  <2> HIDE DEF y
  <2>9. ASSUME NEW x \in s PROVE f[s] = w[x] + f[s \ {x}]
    <3>1. CASE x = y
      BY <3>1, <2>8
    <3>2. CASE x # y
      <4> DEFINE r == (s \ {x}) \ {y}
      <4>1. /\ s \ {y} \in SUBSET S /\ s \ {y} \subseteq s /\ s \ {y} # s
            /\ s \ {x} \in SUBSET S /\ s \ {x} \subseteq s /\ s \ {x} # s
            /\ r \in SUBSET S /\ r \subseteq s /\ r # s
            /\ x \in s \ {y} /\ y \in s \ {x} /\ (s \ {y}) \ {x} = r
        BY <3>2, <2>7, <2>3
      <4>2. Good(s \ {x}) /\ Good(s \ {y}) /\ Good(r)
        BY <4>1, <2>4
      <4>3. f[s \ {y}] = w[x] + f[r] /\ f[s \ {x}] = w[y] + f[r] /\ f[r] \in Nat
        BY <4>1, <4>2
      <4>4. w[x] \in Nat /\ w[y] \in Nat
        BY <2>7, <2>3 DEF Summable
      <4> QED  BY <4>3, <4>4, <2>8
    <3> QED  BY <3>1, <3>2
  <2> QED  BY <2>3, <2>8, <2>9
<1> QED  BY <1>1

\* Nor on the set of which it is a subset, nor on other summands.
LEMMA SameSums ==
  ASSUME NEW w, NEW S, NEW f, Sums(w, S, f),
         NEW v, NEW R \in SUBSET S, IsFiniteSet(R), NEW g, Sums(v, R, g),
         \A x \in R : v[x] = w[x]
  PROVE  \A s \in SUBSET R : g[s] = f[s]
<1> DEFINE T == {s \in SUBSET R : g[s] # f[s]}
<1>1. ASSUME T # {} PROVE FALSE
  <2>1. T \in SUBSET (SUBSET R)
    OBVIOUS
  <2>2. PICK s \in T : \A t \in T : t \subseteq s => t = s
    <3> HIDE DEF T
    <3> QED  BY <1>1, <2>1, SmallestSet
  <2>3. s \in SUBSET R /\ s \in SUBSET S /\ g[s] # f[s]
    OBVIOUS
  <2>4. f[s] = Plus(w, s, f) /\ g[s] = Plus(v, s, g)
    BY <2>3 DEF Sums
  <2>5. s # {} => OneOf(s) \in s /\ g[s \ {OneOf(s)}] = f[s \ {OneOf(s)}]
    BY <2>2, <2>3, OneIsIn
  <2>6. s # {} => v[OneOf(s)] = w[OneOf(s)]
    BY <2>3, <2>5
  <2> QED  BY <2>3, <2>4, <2>5, <2>6 DEF Plus
<1> QED  BY <1>1

\* A sum is what any function that sums up yields.
LEMMA SumIs ==
  ASSUME NEW w, NEW S, Summable(w, S), NEW f, Sums(w, S, f)
  PROVE  SumOf(w, S) = f[S]
<1> DEFINE g == CHOOSE h : Sums(w, S, h)
<1>1. Sums(w, S, g)
  OBVIOUS
<1> HIDE DEF g
<1>2. g[S] = f[S]
  BY <1>1, SameSums DEF Summable
<1> QED  BY <1>2 DEF SumOf, g

LEMMA SumTyped ==
  ASSUME NEW w, NEW S, Summable(w, S)
  PROVE  SumOf(w, S) \in Nat
<1>1. PICK f : Sums(w, S, f)
  BY SumsExist
<1> QED  BY <1>1, SumIs, AnyOrder

LEMMA SumOfNone == ASSUME NEW w PROVE SumOf(w, {}) = 0
<1>1. Summable(w, {})
  BY FS_EmptySet DEF Summable
<1>2. PICK f : Sums(w, {}, f)
  BY <1>1, SumsExist
<1>3. f[{}] = 0
  BY <1>2 DEF Sums, Plus
<1> QED  BY <1>1, <1>2, <1>3, SumIs

\* One more element, and what the others weigh as before.
LEMMA SumAdds ==
  ASSUME NEW w, NEW S, NEW x, x \notin S, Summable(w, S \cup {x}),
         NEW v, \A y \in S : v[y] = w[y]
  PROVE  /\ SumOf(w, S \cup {x}) = SumOf(v, S) + w[x]
         /\ SumOf(v, S) \in Nat /\ w[x] \in Nat
<1> DEFINE R == S \cup {x}
<1>1. Summable(w, R) /\ Summable(v, S) /\ S \in SUBSET R /\ R \ {x} = S /\ x \in R
  <2>1. Summable(w, S)
    BY SummableParts
  <2> QED  BY <2>1 DEF Summable
<1> HIDE DEF R
<1>2. PICK f : Sums(w, R, f)
  BY <1>1, SumsExist
<1>3. PICK g : Sums(v, S, g)
  BY <1>1, SumsExist
<1>4. g[S] = f[S]
  BY <1>1, <1>2, <1>3, SameSums DEF Summable
<1>5. f[R] = w[x] + f[S] /\ f[S] \in Nat
  <2>1. \A s \in SUBSET R : f[s] \in Nat /\ \A y \in s : f[s] = w[y] + f[s \ {y}]
    <3>1. Summable(w, R) /\ Sums(w, R, f)
      BY <1>1, <1>2
    <3> QED  BY <3>1, AnyOrder
  <2>2. f[R] = w[x] + f[R \ {x}]
    BY <1>1, <2>1
  <2> QED  BY <1>1, <2>1, <2>2
<1>6. SumOf(w, R) = f[R] /\ SumOf(v, S) = g[S]
  BY <1>1, <1>2, <1>3, SumIs
<1>7. w[x] \in Nat
  BY <1>1 DEF Summable
<1> QED  BY <1>4, <1>5, <1>6, <1>7 DEF R

------------------------------------------------------------------------------
(* Sums of parts, of images, and of other summands *)

\* What holds of the empty set, and of a set with one more element if of the set.
LEMMA SetInduction ==
  ASSUME NEW S, IsFiniteSet(S), NEW P \in SUBSET (SUBSET S), {} \in P,
         \A A \in P : \A x \in S \ A : A \cup {x} \in P
  PROVE  S \in P
<1> DEFINE T == {S \ A : A \in P}
<1>1. T \in SUBSET (SUBSET S) /\ T # {}
  <2>1. S \ {} \in T
    OBVIOUS
  <2>2. \A t \in T : t \subseteq S
    OBVIOUS
  <2> HIDE DEF T
  <2> QED  BY <2>1, <2>2
<1>2. PICK t \in T : \A r \in T : r \subseteq t => r = t
  <2> HIDE DEF T
  <2> QED  BY <1>1, SmallestSet
<1>3. PICK A \in P : t = S \ A
  BY <1>2
<1>4. CASE t = {}
  <2>1. A = S
    BY <1>3, <1>4
  <2> QED  BY <1>3, <2>1
<1>5. CASE t # {}
  <2>1. PICK x \in S \ A : TRUE
    BY <1>3, <1>5
  <2>2. A \cup {x} \in P
    BY <1>3, <2>1
  <2>3. S \ (A \cup {x}) \in T /\ S \ (A \cup {x}) \subseteq t /\ x \in t /\ x \notin S \ (A \cup {x})
    BY <1>3, <2>1, <2>2
  <2> HIDE DEF T
  <2> QED  BY <1>2, <2>3
<1> QED  BY <1>4, <1>5

LEMMA SumSame ==
  ASSUME NEW w, NEW S, Summable(w, S), NEW v, \A x \in S : v[x] = w[x]
  PROVE  Summable(v, S) /\ SumOf(v, S) = SumOf(w, S)
<1>1. Summable(v, S)
  BY DEF Summable
<1>2. PICK f : Sums(w, S, f)
  BY SumsExist
<1>3. PICK g : Sums(v, S, g)
  BY <1>1, SumsExist
<1>4. g[S] = f[S]
  <2>1. S \in SUBSET S /\ IsFiniteSet(S)
    BY DEF Summable
  <2> QED  BY <1>2, <1>3, <2>1, SameSums
<1> QED  BY <1>1, <1>2, <1>3, <1>4, SumIs

LEMMA SumAnd ==
  ASSUME NEW w, NEW S, NEW x, x \notin S, Summable(w, S \cup {x})
  PROVE  /\ SumOf(w, S \cup {x}) = SumOf(w, S) + w[x]
         /\ SumOf(w, S) \in Nat /\ w[x] \in Nat
BY SumAdds

\* A sum is that of two parts together.
LEMMA SumSplit ==
  ASSUME NEW A, NEW B, A \cap B = {}, NEW w, Summable(w, A \cup B)
  PROVE  /\ SumOf(w, A \cup B) = SumOf(w, A) + SumOf(w, B)
         /\ SumOf(w, A) \in Nat /\ SumOf(w, B) \in Nat
         /\ Summable(w, A) /\ Summable(w, B)
<1>1. Summable(w, A) /\ Summable(w, B)
  BY SummableParts
<1>2. SumOf(w, A) \in Nat /\ SumOf(w, B) \in Nat
  BY <1>1, SumTyped
<1> DEFINE P == {C \in SUBSET B : SumOf(w, A \cup C) = SumOf(w, A) + SumOf(w, C)}
<1>3. {} \in P
  <2>1. SumOf(w, {}) = 0 /\ A \cup {} = A
    BY SumOfNone
  <2> QED  BY <1>2, <2>1
<1>4. ASSUME NEW C \in P, NEW x \in B \ C PROVE C \cup {x} \in P
  <2>1. C \in SUBSET B /\ SumOf(w, A \cup C) = SumOf(w, A) + SumOf(w, C)
    OBVIOUS
  <2>2. Summable(w, C \cup {x}) /\ Summable(w, (A \cup C) \cup {x})
    <3>1. C \cup {x} \in SUBSET (A \cup B) /\ (A \cup C) \cup {x} \in SUBSET (A \cup B)
      BY <2>1
    <3> QED  BY <3>1, SummableParts
  <2>3. x \notin C /\ x \notin A \cup C
    OBVIOUS
  <2>4. /\ SumOf(w, C \cup {x}) = SumOf(w, C) + w[x] /\ SumOf(w, C) \in Nat /\ w[x] \in Nat
        /\ SumOf(w, (A \cup C) \cup {x}) = SumOf(w, A \cup C) + w[x]
    BY <2>2, <2>3, SumAnd
  <2>5. A \cup (C \cup {x}) = (A \cup C) \cup {x} /\ C \cup {x} \in SUBSET B
    BY <2>1
  <2> QED  BY <1>2, <2>1, <2>4, <2>5
<1>5. B \in P
  <2>1. P \in SUBSET (SUBSET B) /\ IsFiniteSet(B)
    BY <1>1 DEF Summable
  <2> HIDE DEF P
  <2> QED  BY <1>3, <1>4, <2>1, SetInduction
<1> QED  BY <1>1, <1>2, <1>5

LEMMA SumZeros ==
  ASSUME NEW w, NEW S, IsFiniteSet(S), \A x \in S : w[x] = 0
  PROVE  Summable(w, S) /\ SumOf(w, S) = 0
<1>1. Summable(w, S)
  BY DEF Summable
<1> DEFINE P == {C \in SUBSET S : SumOf(w, C) = 0}
<1>2. {} \in P
  BY SumOfNone
<1>3. ASSUME NEW C \in P, NEW x \in S \ C PROVE C \cup {x} \in P
  <2>1. Summable(w, C \cup {x}) /\ x \notin C
    BY <1>1, SummableParts
  <2>2. SumOf(w, C \cup {x}) = SumOf(w, C) + w[x]
    BY <2>1, SumAnd
  <2> QED  BY <2>2
<1>4. S \in P
  <2>1. P \in SUBSET (SUBSET S)
    OBVIOUS
  <2> HIDE DEF P
  <2> QED  BY <1>2, <1>3, <2>1, SetInduction
<1> QED  BY <1>1, <1>4

LEMMA SumLess ==
  ASSUME NEW w, NEW v, NEW S, Summable(w, S), Summable(v, S), \A x \in S : v[x] <= w[x]
  PROVE  SumOf(v, S) <= SumOf(w, S)
<1> DEFINE P == {C \in SUBSET S : SumOf(v, C) <= SumOf(w, C)}
<1>1. {} \in P
  BY SumOfNone
<1>2. ASSUME NEW C \in P, NEW x \in S \ C PROVE C \cup {x} \in P
  <2>1. Summable(w, C \cup {x}) /\ Summable(v, C \cup {x}) /\ x \notin C
    BY SummableParts
  <2>2. /\ SumOf(w, C \cup {x}) = SumOf(w, C) + w[x] /\ SumOf(w, C) \in Nat /\ w[x] \in Nat
        /\ SumOf(v, C \cup {x}) = SumOf(v, C) + v[x] /\ SumOf(v, C) \in Nat /\ v[x] \in Nat
    BY <2>1, SumAnd
  <2> QED  BY <2>2
<1>3. S \in P
  <2>1. P \in SUBSET (SUBSET S) /\ IsFiniteSet(S)
    BY DEF Summable
  <2> HIDE DEF P
  <2> QED  BY <1>1, <1>2, <2>1, SetInduction
<1> QED  BY <1>3

\* One summand changes.
LEMMA SumOne ==
  ASSUME NEW w, NEW v, NEW S, Summable(w, S), Summable(v, S), NEW a \in S,
         \A x \in S \ {a} : v[x] = w[x]
  PROVE  /\ SumOf(v, S) + w[a] = SumOf(w, S) + v[a]
         /\ SumOf(v, S) \in Nat /\ SumOf(w, S) \in Nat /\ w[a] \in Nat /\ v[a] \in Nat
         /\ SumOf(w, S) >= w[a]
<1> DEFINE R == S \ {a}
<1>1. S = R \cup {a} /\ a \notin R
  OBVIOUS
<1>2. \A x \in R : v[x] = w[x]
  OBVIOUS
<1> HIDE DEF R
<1>3. /\ SumOf(w, S) = SumOf(w, R) + w[a] /\ SumOf(w, R) \in Nat /\ w[a] \in Nat
      /\ SumOf(v, S) = SumOf(v, R) + v[a] /\ SumOf(v, R) \in Nat /\ v[a] \in Nat
  BY <1>1, SumAnd
<1>4. SumOf(v, R) = SumOf(w, R)
  <2>1. Summable(w, R)
    BY <1>1, SummableParts
  <2> QED  BY <1>2, <2>1, SumSame
<1> QED  BY <1>3, <1>4

\* The summands of other things, one of each.
LEMMA SumImage ==
  ASSUME NEW w, NEW S, Summable(w, S), NEW h, \A x, y \in S : h[x] = h[y] => x = y,
         NEW v, \A x \in S : v[h[x]] = w[x]
  PROVE  Summable(v, {h[x] : x \in S}) /\ SumOf(v, {h[x] : x \in S}) = SumOf(w, S)
<1> DEFINE Image(C) == {h[x] : x \in C}
           P == {C \in SUBSET S : Summable(v, Image(C)) /\ SumOf(v, Image(C)) = SumOf(w, C)}
<1>1. {} \in P
  <2>1. Image({}) = {}
    OBVIOUS
  <2>2. SumOf(v, {}) = 0 /\ SumOf(w, {}) = 0 /\ Summable(v, {})
    BY SumOfNone, FS_EmptySet DEF Summable
  <2> QED  BY <2>1, <2>2
<1>2. ASSUME NEW C \in P, NEW x \in S \ C PROVE C \cup {x} \in P
  <2>1. C \in SUBSET S /\ Summable(v, Image(C)) /\ SumOf(v, Image(C)) = SumOf(w, C)
    OBVIOUS
  <2>2. Image(C \cup {x}) = Image(C) \cup {h[x]} /\ h[x] \notin Image(C)
    BY <2>1
  <2>3. Summable(w, C \cup {x}) /\ w[x] \in Nat /\ v[h[x]] = w[x]
    BY <2>1, SummableParts DEF Summable
  <2> HIDE DEF Image, P
  <2>4. Summable(v, Image(C) \cup {h[x]})
    <3>1. IsFiniteSet(Image(C) \cup {h[x]})
      BY <2>1, FS_AddElement DEF Summable
    <3> QED  BY <2>1, <2>3, <3>1 DEF Summable
  <2>5. SumOf(v, Image(C) \cup {h[x]}) = SumOf(v, Image(C)) + v[h[x]]
    <3> DEFINE R == Image(C)
               y == h[x]
    <3>1. y \notin R /\ Summable(v, R \cup {y})
      BY <2>2, <2>4
    <3> HIDE DEF R, y
    <3>2. SumOf(v, R \cup {y}) = SumOf(v, R) + v[y]
      BY ONLY <3>1, SumAnd
    <3> QED  BY <3>2 DEF R, y
  <2>6. SumOf(w, C \cup {x}) = SumOf(w, C) + w[x]
    <3>1. x \notin C /\ Summable(w, C \cup {x})
      BY <2>3
    <3> QED  BY ONLY <3>1, SumAnd
  <2>7. C \cup {x} \in SUBSET S
    BY <2>1
  <2> USE DEF P
  <2> QED  BY <2>1, <2>2, <2>3, <2>4, <2>5, <2>6, <2>7
<1>3. S \in P
  <2>1. P \in SUBSET (SUBSET S) /\ IsFiniteSet(S)
    BY DEF Summable
  <2> HIDE DEF P
  <2> QED  BY <1>1, <1>2, <2>1, SetInduction
<1> QED  BY <1>3
==============================================================================
