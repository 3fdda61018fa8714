---------------------------- MODULE Maps_proofs ----------------------------
(***************************************************************************)
(* Lemmas about finite sums.  A sum is a fold, that is, a recursive        *)
(* function; what is proved of it here for every finite set is proved by   *)
(* induction in the form of SetInduction, over a set of subsets, or of     *)
(* CountInduction, over the numbers from 0 to n.                           *)
(***************************************************************************)
EXTENDS Maps, Integers, FiniteSetTheorems, WellFoundedInduction, TLAPS

\* A set of subsets that has the empty one, and each with one element more,
\* has the whole set: in a smallest subset it lacked, take an element out.
LEMMA SetInduction ==
  ASSUME NEW S, IsFiniteSet(S), NEW G \in SUBSET (SUBSET S), {} \in G,
         \A T \in G : \A x \in S \ T : T \cup {x} \in G
  PROVE  S \in G
<1> DEFINE B == (SUBSET S) \ G
<1> SUFFICES ASSUME S \in B PROVE FALSE
  OBVIOUS
<1>1. B \subseteq FiniteSubsetsOf(S)
  BY FS_Subset DEF FiniteSubsetsOf
<1>2. PICK T \in B : \A U \in B : <<U, T>> \notin StrictSubsetOrdering(S)
  <2> HIDE DEF B
  <2> QED BY <1>1, WFMin, FS_StrictSubsetOrderingWellFounded
<1>3. PICK x \in T : TRUE
  BY <1>2
<1>4. T \ {x} \in G
  <2>1. T \ {x} \subseteq T /\ T \ {x} # T /\ IsFiniteSet(T) /\ IsFiniteSet(T \ {x})
    BY FS_Subset
  <2>2. <<T \ {x}, T>> \in StrictSubsetOrdering(S)
    BY <2>1 DEF StrictSubsetOrdering, FiniteSubsetsOf
  <2> QED BY <2>1, <2>2, <1>2
<1>5. T = (T \ {x}) \cup {x} /\ x \in S \ (T \ {x})
  BY <1>3
<1> QED BY <1>4, <1>5, <1>2

\* A set of numbers up to n that has 0, and each with its successor, has all: the
\* intervals below those it lacks have a smallest.
LEMMA CountInduction ==
  ASSUME NEW n \in Nat, NEW G, 0 \in G, \A i \in 0..n : i \in G /\ i < n => i + 1 \in G
  PROVE  0..n \subseteq G
<1> SUFFICES ASSUME NEW z \in 0..n, z \notin G PROVE FALSE
  OBVIOUS
<1> DEFINE B == {0..i : i \in (0..n) \ G}
<1>1. B \subseteq FiniteSubsetsOf(0..n) /\ B # {}
  <2>1. IsFiniteSet(0..n)
    BY FS_Interval
  <2>2. \A i \in 0..n : 0..i \in SUBSET (0..n)
    OBVIOUS
  <2> QED BY <2>1, <2>2, FS_Subset DEF FiniteSubsetsOf
<1>2. PICK T \in B : \A U \in B : <<U, T>> \notin StrictSubsetOrdering(0..n)
  <2> HIDE DEF B
  <2>1. IsFiniteSet(0..n)
    BY FS_Interval
  <2> QED BY <1>1, <2>1, WFMin, FS_StrictSubsetOrderingWellFounded
<1>3. PICK i \in (0..n) \ G : T = 0..i
  OBVIOUS
<1>4. i # 0 /\ i - 1 \in 0..n /\ i - 1 < n
  BY <1>3
<1>5. i - 1 \notin G
  BY <1>3, <1>4
<1>6. 0..(i - 1) \in B
  BY <1>4, <1>5
<1>7. 0..(i - 1) \subseteq 0..i /\ 0..(i - 1) # 0..i
  <2>1. i \in 0..i /\ i \notin 0..(i - 1)
    BY <1>3
  <2> QED BY <2>1
<1>8. <<0..(i - 1), T>> \in StrictSubsetOrdering(0..n)
  <2> HIDE DEF B
  <2> QED BY <1>1, <1>3, <1>6, <1>7 DEF StrictSubsetOrdering
<1> QED BY <1>2, <1>6, <1>8

----------------------------------------------------------------------------
(* The fold that defines a sum is a function that follows its recursion. *)

Chosen(s) == CHOOSE x \in s : TRUE
Unfolded(f, h, s) == IF s = {} THEN 0 ELSE f[Chosen(s)] + h[s \ {Chosen(s)}]
AddsUpTo(f, h, S) == h = [s \in SUBSET S |-> Unfolded(f, h, s)]

\* h adds up f as far as sets of at most n elements.
AddsUp(f, h, S, n) ==
  /\ h \in [SUBSET S -> Int]
  /\ \A s \in SUBSET S : Cardinality(s) <= n => h[s] = Unfolded(f, h, s)

\* Taking an element out makes a subset smaller.
LEMMA ChosenLess ==
  ASSUME NEW S, IsFiniteSet(S), NEW s \in SUBSET S, NEW x \in s
  PROVE  /\ s \ {x} \in SUBSET S
         /\ Cardinality(s \ {x}) = Cardinality(s) - 1
         /\ Cardinality(s) \in Nat
         /\ Cardinality(s \ {x}) \in Nat
<1>1. IsFiniteSet(s)
  BY FS_Subset
<1> QED BY <1>1, FS_RemoveElement, FS_CardinalityType

LEMMA ChosenIn == ASSUME NEW s, s # {} PROVE Chosen(s) \in s
BY DEF Chosen

\* There is such a function: extended by size, one element at a time.
LEMMA SumExists ==
  ASSUME NEW S, IsFiniteSet(S), NEW f, \A x \in S : f[x] \in Int
  PROVE  \E h \in [SUBSET S -> Int] : AddsUpTo(f, h, S)
<1> DEFINE G == {T \in SUBSET S : \E h : AddsUp(f, h, S, Cardinality(T))}
<1>1. {} \in G
  <2> DEFINE h == [s \in SUBSET S |-> 0]
  <2>1. \A s \in SUBSET S : Cardinality(s) <= 0 => s = {}
    BY FS_Subset, FS_EmptySet, FS_CardinalityType
  <2>2. AddsUp(f, h, S, Cardinality({}))
    BY <2>1, FS_EmptySet DEF AddsUp, Unfolded
  <2> QED BY <2>2
<1>2. ASSUME NEW T \in G, NEW x \in S \ T PROVE T \cup {x} \in G
  <2> DEFINE n == Cardinality(T)
  <2>1. IsFiniteSet(T) /\ n \in Nat /\ Cardinality(T \cup {x}) = n + 1
    BY FS_Subset, FS_CardinalityType, FS_AddElement
  <2>2. PICK h : AddsUp(f, h, S, n)
    OBVIOUS
  <2> DEFINE g == [s \in SUBSET S |-> Unfolded(f, h, s)]
  <2>3. \A s \in SUBSET S : Cardinality(s) <= n => g[s] = h[s]
    BY <2>2 DEF AddsUp
  <2>4. \A s \in SUBSET S : Cardinality(s) <= n + 1 => g[s] = Unfolded(f, g, s)
    <3> SUFFICES ASSUME NEW s \in SUBSET S, Cardinality(s) <= n + 1, s # {}
                 PROVE  h[s \ {Chosen(s)}] = g[s \ {Chosen(s)}]
      BY DEF Unfolded
    <3>1. s \ {Chosen(s)} \in SUBSET S /\ Cardinality(s \ {Chosen(s)}) <= n
      BY ChosenLess, ChosenIn, <2>1
    <3> QED BY <3>1, <2>3
  <2>5. g \in [SUBSET S -> Int]
    <3> SUFFICES ASSUME NEW s \in SUBSET S PROVE Unfolded(f, h, s) \in Int
      OBVIOUS
    <3>1. CASE s = {}
      BY <3>1 DEF Unfolded
    <3>2. CASE s # {}
      <4>1. Chosen(s) \in S /\ s \ {Chosen(s)} \in SUBSET S
        BY ChosenIn, <3>2
      <4>2. f[Chosen(s)] \in Int /\ h[s \ {Chosen(s)}] \in Int
        BY <4>1, <2>2 DEF AddsUp
      <4> QED BY <4>2, <3>2 DEF Unfolded
    <3> QED BY <3>1, <3>2
  <2>6. AddsUp(f, g, S, Cardinality(T \cup {x}))
    <3> HIDE DEF g, n
    <3> QED BY <2>1, <2>4, <2>5 DEF AddsUp
  <2> QED BY <2>6
<1>3. S \in G
  <2> HIDE DEF G
  <2>1. G \in SUBSET (SUBSET S)
    BY DEF G
  <2> QED BY <1>1, <1>2, <2>1, SetInduction
<1>4. PICK h : AddsUp(f, h, S, Cardinality(S))
  BY <1>3
<1>5. \A s \in SUBSET S : Cardinality(s) <= Cardinality(S)
  BY FS_Subset
<1>6. h \in [SUBSET S -> Int] /\ \A s \in SUBSET S : h[s] = Unfolded(f, h, s)
  BY <1>4, <1>5 DEF AddsUp
<1>7. AddsUpTo(f, h, S)
  BY <1>6 DEF AddsUpTo
<1> QED BY <1>6, <1>7

\* And but one, whatever set it was defined for.
LEMMA SumUnique ==
  ASSUME NEW S, IsFiniteSet(S), NEW f, NEW g, NEW h, NEW U, IsFiniteSet(U),
         NEW e, S \subseteq U, AddsUpTo(f, h, S), AddsUpTo(e, g, U),
         \A x \in S : f[x] = e[x]
  PROVE  h[S] = g[S]
<1> DEFINE G == {T \in SUBSET S : \A s \in SUBSET S : Cardinality(s) <= Cardinality(T) => h[s] = g[s]}
<1>0. \A s \in SUBSET S : h[s] = Unfolded(f, h, s) /\ g[s] = Unfolded(e, g, s)
  BY DEF AddsUpTo
<1>1. {} \in G
  <2>1. \A s \in SUBSET S : Cardinality(s) <= 0 => s = {}
    BY FS_Subset, FS_EmptySet, FS_CardinalityType
  <2>2. h[{}] = g[{}]
    BY <1>0 DEF Unfolded
  <2> QED BY <2>1, <2>2, FS_EmptySet
<1>2. ASSUME NEW T \in G, NEW x \in S \ T PROVE T \cup {x} \in G
  <2>1. IsFiniteSet(T) /\ Cardinality(T) \in Nat /\ Cardinality(T \cup {x}) = Cardinality(T) + 1
    BY FS_Subset, FS_CardinalityType, FS_AddElement
  <2> SUFFICES ASSUME NEW s \in SUBSET S, Cardinality(s) <= Cardinality(T) + 1
               PROVE  h[s] = g[s]
    BY <2>1
  <2>2. CASE s = {}
    BY <2>2, <1>0 DEF Unfolded
  <2>3. CASE s # {}
    <3>1. Chosen(s) \in s /\ Chosen(s) \in S
      BY <2>3, ChosenIn
    <3>2. s \ {Chosen(s)} \in SUBSET S /\ Cardinality(s \ {Chosen(s)}) <= Cardinality(T)
      BY ChosenLess, <3>1, <2>1
    <3>3. h[s \ {Chosen(s)}] = g[s \ {Chosen(s)}]
      BY <3>2
    <3> QED BY <3>1, <3>3, <2>3, <1>0 DEF Unfolded
  <2> QED BY <2>2, <2>3
<1>3. S \in G
  <2> HIDE DEF G
  <2>1. G \in SUBSET (SUBSET S)
    BY DEF G
  <2> QED BY <1>1, <1>2, <2>1, SetInduction
<1> QED BY <1>3, FS_CardinalityType

\* So the sum is what such a function has at the set.
LEMMA SumIs ==
  ASSUME NEW S, IsFiniteSet(S), NEW f, \A x \in S : f[x] \in Int
  PROVE  \E h \in [SUBSET S -> Int] : AddsUpTo(f, h, S) /\ SumOver(f, S) = h[S]
<1>1. SumOver(f, S) = (CHOOSE h : AddsUpTo(f, h, S))[S]
  BY DEF SumOver, MapThenSumSet, MapThenFoldSet, AddsUpTo, Unfolded, Chosen
<1>2. PICK h \in [SUBSET S -> Int] : AddsUpTo(f, h, S)
  BY SumExists
<1>3. AddsUpTo(f, CHOOSE g : AddsUpTo(f, g, S), S)
  BY <1>2
<1>4. (CHOOSE g : AddsUpTo(f, g, S))[S] = h[S]
  BY <1>2, <1>3, SumUnique
<1> QED BY <1>1, <1>2, <1>4

\* The sum depends on the values on the set only.
LEMMA SumEqual ==
  ASSUME NEW S, IsFiniteSet(S), NEW f, NEW g, \A x \in S : f[x] \in Int /\ f[x] = g[x]
  PROVE  SumOver(f, S) = SumOver(g, S)
<1>1. \E h \in [SUBSET S -> Int] : AddsUpTo(f, h, S) /\ SumOver(f, S) = h[S]
  BY SumIs
<1>2. \E h \in [SUBSET S -> Int] : AddsUpTo(g, h, S) /\ SumOver(g, S) = h[S]
  BY SumIs
<1> QED BY <1>1, <1>2, SumUnique

LEMMA SumInt ==
  ASSUME NEW S, IsFiniteSet(S), NEW f, \A x \in S : f[x] \in Int
  PROVE  SumOver(f, S) \in Int
<1>1. PICK h \in [SUBSET S -> Int] : AddsUpTo(f, h, S) /\ SumOver(f, S) = h[S]
  BY SumIs
<1> QED BY <1>1

LEMMA SumEmpty == ASSUME NEW f PROVE SumOver(f, {}) = 0
<1>1. PICK h \in [SUBSET {} -> Int] : AddsUpTo(f, h, {}) /\ SumOver(f, {}) = h[{}]
  BY SumIs, FS_EmptySet
<1> QED BY <1>1 DEF AddsUpTo, Unfolded

\* What the definition unfolds to: an element CHOOSE picks is split off.
LEMMA SumChosen ==
  ASSUME NEW S, IsFiniteSet(S), NEW f, \A x \in S : f[x] \in Int, S # {}
  PROVE  SumOver(f, S) = f[Chosen(S)] + SumOver(f, S \ {Chosen(S)})
<1> DEFINE T == S \ {Chosen(S)}
<1>1. PICK h \in [SUBSET S -> Int] : AddsUpTo(f, h, S) /\ SumOver(f, S) = h[S]
  BY SumIs
<1>2. IsFiniteSet(T) /\ T \subseteq S
  BY FS_Subset
<1>3. PICK g \in [SUBSET T -> Int] : AddsUpTo(f, g, T) /\ SumOver(f, T) = g[T]
  BY <1>2, SumIs
<1>4. g[T] = h[T]
  BY <1>1, <1>2, <1>3, SumUnique
<1>5. h[S] = f[Chosen(S)] + h[T]
  BY <1>1 DEF AddsUpTo, Unfolded
<1> QED BY <1>1, <1>3, <1>4, <1>5

LEMMA Sum3 ==
  ASSUME NEW a \in Int, NEW b \in Int, NEW c \in Int
  PROVE  a + (b + c) = b + (a + c)
OBVIOUS

\* Addition commutes, so any element may be split off.
LEMMA SumRemove ==
  ASSUME NEW S, IsFiniteSet(S), NEW f, \A x \in S : f[x] \in Int, NEW y \in S
  PROVE  SumOver(f, S) = f[y] + SumOver(f, S \ {y})
<1> DEFINE G == {T \in SUBSET S : \A s \in SUBSET S : Cardinality(s) <= Cardinality(T) =>
                  \A x \in s : SumOver(f, s) = f[x] + SumOver(f, s \ {x})}
<1>1. {} \in G
  <2>1. \A s \in SUBSET S : Cardinality(s) <= 0 => s = {}
    BY FS_Subset, FS_EmptySet, FS_CardinalityType
  <2> QED BY <2>1, FS_EmptySet
<1>2. ASSUME NEW T \in G, NEW z \in S \ T PROVE T \cup {z} \in G
  <2>1. IsFiniteSet(T) /\ Cardinality(T) \in Nat /\ Cardinality(T \cup {z}) = Cardinality(T) + 1
    BY FS_Subset, FS_CardinalityType, FS_AddElement
  <2> SUFFICES ASSUME NEW s \in SUBSET S, Cardinality(s) <= Cardinality(T) + 1, NEW x \in s
               PROVE  SumOver(f, s) = f[x] + SumOver(f, s \ {x})
    BY <2>1
  <2> DEFINE c == Chosen(s)
  <2>2. c \in s /\ IsFiniteSet(s)
    BY ChosenIn, FS_Subset
  <2>3. SumOver(f, s) = f[c] + SumOver(f, s \ {c})
    BY <2>2, SumChosen
  <2> HIDE DEF c
  <2>4. CASE x = c
    BY <2>3, <2>4
  <2>5. CASE x # c
    <3>1. /\ s \ {c} \in SUBSET S /\ Cardinality(s \ {c}) <= Cardinality(T) /\ x \in s \ {c}
          /\ s \ {x} \in SUBSET S /\ Cardinality(s \ {x}) <= Cardinality(T) /\ c \in s \ {x}
      BY <2>1, <2>2, <2>5, ChosenLess
    <3>2. SumOver(f, s \ {c}) = f[x] + SumOver(f, (s \ {c}) \ {x})
      BY <3>1
    <3>3. SumOver(f, s \ {x}) = f[c] + SumOver(f, (s \ {x}) \ {c})
      BY <3>1
    <3>4. (s \ {c}) \ {x} = (s \ {x}) \ {c} /\ IsFiniteSet((s \ {x}) \ {c})
      BY <2>2, FS_Subset
    <3>5. SumOver(f, (s \ {x}) \ {c}) \in Int
      BY <3>4, SumInt
    <3>6. f[x] \in Int /\ f[c] \in Int
      BY <2>2
    <3>7. SumOver(f, s \ {x}) = f[c] + SumOver(f, (s \ {c}) \ {x})
      BY <3>3, <3>4
    <3>8. SumOver(f, (s \ {c}) \ {x}) \in Int
      BY <3>4, <3>5
    <3>9. f[c] + (f[x] + SumOver(f, (s \ {c}) \ {x})) = f[x] + (f[c] + SumOver(f, (s \ {c}) \ {x}))
      BY <3>6, <3>8, Sum3
    <3> QED BY <2>3, <3>2, <3>7, <3>9
  <2> QED BY <2>4, <2>5
<1>3. S \in G
  <2> HIDE DEF G
  <2>1. G \in SUBSET (SUBSET S)
    BY DEF G
  <2> QED BY <1>1, <1>2, <2>1, SetInduction
<1> QED BY <1>3, FS_CardinalityType

LEMMA SumAdd ==
  ASSUME NEW S, IsFiniteSet(S), NEW f, NEW y, y \notin S, \A x \in S \cup {y} : f[x] \in Int
  PROVE  SumOver(f, S \cup {y}) = f[y] + SumOver(f, S)
<1>1. IsFiniteSet(S \cup {y}) /\ (S \cup {y}) \ {y} = S
  BY FS_AddElement
<1> QED BY <1>1, SumRemove

\* A function changed at one element.
LEMMA SumChange ==
  ASSUME NEW S, IsFiniteSet(S), NEW f, NEW g, NEW y \in S,
         \A x \in S : f[x] \in Int /\ g[x] \in Int, \A x \in S \ {y} : f[x] = g[x]
  PROVE  SumOver(g, S) = SumOver(f, S) - f[y] + g[y]
<1>1. IsFiniteSet(S \ {y})
  BY FS_Subset
<1>2. SumOver(f, S) = f[y] + SumOver(f, S \ {y}) /\ SumOver(g, S) = g[y] + SumOver(g, S \ {y})
  BY SumRemove
<1>3. SumOver(f, S \ {y}) = SumOver(g, S \ {y}) /\ SumOver(f, S \ {y}) \in Int
  BY <1>1, SumEqual, SumInt
<1> QED BY <1>2, <1>3

\* Disjoint sets add up.
LEMMA SumUnion ==
  ASSUME NEW S, IsFiniteSet(S), NEW T, IsFiniteSet(T), S \cap T = {}, NEW f,
         \A x \in S \cup T : f[x] \in Int
  PROVE  SumOver(f, S \cup T) = SumOver(f, S) + SumOver(f, T)
<1> DEFINE G == {U \in SUBSET T : SumOver(f, S \cup U) = SumOver(f, S) + SumOver(f, U)}
<1>1. {} \in G
  BY SumEmpty, SumInt
<1>2. ASSUME NEW U \in G, NEW z \in T \ U PROVE U \cup {z} \in G
  <2>1. IsFiniteSet(U) /\ IsFiniteSet(S \cup U) /\ S \cup (U \cup {z}) = (S \cup U) \cup {z}
    BY FS_Subset, FS_Union
  <2>2. SumOver(f, (S \cup U) \cup {z}) = f[z] + SumOver(f, S \cup U)
    BY <2>1, SumAdd
  <2>3. SumOver(f, U \cup {z}) = f[z] + SumOver(f, U)
    BY <2>1, SumAdd
  <2>4. SumOver(f, S) \in Int /\ SumOver(f, U) \in Int /\ f[z] \in Int
    BY <2>1, SumInt
  <2>5. SumOver(f, S \cup U) = SumOver(f, S) + SumOver(f, U)
    OBVIOUS
  <2>6. SumOver(f, S \cup (U \cup {z})) = SumOver(f, S) + SumOver(f, U \cup {z})
    <3>1. SumOver(f, S \cup (U \cup {z})) = f[z] + SumOver(f, S \cup U)
      BY <2>1, <2>2
    <3> HIDE DEF G
    <3> QED BY <3>1, <2>3, <2>4, <2>5, Sum3
  <2>7. U \cup {z} \in SUBSET T
    OBVIOUS
  <2> QED BY <2>6, <2>7
<1>3. T \in G
  <2> HIDE DEF G
  <2>1. G \in SUBSET (SUBSET T)
    BY DEF G
  <2> QED BY <1>1, <1>2, <2>1, SetInduction
<1> QED BY <1>3

LEMMA SumZero ==
  ASSUME NEW S, IsFiniteSet(S), NEW f, \A x \in S : f[x] = 0
  PROVE  SumOver(f, S) = 0
<1> DEFINE G == {U \in SUBSET S : SumOver(f, U) = 0}
<1>1. {} \in G
  BY SumEmpty
<1>2. ASSUME NEW U \in G, NEW z \in S \ U PROVE U \cup {z} \in G
  <2>1. IsFiniteSet(U) /\ z \notin U /\ \A x \in U \cup {z} : f[x] \in Int
    BY FS_Subset
  <2>2. SumOver(f, U \cup {z}) = f[z] + SumOver(f, U)
    <3> HIDE DEF G
    <3> QED BY <2>1, SumAdd
  <2> QED BY <2>2
<1>3. S \in G
  <2> HIDE DEF G
  <2>1. G \in SUBSET (SUBSET S)
    BY DEF G
  <2> QED BY <1>1, <1>2, <2>1, SetInduction
<1> QED BY <1>3

\* What is nowhere larger does not sum to more.
LEMMA SumMonotone ==
  ASSUME NEW S, IsFiniteSet(S), NEW f, NEW g,
         \A x \in S : f[x] \in Int /\ g[x] \in Int /\ f[x] <= g[x]
  PROVE  SumOver(f, S) <= SumOver(g, S)
<1> DEFINE G == {U \in SUBSET S : SumOver(f, U) <= SumOver(g, U)}
<1>1. {} \in G
  BY SumEmpty
<1>2. ASSUME NEW U \in G, NEW z \in S \ U PROVE U \cup {z} \in G
  <2>1. IsFiniteSet(U)
    BY FS_Subset
  <2>2. SumOver(f, U \cup {z}) = f[z] + SumOver(f, U) /\ SumOver(g, U \cup {z}) = g[z] + SumOver(g, U)
    BY <2>1, SumAdd
  <2>3. SumOver(f, U) \in Int /\ SumOver(g, U) \in Int
    BY <2>1, SumInt
  <2> QED BY <2>2, <2>3
<1>3. S \in G
  <2> HIDE DEF G
  <2>1. G \in SUBSET (SUBSET S)
    BY DEF G
  <2> QED BY <1>1, <1>2, <2>1, SetInduction
<1> QED BY <1>3

\* Sums of two functions add up.
LEMMA SumPlus ==
  ASSUME NEW S, IsFiniteSet(S), NEW f, NEW g, NEW h,
         \A x \in S : f[x] \in Int /\ g[x] \in Int /\ h[x] = f[x] + g[x]
  PROVE  SumOver(h, S) = SumOver(f, S) + SumOver(g, S)
<1> DEFINE G == {U \in SUBSET S : SumOver(h, U) = SumOver(f, U) + SumOver(g, U)}
<1>1. {} \in G
  BY SumEmpty
<1>2. ASSUME NEW U \in G, NEW z \in S \ U PROVE U \cup {z} \in G
  <2>1. IsFiniteSet(U) /\ z \notin U
        /\ \A x \in U \cup {z} : f[x] \in Int /\ g[x] \in Int /\ h[x] \in Int
    BY FS_Subset
  <2>2. SumOver(h, U) = SumOver(f, U) + SumOver(g, U) /\ h[z] = f[z] + g[z]
    OBVIOUS
  <2>3. U \cup {z} \in SUBSET S
    OBVIOUS
  <2> HIDE DEF G
  <2>4. /\ SumOver(f, U \cup {z}) = f[z] + SumOver(f, U)
        /\ SumOver(g, U \cup {z}) = g[z] + SumOver(g, U)
        /\ SumOver(h, U \cup {z}) = h[z] + SumOver(h, U)
    BY <2>1, SumAdd
  <2>5. SumOver(f, U) \in Int /\ SumOver(g, U) \in Int /\ f[z] \in Int /\ g[z] \in Int
    BY <2>1, SumInt
  <2>6. SumOver(h, U \cup {z}) = SumOver(f, U \cup {z}) + SumOver(g, U \cup {z})
    BY <2>2, <2>4, <2>5
  <2> QED BY <2>3, <2>6 DEF G
<1>3. S \in G
  <2> HIDE DEF G
  <2>1. G \in SUBSET (SUBSET S)
    BY DEF G
  <2> QED BY <1>1, <1>2, <2>1, SetInduction
<1> QED BY <1>3

\* g numbers the members of J with those of I.
Numbers(g, I, J) ==
  /\ \A i, j \in I : g[i] = g[j] => i = j
  /\ \A i \in I : g[i] \in J
  /\ \A y \in J : \E i \in I : y = g[i]

\* A sum over numbered things is one over the numbers.
LEMMA SumImage ==
  ASSUME NEW I, IsFiniteSet(I), NEW J, NEW g, Numbers(g, I, J),
         NEW f, NEW h, \A i \in I : h[i] \in Int /\ h[i] = f[g[i]]
  PROVE  IsFiniteSet(J) /\ SumOver(f, J) = SumOver(h, I)
<1> USE DEF Numbers
<1> DEFINE G == {U \in SUBSET I : /\ IsFiniteSet({g[i] : i \in U})
                                  /\ SumOver(f, {g[i] : i \in U}) = SumOver(h, U)}
<1>1. {} \in G
  <2>1. {g[i] : i \in {}} = {}
    OBVIOUS
  <2> QED BY <2>1, SumEmpty, FS_EmptySet
<1>2. ASSUME NEW U \in G, NEW z \in I \ U PROVE U \cup {z} \in G
  <2> DEFINE V == {g[i] : i \in U}
  <2>1. {g[i] : i \in U \cup {z}} = V \cup {g[z]} /\ U \cup {z} \in SUBSET I /\ g[z] \notin V
    OBVIOUS
  <2>2. IsFiniteSet(U) /\ IsFiniteSet(V) /\ SumOver(f, V) = SumOver(h, U)
    BY FS_Subset
  <2>3. (\A x \in V \cup {g[z]} : f[x] \in Int) /\ (\A i \in U \cup {z} : h[i] \in Int) /\ f[g[z]] = h[z]
    OBVIOUS
  <2> HIDE DEF V, G
  <2>4. IsFiniteSet(V \cup {g[z]})
    BY <2>2, FS_AddElement
  <2>5. SumOver(f, V \cup {g[z]}) = f[g[z]] + SumOver(f, V)
    BY <2>1, <2>2, <2>3, SumAdd
  <2>6. SumOver(h, U \cup {z}) = h[z] + SumOver(h, U)
    BY <2>2, <2>3, SumAdd
  <2> QED BY <2>1, <2>2, <2>3, <2>4, <2>5, <2>6 DEF G
<1>3. I \in G
  <2> HIDE DEF G
  <2>1. G \in SUBSET (SUBSET I)
    BY DEF G
  <2> QED BY <1>1, <1>2, <2>1, SetInduction
<1>4. J = {g[i] : i \in I}
  OBVIOUS
<1> QED BY <1>3, <1>4

\* What is 0 outside a part sums to the sum over the part.
LEMMA SumPart ==
  ASSUME NEW S, IsFiniteSet(S), NEW T \in SUBSET S, NEW f,
         \A x \in S : f[x] \in Int, \A x \in S \ T : f[x] = 0
  PROVE  SumOver(f, S) = SumOver(f, T)
<1>1. PICK R : R = S \ T
  OBVIOUS
<1>2. IsFiniteSet(T) /\ IsFiniteSet(R) /\ T \cap R = {} /\ S = T \cup R
  BY <1>1, FS_Subset
<1>3. (\A x \in T \cup R : f[x] \in Int) /\ (\A x \in T : f[x] \in Int) /\ \A x \in R : f[x] = 0
  BY <1>1
<1>4. SumOver(f, T \cup R) = SumOver(f, T) + SumOver(f, R)
  BY <1>2, <1>3, SumUnion
<1>5. SumOver(f, R) = 0 /\ SumOver(f, T) \in Int
  BY <1>2, <1>3, SumZero, SumInt
<1>6. SumOver(f, S) = SumOver(f, T \cup R)
  BY <1>2
<1> QED BY <1>4, <1>5, <1>6

\* A sum over 1..n, shifted by one.
LEMMA SumShift ==
  ASSUME NEW n \in Nat, NEW f, NEW g, \A i \in 1..(n + 1) : f[i] \in Int,
         \A i \in 1..n : g[i] = f[i + 1]
  PROVE  SumOver(f, 1..(n + 1)) = f[1] + SumOver(g, 1..n)
<1> DEFINE G == {k \in 0..n : SumOver(f, 1..(k + 1)) = f[1] + SumOver(g, 1..k)}
<1>1. 0 \in G
  <2>1. 1..0 = {} /\ 1..(0 + 1) = {} \cup {1} /\ 1 \notin {}
    OBVIOUS
  <2>2. \A i \in {} \cup {1} : f[i] \in Int
    OBVIOUS
  <2>3. SumOver(f, {} \cup {1}) = f[1] + SumOver(f, {})
    BY <2>1, <2>2, SumAdd, FS_EmptySet
  <2> QED BY <2>1, <2>2, <2>3, SumEmpty
<1>2. \A k \in 0..n : k \in G /\ k < n => k + 1 \in G
  <2> SUFFICES ASSUME NEW k \in 0..n, k \in G, k < n PROVE k + 1 \in G
    OBVIOUS
  <2>1. /\ 1..(k + 2) = (1..(k + 1)) \cup {k + 2} /\ k + 2 \notin 1..(k + 1)
        /\ 1..(k + 1) = (1..k) \cup {k + 1} /\ k + 1 \notin 1..k
        /\ 1..(k + 2) \subseteq 1..(n + 1) /\ 1..(k + 1) \subseteq 1..n
    OBVIOUS
  <2>2. IsFiniteSet(1..k) /\ IsFiniteSet(1..(k + 1))
    BY FS_Interval
  <2>3. \A i \in (1..(k + 1)) \cup {k + 2} : f[i] \in Int
    BY <2>1
  <2>4. SumOver(f, 1..(k + 2)) = f[k + 2] + SumOver(f, 1..(k + 1))
    BY <2>1, <2>2, <2>3, SumAdd
  <2>5. \A i \in (1..k) \cup {k + 1} : g[i] \in Int /\ g[i] = f[i + 1]
    BY <2>1
  <2>6. SumOver(g, 1..(k + 1)) = g[k + 1] + SumOver(g, 1..k)
    BY <2>1, <2>2, <2>5, SumAdd
  <2>7. g[k + 1] = f[k + 2] /\ f[k + 2] \in Int /\ f[1] \in Int
    BY <2>1, <2>3
  <2>8. SumOver(g, 1..k) \in Int
    BY <2>2, <2>5, SumInt
  <2>9. SumOver(f, 1..(k + 1)) = f[1] + SumOver(g, 1..k)
    OBVIOUS
  <2>10. SumOver(f, 1..((k + 1) + 1)) = f[1] + SumOver(g, 1..(k + 1))
    <3>1. (k + 1) + 1 = k + 2
      OBVIOUS
    <3> QED BY <2>4, <2>6, <2>7, <2>8, <2>9, <3>1
  <2> QED BY <2>10
<1> HIDE DEF G
<1>3. 0..n \subseteq G
  BY <1>1, <1>2, CountInduction
<1> QED BY <1>3 DEF G
=============================================================================
