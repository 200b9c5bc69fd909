-------------------------- MODULE RecursionProofs --------------------------
(***************************************************************************)
(* What the models define by recursion, and the programs whose safety      *)
(* rests on it, for every value of their constants: the sums of Assignment *)
(* 5 (TimeWar) and catpng (CatPng), sequences one behind another, the CRC  *)
(* of pnginfo (Crc, PngInfo) and the directory tree of findpng (FindPng1). *)
(*                                                                         *)
(* A fold is a CHOOSE of a recursive function.  That such a function       *)
(* exists, and that the order in which it takes the elements makes no      *)
(* difference, are the lemmas the module begins with.                      *)
(*                                                                         *)
(* TimeWar.  LockInv: the holder of a mutex has a current copy of what it  *)
(* protects.  GatherInv and JoinInv follow main through its two loops.     *)
(* BarrierInv: arrived counts the doctors that came to the barrier, so     *)
(* that the first to pass it finds all of them gathered.  SumInv: each     *)
(* coordinate is the sum of the doctors that have added to it.             *)
(*                                                                         *)
(* CatPng.  InflateInv: what is inflated is the pixels of the strips       *)
(* before k and the first ones of strip k, behind each other.              *)
(*                                                                         *)
(* PngInfo.  A round of the table is linear in the bits it is given, so    *)
(* that two messages' checksums differ by what the rounds make of the      *)
(* burst, and a round loses nothing.  InfoInv: the damaged chunks are      *)
(* those whose checksums are wrong, and those looked at are reported.      *)
(*                                                                         *)
(* FindPng1.  WalkInv: what is printed is what the directories that are    *)
(* done contribute, and what the entries already read of the open ones do. *)
(***************************************************************************)
EXTENDS TimeWar, CatPng, FindPng1, PngInfo, FiniteSetTheorems, SequenceTheorems, TLAPS

-----------------------------------------------------------------------------
(* Sums.                                                                    *)

(* Induction, from the fact that no bounded set of numbers has a function   *)
(* onto more of itself.                                                     *)
LEMMA SetInduction ==
  ASSUME NEW T \in SUBSET Nat, 0 \in T, \A i \in T : i + 1 \in T
  PROVE  T = Nat
<1> SUFFICES ASSUME NEW m \in Nat, m \notin T PROVE FALSE
  OBVIOUS
<1> DEFINE S == T \cap (0 .. m)
           U == S \ {0}
           f == [i \in S |-> i + 1]
<1>1. IsFiniteSet(S)
  <2>1. S \in SUBSET Nat /\ \A i \in S : i <= m
    OBVIOUS
  <2>2. QED BY <2>1, FS_BoundedSetOfNaturals
<1>2. IsFiniteSet(U) /\ Cardinality(U) < Cardinality(S)
  <2>1. 0 \in S
    OBVIOUS
  <2> HIDE DEF S
  <2>2. IsFiniteSet(S \ {0}) /\ Cardinality(S \ {0}) = Cardinality(S) - 1
    BY <1>1, <2>1, FS_RemoveElement
  <2>3. Cardinality(S) \in Nat
    BY <1>1, FS_CardinalityType
  <2>4. QED BY <2>2, <2>3
<1>3. f \in [S -> U]
  <2>1. ASSUME NEW i \in S PROVE i + 1 \in U
    <3>1. i \in T /\ i \in Nat /\ i <= m /\ i # m
      OBVIOUS
    <3>2. QED BY <3>1
  <2>2. QED BY <2>1
<1>4. \A i, j \in S : i # j => f[i] # f[j]
  <2>1. \A i \in S : f[i] = i + 1 /\ i \in Nat
    OBVIOUS
  <2> HIDE DEF f, S
  <2>2. QED BY <2>1
<1> HIDE DEF f, S, U
<1>5. QED BY <1>1, <1>2, <1>3, <1>4, FS_PigeonHole

(* The element of s that a fold takes next. *)
Pick(s) == CHOOSE x \in s : TRUE

LEMMA Picks == \A s : s # {} => Pick(s) \in s
  BY DEF Pick

(* What the fold of a sum computes for the sets of D. *)
Folds(f, D, g) ==
  g = [s \in D |-> IF s = {} THEN 0 ELSE f[Pick(s)] + g[s \ {Pick(s)}]]

LEMMA SumIsFold ==
  \A f, S : SumFunctionOnSet(f, S) = (CHOOSE g : Folds(f, SUBSET S, g))[S]
  BY DEF SumFunctionOnSet, FoldFunctionOnSet, MapThenFoldSet, Folds, Pick

LEMMA TakeOne ==
  ASSUME NEW s, IsFiniteSet(s), s # {}
  PROVE  /\ Pick(s) \in s /\ s \ {Pick(s)} \subseteq s /\ IsFiniteSet(s \ {Pick(s)})
         /\ Cardinality(s) \in Nat /\ Cardinality(s) >= 1
         /\ Cardinality(s \ {Pick(s)}) = Cardinality(s) - 1
<1>1. Pick(s) \in s
  BY Picks
<1>2. Cardinality(s) \in Nat /\ Cardinality(s) # 0
  BY FS_CardinalityType, FS_EmptySet
<1>3. /\ IsFiniteSet(s \ {Pick(s)})
      /\ Cardinality(s \ {Pick(s)}) = Cardinality(s) - 1
  BY <1>1, FS_RemoveElement
<1>4. QED BY <1>1, <1>2, <1>3

(* The subsets of S with at most i elements. *)
UpTo(S, i) == {s \in SUBSET S : Cardinality(s) <= i}

(* A fold has a value for every finite set. *)
LEMMA FoldExists ==
  ASSUME NEW f, NEW S, IsFiniteSet(S)
  PROVE  \E g : Folds(f, SUBSET S, g)
<1> DEFINE T == {i \in Nat : \E g : Folds(f, UpTo(S, i), g)}
<1>1. \A s \in SUBSET S : IsFiniteSet(s) /\ Cardinality(s) \in Nat
                         /\ Cardinality(s) <= Cardinality(S)
  BY FS_Subset, FS_CardinalityType
<1>2. 0 \in T
  <2>1. UpTo(S, 0) = {{}}
    <3>1. \A s \in SUBSET S : Cardinality(s) <= 0 <=> s = {}
      BY <1>1, FS_EmptySet
    <3>2. QED BY <3>1 DEF UpTo
  <2>2. Folds(f, UpTo(S, 0), [s \in UpTo(S, 0) |-> 0])
    BY <2>1 DEF Folds
  <2>3. QED BY <2>2
<1>3. ASSUME NEW i \in T PROVE i + 1 \in T
  <2>1. i \in Nat
    OBVIOUS
  <2>2. PICK g : Folds(f, UpTo(S, i), g)
    OBVIOUS
  <2> DEFINE D == UpTo(S, i + 1)
             h == [s \in D |-> IF s = {} THEN 0 ELSE f[Pick(s)] + g[s \ {Pick(s)}]]
  <2>3. \A s \in D : s # {} => s \ {Pick(s)} \in UpTo(S, i)
    <3>1. ASSUME NEW s \in D, s # {} PROVE s \ {Pick(s)} \in UpTo(S, i)
      <4>1. s \in SUBSET S /\ Cardinality(s) <= i + 1 /\ IsFiniteSet(s)
        BY <1>1 DEF UpTo
      <4>2. /\ Cardinality(s) \in Nat
            /\ Cardinality(s \ {Pick(s)}) = Cardinality(s) - 1
        BY <3>1, <4>1, TakeOne
      <4>3. s \ {Pick(s)} \in SUBSET S /\ Cardinality(s \ {Pick(s)}) <= i
        BY <2>1, <4>1, <4>2
      <4>4. QED BY <4>3 DEF UpTo
    <3>2. QED BY <3>1
  <2>4. \A s \in UpTo(S, i) : s \in D /\ g[s] = h[s]
    <3>1. ASSUME NEW s \in UpTo(S, i) PROVE s \in D
      BY <1>1, <2>1 DEF UpTo
    <3>2. ASSUME NEW s \in UpTo(S, i)
          PROVE  g[s] = IF s = {} THEN 0 ELSE f[Pick(s)] + g[s \ {Pick(s)}]
      BY <2>2 DEF Folds
    <3>3. QED BY <3>1, <3>2
  <2> HIDE DEF D
  <2>5. h = [s \in D |-> IF s = {} THEN 0 ELSE f[Pick(s)] + h[s \ {Pick(s)}]]
    BY <2>3, <2>4
  <2> HIDE DEF h
  <2>6. Folds(f, D, h)
    BY <2>5 DEF Folds
  <2>7. QED BY <2>1, <2>6 DEF D
<1>4. T = Nat
  <2>1. T \in SUBSET Nat
    OBVIOUS
  <2> HIDE DEF T
  <2>2. QED BY <1>2, <1>3, <2>1, SetInduction
<1>5. UpTo(S, Cardinality(S)) = SUBSET S
  BY <1>1 DEF UpTo
<1>6. Cardinality(S) \in T
  BY <1>4, FS_CardinalityType
<1>7. QED BY <1>5, <1>6

(* Folds of functions with the same values agree, wherever both are defined.*)
LEMMA FoldsAgree ==
  ASSUME NEW f, NEW f2, NEW S, NEW S2, NEW g, NEW g2, NEW s, IsFiniteSet(s),
         Folds(f, SUBSET S, g), Folds(f2, SUBSET S2, g2),
         s \subseteq S, s \subseteq S2, \A x \in s : f[x] = f2[x]
  PROVE  g[s] = g2[s]
<1> DEFINE T == {i \in Nat : \A r \in SUBSET s : Cardinality(r) = i => g[r] = g2[r]}
<1>1. \A r \in SUBSET s : IsFiniteSet(r) /\ Cardinality(r) \in Nat
  BY FS_Subset, FS_CardinalityType
<1>2. \A r \in SUBSET s :
        /\ g[r] = IF r = {} THEN 0 ELSE f[Pick(r)] + g[r \ {Pick(r)}]
        /\ g2[r] = IF r = {} THEN 0 ELSE f2[Pick(r)] + g2[r \ {Pick(r)}]
  <2>1. ASSUME NEW r \in SUBSET s PROVE r \in SUBSET S /\ r \in SUBSET S2
    OBVIOUS
  <2>2. QED BY <2>1 DEF Folds
<1>3. 0 \in T
  BY <1>1, <1>2, FS_EmptySet
<1>4. ASSUME NEW i \in T PROVE i + 1 \in T
  <2>1. i \in Nat
    OBVIOUS
  <2>2. ASSUME NEW r \in SUBSET s, Cardinality(r) = i + 1 PROVE g[r] = g2[r]
    <3>1. IsFiniteSet(r) /\ r # {}
      BY <1>1, <2>1, <2>2, FS_EmptySet
    <3>2. Pick(r) \in s /\ r \ {Pick(r)} \in SUBSET s /\ Cardinality(r \ {Pick(r)}) = i
      <4>1. /\ Pick(r) \in r /\ Cardinality(r) \in Nat
            /\ Cardinality(r \ {Pick(r)}) = Cardinality(r) - 1
        BY <3>1, TakeOne
      <4>2. QED BY <2>1, <2>2, <4>1
    <3>3. g[r \ {Pick(r)}] = g2[r \ {Pick(r)}]
      BY <3>2
    <3>4. QED BY <1>2, <3>1, <3>2, <3>3
  <2>3. QED BY <2>1, <2>2
<1>5. T = Nat
  <2>1. T \in SUBSET Nat
    OBVIOUS
  <2> HIDE DEF T
  <2>2. QED BY <1>3, <1>4, <2>1, SetInduction
<1>6. Cardinality(s) \in T
  BY <1>5, FS_CardinalityType
<1>7. QED BY <1>6

(* One step of a sum, and that it depends on nothing outside the set.       *)
LEMMA SumStep ==
  ASSUME NEW f, NEW S, IsFiniteSet(S)
  PROVE  /\ S = {} => SumFunctionOnSet(f, S) = 0
         /\ S # {} => SumFunctionOnSet(f, S)
                        = f[Pick(S)] + SumFunctionOnSet(f, S \ {Pick(S)})
<1> DEFINE R == S \ {Pick(S)}
           g == CHOOSE h : Folds(f, SUBSET S, h)
           g2 == CHOOSE h : Folds(f, SUBSET R, h)
<1>1. IsFiniteSet(R)
  BY FS_RemoveElement
<1>2. Folds(f, SUBSET S, g) /\ Folds(f, SUBSET R, g2)
  <2>1. Folds(f, SUBSET S, g)
    BY FoldExists
  <2>2. Folds(f, SUBSET R, g2)
    <3> HIDE DEF R
    <3>1. QED BY <1>1, FoldExists
  <2>3. QED BY <2>1, <2>2
<1>3. SumFunctionOnSet(f, S) = g[S] /\ SumFunctionOnSet(f, R) = g2[R]
  BY SumIsFold
<1> HIDE DEF g, g2
<1>4. g[S] = IF S = {} THEN 0 ELSE f[Pick(S)] + g[R]
  BY <1>2 DEF Folds
<1>5. g[R] = g2[R]
  <2>1. R \subseteq S /\ R \subseteq R /\ \A x \in R : f[x] = f[x]
    OBVIOUS
  <2> HIDE DEF R
  <2>2. QED BY <1>1, <1>2, <2>1, FoldsAgree
<1>6. QED BY <1>3, <1>4, <1>5

LEMMA SumSame ==
  ASSUME NEW f, NEW f2, NEW S, IsFiniteSet(S), \A x \in S : f[x] = f2[x]
  PROVE  SumFunctionOnSet(f, S) = SumFunctionOnSet(f2, S)
<1> DEFINE g == CHOOSE h : Folds(f, SUBSET S, h)
           g2 == CHOOSE h : Folds(f2, SUBSET S, h)
<1>1. Folds(f, SUBSET S, g) /\ Folds(f2, SUBSET S, g2)
  BY FoldExists
<1>2. SumFunctionOnSet(f, S) = g[S] /\ SumFunctionOnSet(f2, S) = g2[S]
  BY SumIsFold
<1> HIDE DEF g, g2
<1>3. g[S] = g2[S]
  BY <1>1, FoldsAgree
<1>4. QED BY <1>2, <1>3

SumsWell(f, s) ==
  /\ SumFunctionOnSet(f, s) \in Nat
  /\ \A x \in s : SumFunctionOnSet(f, s) = f[x] + SumFunctionOnSet(f, s \ {x})

(* Whatever element a fold takes first, a sum of numbers is the same.       *)
LEMMA SumTakesAny ==
  ASSUME NEW f, NEW S, IsFiniteSet(S), \A x \in S : f[x] \in Nat
  PROVE  SumsWell(f, S)
<1> DEFINE T == {i \in Nat : \A s \in SUBSET S : Cardinality(s) <= i => SumsWell(f, s)}
<1>1. \A s \in SUBSET S : IsFiniteSet(s) /\ Cardinality(s) \in Nat
  BY FS_Subset, FS_CardinalityType
<1>2. SumsWell(f, {})
  BY FS_EmptySet, SumStep DEF SumsWell
<1>3. 0 \in T
  <2>1. \A s \in SUBSET S : Cardinality(s) <= 0 => s = {}
    BY <1>1, FS_EmptySet
  <2>2. QED BY <1>2, <2>1
<1>4. ASSUME NEW i \in T PROVE i + 1 \in T
  <2>1. i \in Nat /\ \A s \in SUBSET S : Cardinality(s) <= i => SumsWell(f, s)
    OBVIOUS
  <2>2. ASSUME NEW s \in SUBSET S, Cardinality(s) <= i + 1, s # {} PROVE SumsWell(f, s)
    <3> DEFINE p == Pick(s)
    <3>1. IsFiniteSet(s)
      BY <1>1
    <3>2. p \in s /\ \A x \in s : SumsWell(f, s \ {x}) /\ f[x] \in Nat
      <4>1. Pick(s) \in s /\ Cardinality(s) \in Nat
        BY <2>2, <3>1, TakeOne
      <4>2. ASSUME NEW x \in s PROVE SumsWell(f, s \ {x})
        <5>1. Cardinality(s \ {x}) = Cardinality(s) - 1
          BY <3>1, FS_RemoveElement
        <5>2. Cardinality(s \ {x}) <= i /\ s \ {x} \in SUBSET S
          BY <2>1, <2>2, <4>1, <5>1
        <5>3. QED BY <2>1, <5>2
      <4>3. QED BY <4>1, <4>2
    <3>3. SumFunctionOnSet(f, s) = f[p] + SumFunctionOnSet(f, s \ {p})
      BY <2>2, <3>1, SumStep
    <3> HIDE DEF p
    <3>4. SumFunctionOnSet(f, s) \in Nat
      BY <3>2, <3>3 DEF SumsWell
    <3>5. ASSUME NEW x \in s, x # p
          PROVE  SumFunctionOnSet(f, s) = f[x] + SumFunctionOnSet(f, s \ {x})
      <4> DEFINE r == (s \ {p}) \ {x}
      <4>1. SumFunctionOnSet(f, s \ {p}) = f[x] + SumFunctionOnSet(f, r)
        BY <3>2, <3>5 DEF SumsWell
      <4>2. r = (s \ {x}) \ {p}
        OBVIOUS
      <4> HIDE DEF r
      <4>3. SumFunctionOnSet(f, s \ {x}) = f[p] + SumFunctionOnSet(f, r)
        BY <3>2, <3>5, <4>2 DEF SumsWell
      <4>4. f[x] \in Nat /\ f[p] \in Nat
        BY <3>2
      <4>5. SumFunctionOnSet(f, r) \in Nat
        <5>1. SumsWell(f, r)
          <6>1. r \in SUBSET S /\ Cardinality(r) <= i
            <7>1. IsFiniteSet(s \ {p}) /\ Cardinality(s \ {p}) = Cardinality(s) - 1
              BY <3>1, <3>2, FS_RemoveElement
            <7>2. r \subseteq s \ {p}
              BY DEF r
            <7>3. Cardinality(r) <= Cardinality(s \ {p})
              BY <7>1, <7>2, FS_Subset
            <7>4. Cardinality(r) \in Nat /\ Cardinality(s) \in Nat /\ r \in SUBSET S
              BY <1>1, <7>2
            <7>5. QED BY <2>1, <2>2, <7>1, <7>3, <7>4
          <6>2. QED BY <2>1, <6>1
        <5>2. QED BY <5>1 DEF SumsWell
      <4>6. QED BY <3>3, <4>1, <4>3, <4>4, <4>5
    <3>6. QED BY <3>3, <3>4, <3>5 DEF SumsWell
  <2>3. QED BY <1>2, <2>1, <2>2
<1>5. T = Nat
  <2>1. T \in SUBSET Nat
    OBVIOUS
  <2> HIDE DEF T
  <2>2. QED BY <1>3, <1>4, <2>1, SetInduction
<1>6. Cardinality(S) \in T
  BY <1>5, FS_CardinalityType
<1>7. QED BY <1>6, <1>1

SumTo(f, i) == SumFunctionOnSet(f, 1 .. i)

LEMMA SumOfSequence ==
  ASSUME NEW m \in Nat, NEW f \in [1 .. m -> Nat]
  PROVE  /\ \A i \in 0 .. m : SumTo(f, i) \in Nat
         /\ SumTo(f, 0) = 0
         /\ \A i \in 1 .. m : SumTo(f, i) = SumTo(f, i - 1) + f[i]
<1>1. ASSUME NEW i \in 0 .. m
      PROVE  IsFiniteSet(1 .. i) /\ SumsWell(f, 1 .. i)
  <2>1. IsFiniteSet(1 .. i)
    BY FS_Interval
  <2>2. \A j \in 1 .. i : f[j] \in Nat
    OBVIOUS
  <2>3. QED BY <2>1, <2>2, SumTakesAny
<1>2. SumTo(f, 0) = 0
  <2>1. 1 .. 0 = {}
    OBVIOUS
  <2>2. QED BY <2>1, FS_EmptySet, SumStep DEF SumTo
<1>3. ASSUME NEW i \in 1 .. m
      PROVE  SumTo(f, i) = SumTo(f, i - 1) + f[i]
  <2>1. i \in 1 .. i /\ (1 .. i) \ {i} = 1 .. i - 1
    OBVIOUS
  <2>2. i \in 0 .. m /\ i - 1 \in 0 .. m
    OBVIOUS
  <2>3. SumTo(f, i) = f[i] + SumTo(f, i - 1)
    BY <1>1, <2>1, <2>2 DEF SumsWell, SumTo
  <2>4. SumTo(f, i - 1) \in Nat /\ f[i] \in Nat
    BY <1>1, <2>2 DEF SumsWell, SumTo
  <2>5. QED BY <2>3, <2>4
<1>4. QED BY <1>1, <1>2, <1>3 DEF SumsWell, SumTo

(* Sums of terms of which each is at most c times another. *)
LEMMA SumScales ==
  ASSUME NEW m \in Nat, NEW f \in [1 .. m -> Nat], NEW h \in [1 .. m -> Nat],
         NEW c \in Nat, \A i \in 1 .. m : f[i] <= c * h[i]
  PROVE  \A i \in 0 .. m : SumTo(f, i) <= c * SumTo(h, i)
<1> DEFINE T == {i \in Nat : i <= m => SumTo(f, i) <= c * SumTo(h, i)}
<1>1. 0 \in T
  <2>1. SumTo(f, 0) = 0 /\ SumTo(h, 0) = 0
    BY SumOfSequence
  <2>2. c * 0 = 0
    OBVIOUS
  <2>3. QED BY <2>1, <2>2
<1>2. ASSUME NEW i \in T PROVE i + 1 \in T
  <2>1. ASSUME i + 1 <= m PROVE SumTo(f, i + 1) <= c * SumTo(h, i + 1)
    <3>1. i + 1 \in 1 .. m /\ i \in 0 .. m /\ (i + 1) - 1 = i
      BY <2>1
    <3>2. /\ SumTo(f, i + 1) = SumTo(f, i) + f[i + 1]
          /\ SumTo(h, i + 1) = SumTo(h, i) + h[i + 1]
      BY <3>1, SumOfSequence
    <3>3. SumTo(f, i) \in Nat /\ SumTo(h, i) \in Nat /\ f[i + 1] \in Nat /\ h[i + 1] \in Nat
      BY <3>1, SumOfSequence
    <3>4. SumTo(f, i) <= c * SumTo(h, i) /\ f[i + 1] <= c * h[i + 1]
      BY <3>1
    <3>5. \A x, y \in Nat : c * (x + y) = c * x + c * y /\ c * x \in Nat
      OBVIOUS
    <3> HIDE DEF T
    <3>6. c * SumTo(h, i + 1) = c * SumTo(h, i) + c * h[i + 1]
          /\ c * SumTo(h, i) \in Nat /\ c * h[i + 1] \in Nat
      <4>1. /\ c * (SumTo(h, i) + h[i + 1]) = c * SumTo(h, i) + c * h[i + 1]
            /\ c * SumTo(h, i) \in Nat /\ c * h[i + 1] \in Nat
        BY <3>3, <3>5
      <4>2. QED BY <3>2, <4>1
    <3>7. \A a, b, x, y \in Nat : a <= x /\ b <= y => a + b <= x + y
      OBVIOUS
    <3>8. QED BY <3>2, <3>3, <3>4, <3>6, <3>7
  <2>2. QED BY <2>1
<1>3. T = Nat
  <2>1. T \in SUBSET Nat
    OBVIOUS
  <2> HIDE DEF T
  <2>2. QED BY <1>1, <1>2, <2>1, SetInduction
<1>4. QED BY <1>3

LEMMA SumGrows ==
  ASSUME NEW m \in Nat, NEW f \in [1 .. m -> Nat]
  PROVE  \A i \in 0 .. m : SumTo(f, i) <= SumTo(f, m)
<1> DEFINE T == {i \in Nat : i <= m => SumTo(f, m - i) <= SumTo(f, m)}
<1>1. 0 \in T
  <2>1. m - 0 = m /\ m \in 0 .. m
    OBVIOUS
  <2>2. SumTo(f, m) \in Nat
    BY <2>1, SumOfSequence
  <2>3. QED BY <2>1, <2>2
<1>2. ASSUME NEW i \in T PROVE i + 1 \in T
  <2>1. ASSUME i + 1 <= m PROVE SumTo(f, m - (i + 1)) <= SumTo(f, m)
    <3> DEFINE j == m - i
    <3>1. j \in 1 .. m /\ j \in 0 .. m /\ j - 1 \in 0 .. m /\ m \in 0 .. m
          /\ m - (i + 1) = j - 1 /\ SumTo(f, j) <= SumTo(f, m)
      BY <2>1
    <3> HIDE DEF j
    <3>2. /\ SumTo(f, j) = SumTo(f, j - 1) + f[j]
          /\ SumTo(f, j - 1) \in Nat /\ f[j] \in Nat /\ SumTo(f, m) \in Nat
      BY <3>1, SumOfSequence
    <3>3. QED BY <3>1, <3>2
  <2>2. QED BY <2>1
<1>3. T = Nat
  <2>1. T \in SUBSET Nat
    OBVIOUS
  <2> HIDE DEF T
  <2>2. QED BY <1>1, <1>2, <2>1, SetInduction
<1>4. ASSUME NEW i \in 0 .. m PROVE SumTo(f, i) <= SumTo(f, m)
  <2>1. m - i \in Nat /\ m - i <= m /\ m - (m - i) = i
    OBVIOUS
  <2>2. SumTo(f, m - (m - i)) <= SumTo(f, m)
    BY <1>3, <2>1
  <2>3. QED BY <2>1, <2>2
<1>5. QED BY <1>4

-----------------------------------------------------------------------------
(* Assignment 5: where the threads are.                                     *)

Past   == {"barrier", "calculated", "add", "added", "count", "done"}
Passed == {"calculated", "add", "added", "count", "done"}
Added  == {"added", "count", "done"}

LockInv ==
  \A d \in Doctors :
    /\ pc[d] = "add"   => lock2 = d /\ copy[d] = coordinates[coordinateOf[d]]
    /\ pc[d] = "count" => lock1 = d /\ copy[d] = ready

GatherInv ==
  /\ IF program = "gather" THEN created < num_doctors ELSE created = num_doctors
  /\ \A d \in Doctors : pc[d] = "unborn" <=> d >= created

JoinInv ==
  /\ program = "gather" => joined = 0
  /\ program = "wait" => joined < num_doctors
  /\ program \in {"read_ready", "verify", "stands", "falls"} => joined = num_doctors
  /\ \A d \in Doctors : d < joined => pc[d] \in {"done", "missing"}

BarrierInv ==
  /\ arrived = Cardinality(At(Past))
  /\ At(Passed) # {} => arrived = num_doctors

TimeInv == TypeOK /\ LockInv /\ GatherInv /\ JoinInv /\ BarrierInv

-----------------------------------------------------------------------------
(* Counting the doctors at a place.                                         *)

LEMMA DoctorsFinite ==
  /\ num_doctors \in Nat \ {0} /\ Doctors \subseteq Nat
  /\ IsFiniteSet(Doctors) /\ Cardinality(Doctors) = num_doctors
<1>1. IsFiniteSet(0 .. num_doctors - 1)
      /\ Cardinality(0 .. num_doctors - 1)
           = IF 0 > num_doctors - 1 THEN 0 ELSE num_doctors - 1 - 0 + 1
  BY DoctorAssumption, FS_Interval
<1> QED
  BY <1>1, DoctorAssumption DEF Doctors

LEMMA AtFinite ==
  ASSUME NEW S
  PROVE  /\ IsFiniteSet(At(S)) /\ Cardinality(At(S)) \in Nat
         /\ Cardinality(At(S)) <= num_doctors
         /\ Cardinality(At(S)) = num_doctors => At(S) = Doctors
         /\ Cardinality(At(S)) = 0 <=> At(S) = {}
<1>1. At(S) \in SUBSET Doctors
  BY DEF At
<1>2. IsFiniteSet(At(S)) /\ Cardinality(At(S)) <= Cardinality(Doctors)
      /\ (Cardinality(Doctors) = Cardinality(At(S)) => Doctors = At(S))
  BY <1>1, DoctorsFinite, FS_Subset
<1> QED
  BY <1>2, DoctorsFinite, FS_CardinalityType, FS_EmptySet

(* One doctor goes from one place to another. *)
LEMMA AtMoves ==
  ASSUME NEW P, pc \in [Doctors -> P], NEW d \in Doctors, NEW to,
         pc' = [pc EXCEPT ![d] = to], NEW S
  PROVE  Cardinality(At(S)') =
           Cardinality(At(S)) + (IF to \in S THEN 1 ELSE 0)
                              - (IF pc[d] \in S THEN 1 ELSE 0)
<1>1. IsFiniteSet(At(S)) /\ Cardinality(At(S)) \in Nat
  BY AtFinite
<1>2. pc'[d] = to /\ \A e \in Doctors : e # d => pc'[e] = pc[e]
  OBVIOUS
<1>3. CASE to \in S /\ pc[d] \notin S
  <2>1. At(S)' = At(S) \cup {d} /\ d \notin At(S)
    BY <1>2, <1>3 DEF At
  <2>2. Cardinality(At(S) \cup {d}) = Cardinality(At(S)) + 1
    BY <1>1, <2>1, FS_AddElement
  <2> QED
    BY <1>1, <1>3, <2>1, <2>2
<1>4. CASE to \notin S /\ pc[d] \in S
  <2>1. At(S)' = At(S) \ {d} /\ d \in At(S)
    BY <1>2, <1>4 DEF At
  <2>2. Cardinality(At(S) \ {d}) = Cardinality(At(S)) - 1
    BY <1>1, <2>1, FS_RemoveElement
  <2> QED
    BY <1>1, <1>4, <2>1, <2>2
<1>5. CASE to \in S <=> pc[d] \in S
  <2>1. At(S)' = At(S)
    BY <1>2, <1>5 DEF At
  <2> QED
    BY <1>1, <1>5, <2>1
<1> QED
  BY <1>3, <1>4, <1>5

-----------------------------------------------------------------------------
LEMMA TimeInit == Init => TimeInv
<1> SUFFICES ASSUME Init PROVE TimeInv
  OBVIOUS
<1>1. TypeOK
  BY DoctorAssumption, DoctorsFinite DEF Init, TypeOK
<1>2. LockInv /\ GatherInv /\ JoinInv
  BY DoctorsFinite DEF Init, LockInv, GatherInv, JoinInv
<1>3. At(Past) = {} /\ At(Passed) = {}
  BY DEF Init, At, Past, Passed
<1>4. BarrierInv
  BY <1>3, FS_EmptySet DEF Init, BarrierInv
<1> QED
  BY <1>1, <1>2, <1>4 DEF TimeInv

(* Where a doctor's step takes it. *)
DoctorMoves == {<<"start", "barrier">>, <<"barrier", "calculated">>, <<"calculated", "add">>,
                <<"add", "added">>, <<"added", "count">>, <<"count", "done">>}

LEMMA DoctorMove ==
  ASSUME NEW d \in Doctors, DoctorStep(d)
  PROVE  /\ UNCHANGED <<program, created, joined, final_ready>>
         /\ \E m \in DoctorMoves : Goto(d, m[1], m[2])
BY DEF DoctorStep, Arrive, PassBarrier, ReadCoordinate, AddCoordinate, ReadReady,
       CountReady, DoctorMoves, sums

LEMMA DoctorTypes ==
  ASSUME TimeInv, NEW d \in Doctors, DoctorStep(d)
  PROVE  TypeOK' /\ LockInv'
<1>0. /\ TypeOK /\ LockInv /\ d \in Nat /\ NoOne \notin Doctors
      /\ coordinateOf \in [Doctors -> Coordinates] /\ BarrierInv
      /\ num_doctors \in Nat
  BY DoctorAssumption, DoctorsFinite DEF TimeInv, Doctors
<1> USE DEF Goto, locks, sums
<1>1. CASE Arrive(d)
  <2>1. Cardinality(At(Past)') = Cardinality(At(Past)) + 1
    <3>0. /\ pc' = [pc EXCEPT ![d] = "barrier"]
          /\ pc \in [Doctors -> {"unborn", "missing", "start", "barrier", "calculated",
                                 "add", "added", "count", "done"}]
      BY <1>0, <1>1 DEF Arrive, TypeOK
    <3>1. Cardinality(At(Past)') = Cardinality(At(Past))
             + (IF "barrier" \in Past THEN 1 ELSE 0) - (IF pc[d] \in Past THEN 1 ELSE 0)
      BY <3>0, AtMoves
    <3>2. "barrier" \in Past /\ pc[d] \notin Past
      BY <1>1 DEF Arrive, Past
    <3> QED
      BY <3>1, <3>2, AtFinite
  <2>2. Cardinality(At(Past)') <= num_doctors
    <3>1. At(Past)' \in SUBSET Doctors
      BY DEF At
    <3>2. IsFiniteSet(Doctors) /\ Cardinality(Doctors) = num_doctors
      BY DoctorsFinite
    <3>3. Cardinality(At(Past)') <= Cardinality(Doctors)
      BY <3>1, <3>2, FS_Subset
    <3> QED
      BY <3>2, <3>3
  <2>3. arrived' \in 0 .. num_doctors
    BY <1>0, <1>1, <2>1, <2>2 DEF Arrive, BarrierInv, TypeOK
  <2> QED
    BY <1>0, <1>1, <2>3 DEF Arrive, TypeOK, LockInv
<1>2. CASE PassBarrier(d)
  BY <1>0, <1>2 DEF PassBarrier, TypeOK, LockInv
<1>3. CASE ReadCoordinate(d)
  BY <1>0, <1>3 DEF ReadCoordinate, TypeOK, LockInv
<1>4. CASE AddCoordinate(d)
  <2>1. TypeOK'
    BY <1>0, <1>4 DEF AddCoordinate, TypeOK
  <2>2. LockInv'
    BY <1>0, <1>4 DEF AddCoordinate, TypeOK, LockInv
  <2> QED
    BY <2>1, <2>2
<1>5. CASE ReadReady(d)
  BY <1>0, <1>5 DEF ReadReady, TypeOK, LockInv
<1>6. CASE CountReady(d)
  BY <1>0, <1>6 DEF CountReady, TypeOK, LockInv
<1> QED
  BY <1>1, <1>2, <1>3, <1>4, <1>5, <1>6 DEF DoctorStep

LEMMA DoctorKeeps ==
  ASSUME TimeInv, NEW d \in Doctors, DoctorStep(d)
  PROVE  TimeInv'
<1>0. /\ TypeOK /\ GatherInv /\ JoinInv /\ BarrierInv /\ num_doctors \in Nat
      /\ pc \in [Doctors -> {"unborn", "missing", "start", "barrier", "calculated",
                             "add", "added", "count", "done"}]
  BY DoctorsFinite DEF TimeInv, TypeOK
<1>1. TypeOK' /\ LockInv'
  BY DoctorTypes
<1>2. PICK m \in DoctorMoves : Goto(d, m[1], m[2])
  BY DoctorMove
<1>3. pc[d] \notin {"unborn", "missing", "done"} /\ pc'[d] # "unborn"
      /\ \A e \in Doctors : e # d => pc'[e] = pc[e]
  BY <1>0, <1>2 DEF DoctorMoves, Goto
<1>4. GatherInv' /\ JoinInv'
  BY <1>0, <1>3, DoctorMove DEF GatherInv, JoinInv
<1>5. BarrierInv'
  <2>1. CASE Arrive(d)
    <3>1. Cardinality(At(Past)') = Cardinality(At(Past))
             + (IF "barrier" \in Past THEN 1 ELSE 0) - (IF pc[d] \in Past THEN 1 ELSE 0)
      BY <1>0, <2>1, AtMoves DEF Arrive, Goto
    <3>2. "barrier" \in Past /\ pc[d] \notin Past /\ d \notin At(Past)
      BY <2>1 DEF Arrive, Goto, Past, At
    <3>3. arrived' = Cardinality(At(Past)')
      BY <1>0, <2>1, <3>1, <3>2, AtFinite DEF Arrive, BarrierInv
    <3>4. At(Passed)' = At(Passed)
      BY <1>0, <2>1 DEF Arrive, Goto, Passed, At
    <3>5. At(Passed) = {}
      BY <1>0, <3>2, AtFinite DEF BarrierInv
    <3> QED
      BY <3>3, <3>4, <3>5 DEF BarrierInv
  <2>2. CASE ~Arrive(d)
    <3>1. arrived' = arrived
      BY <2>2 DEF DoctorStep, PassBarrier, ReadCoordinate, AddCoordinate, ReadReady, CountReady
    <3>2. pc[d] \in Past /\ pc'[d] \in Past
      BY <1>0, <2>2 DEF DoctorStep, PassBarrier, ReadCoordinate, AddCoordinate, ReadReady,
                        CountReady, Goto, Past
    <3>3. At(Past)' = At(Past)
      BY <1>3, <3>2 DEF At
    <3>4. pc[d] \in Passed \/ arrived = num_doctors
      BY <2>2 DEF DoctorStep, PassBarrier, ReadCoordinate, AddCoordinate, ReadReady,
                  CountReady, Goto, Passed
    <3>5. At(Passed) # {} \/ arrived = num_doctors
      BY <3>4 DEF At
    <3> QED
      BY <1>0, <3>1, <3>3, <3>5 DEF BarrierInv
  <2> QED
    BY <2>1, <2>2
<1> QED
  BY <1>1, <1>4, <1>5 DEF TimeInv

(* main steps over places that are not counted. *)
LEMMA BarrierFrame ==
  ASSUME BarrierInv, arrived' = arrived, At(Past)' = At(Past), At(Passed)' = At(Passed)
  PROVE  BarrierInv'
BY DEF BarrierInv

LEMMA MainKeeps ==
  ASSUME TimeInv, MainStep
  PROVE  TimeInv'
<1>0. /\ TypeOK /\ LockInv /\ GatherInv /\ JoinInv /\ BarrierInv
      /\ num_doctors \in Nat /\ Doctors = 0 .. num_doctors - 1
  BY DoctorsFinite DEF TimeInv, Doctors
<1> USE DEF MainGoes, locks, sums
<1>1. CASE Create \/ CreateFails
  <2>0. PICK to \in {"start", "missing"} : pc' = [pc EXCEPT ![created] = to]
    BY <1>1 DEF Create, CreateFails
  <2>1. /\ program = "gather" /\ created \in Doctors /\ pc[created] = "unborn"
        /\ created' = created + 1
        /\ program' = IF created + 1 = num_doctors THEN "wait" ELSE "gather"
        /\ UNCHANGED <<joined, arrived, lock1, lock2, copy, coordinates, ready, final_ready>>
    BY <1>0, <1>1 DEF Create, CreateFails, GatherInv, TypeOK
  <2>2. /\ pc'[created] = to
        /\ \A e \in Doctors : e # created => pc'[e] = pc[e]
    BY <1>0, <2>0, <2>1 DEF TypeOK
  <2>3. TypeOK'
    BY <1>0, <2>0, <2>1 DEF TypeOK
  <2>4. LockInv'
    BY <1>0, <2>1, <2>2 DEF LockInv
  <2>5. GatherInv'
    BY <1>0, <2>1, <2>2 DEF GatherInv, TypeOK
  <2>6. JoinInv'
    BY <1>0, <2>1, <2>2 DEF JoinInv
  <2>7. BarrierInv'
    <3>1. At(Past)' = At(Past) /\ At(Passed)' = At(Passed)
      BY <1>0, <2>0, <2>1, <2>2 DEF At, Past, Passed
    <3> QED
      BY <1>0, <2>1, <3>1, BarrierFrame
  <2> QED
    BY <2>3, <2>4, <2>5, <2>6, <2>7 DEF TimeInv
<1>2. CASE Join \/ JoinMissing
  <2>1. /\ program = "wait" /\ pc[joined] \in {"done", "missing"}
        /\ \/ joined' = joined + 1 /\ program' = IF joined + 1 = num_doctors THEN "read_ready" ELSE "wait"
           \/ joined' = joined /\ program' = "crashed"
        /\ UNCHANGED <<created, pc, arrived, lock1, lock2, copy, coordinates, ready, final_ready>>
    BY <1>2 DEF Join, JoinMissing
  <2>2. joined < num_doctors
    BY <1>0, <2>1 DEF JoinInv
  <2>3. TypeOK'
    BY <1>0, <2>1, <2>2 DEF TypeOK
  <2>4. LockInv' /\ GatherInv'
    BY <1>0, <2>1 DEF LockInv, GatherInv
  <2>5. JoinInv'
    BY <1>0, <2>1, <2>2 DEF JoinInv, TypeOK
  <2>6. BarrierInv'
    BY <1>0, <2>1, BarrierFrame DEF At
  <2> QED
    BY <2>3, <2>4, <2>5, <2>6 DEF TimeInv
<1>3. CASE ReadFinalReady \/ VerifyCoordinates
  <2>1. /\ program \in {"read_ready", "verify"} /\ program' \in {"verify", "stands", "falls"}
        /\ final_ready' \in {final_ready, ready}
        /\ UNCHANGED <<created, joined, pc, arrived, lock1, lock2, copy, coordinates, ready>>
    BY <1>3 DEF ReadFinalReady, VerifyCoordinates
  <2>2. TypeOK'
    BY <1>0, <2>1 DEF TypeOK
  <2>3. LockInv' /\ GatherInv' /\ JoinInv'
    BY <1>0, <2>1 DEF LockInv, GatherInv, JoinInv
  <2>4. BarrierInv'
    BY <1>0, <2>1, BarrierFrame DEF At
  <2> QED
    BY <2>2, <2>3, <2>4 DEF TimeInv
<1> QED
  BY <1>1, <1>2, <1>3 DEF MainStep

LEMMA TimeStep ==
  ASSUME TimeInv, [Next]_vars
  PROVE  TimeInv'
<1>1. CASE UNCHANGED vars
  BY <1>1 DEF vars, locks, sums, TimeInv, TypeOK, LockInv, GatherInv, JoinInv, BarrierInv, At
<1>2. CASE Next
  BY <1>2, MainKeeps, DoctorKeeps DEF Next
<1> QED
  BY <1>1, <1>2

(* A doctor past the barrier finds every id stored and no doctor missing.   *)
LEMMA Gathered ==
  ASSUME TimeInv, At(Passed) # {}
  PROVE  created = num_doctors /\ At(Past) = Doctors /\ At({"missing"}) = {}
<1>0. GatherInv /\ BarrierInv /\ TypeOK /\ num_doctors \in Nat
  BY DoctorsFinite DEF TimeInv
<1>1. At(Past) = Doctors
  BY <1>0, AtFinite DEF BarrierInv
<1>2. At({"missing"}) = {}
  BY <1>1 DEF At, Past
<1>3. created = num_doctors
  <2>1. num_doctors - 1 \in Doctors
    BY DoctorsFinite DEF Doctors
  <2>2. pc[num_doctors - 1] # "unborn"
    BY <1>1, <2>1 DEF At, Past
  <2> QED
    BY <1>0, <2>1, <2>2 DEF GatherInv, TypeOK
<1> QED
  BY <1>1, <1>2, <1>3

(* The state of Assignment 5 has its types in every reachable state.        *)
THEOREM TypeCorrect == Spec => []TypeOK
<1>1. TimeInv => TypeOK
  BY DEF TimeInv
<1> QED
  BY <1>1, TimeInit, TimeStep, PTL DEF Spec

(* No doctor runs calculate before gather_doctors has stored every id, nor  *)
(* at all when a doctor could not be created.                               *)
THEOREM GatheredFirst == Spec => []AllGatheredFirst
<1>1. TimeInv => AllGatheredFirst
  BY Gathered DEF AllGatheredFirst, Passed
<1> QED
  BY <1>1, TimeInit, TimeStep, PTL DEF Spec

-----------------------------------------------------------------------------
(* The two counters.                                                        *)

LEMMA ReadyStep ==
  ASSUME TimeInv, ReadyCountsTheDone, [Next]_vars
  PROVE  ReadyCountsTheDone'
<1>0. /\ pc \in [Doctors -> {"unborn", "missing", "start", "barrier", "calculated",
                             "add", "added", "count", "done"}]
      /\ GatherInv /\ created \in Nat /\ ready \in Nat
  BY DEF TimeInv, TypeOK
<1> USE DEF ReadyCountsTheDone
<1>1. ASSUME ready' = ready, At({"done"})' = At({"done"}) PROVE ReadyCountsTheDone'
  BY <1>1
<1>2. CASE UNCHANGED vars
  BY <1>1, <1>2 DEF vars, sums, At
<1>3. ASSUME NEW d \in Doctors, CountReady(d) PROVE ReadyCountsTheDone'
  <2>1. ready' = ready + 1 /\ pc[d] = "count" /\ pc' = [pc EXCEPT ![d] = "done"]
    BY <1>3 DEF CountReady, Goto, TimeInv, LockInv
  <2>2. Cardinality(At({"done"})') = Cardinality(At({"done"}))
           + (IF "done" \in {"done"} THEN 1 ELSE 0) - (IF pc[d] \in {"done"} THEN 1 ELSE 0)
    BY <1>0, <2>1, AtMoves
  <2> QED
    BY <1>0, <2>1, <2>2
<1>4. ASSUME NEW d \in Doctors, DoctorStep(d), ~CountReady(d) PROVE ReadyCountsTheDone'
  <2>1. ready' = ready /\ pc[d] # "done" /\ pc'[d] # "done"
        /\ \A e \in Doctors : e # d => pc'[e] = pc[e]
    BY <1>0, <1>4 DEF DoctorStep, Arrive, PassBarrier, ReadCoordinate, AddCoordinate,
                      ReadReady, Goto, sums
  <2> QED
    BY <1>1, <2>1 DEF At
<1>5. CASE Create \/ CreateFails
  <2>1. PICK to \in {"start", "missing"} : pc' = [pc EXCEPT ![created] = to]
    BY <1>5 DEF Create, CreateFails
  <2>2. program = "gather" /\ ready' = ready
    BY <1>5 DEF Create, CreateFails, MainGoes, sums
  <2>3. \A e \in Doctors : pc'[e] = "done" <=> pc[e] = "done"
    BY <1>0, <2>1, <2>2 DEF GatherInv
  <2> QED
    BY <1>1, <2>2, <2>3 DEF At
<1>6. CASE Join \/ JoinMissing \/ ReadFinalReady \/ VerifyCoordinates
  BY <1>1, <1>6 DEF Join, JoinMissing, ReadFinalReady, VerifyCoordinates, sums, At
<1> QED
  BY <1>2, <1>3, <1>4, <1>5, <1>6 DEF Next, MainStep

LEMMA ReadyInit == Init => ReadyCountsTheDone
<1> SUFFICES ASSUME Init PROVE ReadyCountsTheDone
  OBVIOUS
<1>1. At({"done"}) = {}
  BY DEF Init, At
<1> QED
  BY <1>1, FS_EmptySet DEF Init, ReadyCountsTheDone

(* ready is the number of doctors that are done: no count is lost.          *)
THEOREM NoCountLost == Spec => []ReadyCountsTheDone
<1>1. TimeInv /\ ReadyCountsTheDone /\ [Next]_vars => (TimeInv /\ ReadyCountsTheDone)'
  BY TimeStep, ReadyStep
<1> QED
  BY <1>1, TimeInit, ReadyInit, PTL DEF Spec

(* sum[S] is what the indices of the doctors in S add to each coordinate.   *)
IsSum(sum) ==
  /\ sum \in [SUBSET Doctors -> [Coordinates -> Nat]]
  /\ sum[{}] = [c \in Coordinates |-> 0]
  /\ \A S \in SUBSET Doctors : \A d \in Doctors \ S :
       sum[S \cup {d}] = [sum[S] EXCEPT ![coordinateOf[d]] = @ + d]

SumInv(sum) == coordinates = sum[At(Added)]

LEMMA CoordinatesInit ==
  ASSUME NEW sum, IsSum(sum), Init
  PROVE  SumInv(sum)
<1>1. At(Added) = {}
  BY DEF Init, At, Added
<1> QED
  BY <1>1 DEF Init, SumInv, IsSum

LEMMA CoordinatesStep ==
  ASSUME NEW sum, IsSum(sum), TimeInv, SumInv(sum), [Next]_vars
  PROVE  SumInv(sum)'
<1>0. /\ pc \in [Doctors -> {"unborn", "missing", "start", "barrier", "calculated",
                             "add", "added", "count", "done"}]
      /\ GatherInv /\ created \in Nat /\ coordinates \in [Coordinates -> Nat]
      /\ coordinateOf \in [Doctors -> Coordinates]
  BY DoctorAssumption DEF TimeInv, TypeOK, Doctors
<1>1. ASSUME coordinates' = coordinates, At(Added)' = At(Added) PROVE SumInv(sum)'
  BY <1>1 DEF SumInv
<1>2. CASE UNCHANGED vars
  BY <1>1, <1>2 DEF vars, sums, At
<1>3. ASSUME NEW d \in Doctors, AddCoordinate(d) PROVE SumInv(sum)'
  <2>1. /\ pc[d] = "add" /\ pc' = [pc EXCEPT ![d] = "added"]
        /\ copy[d] = coordinates[coordinateOf[d]]
        /\ coordinates' = [coordinates EXCEPT ![coordinateOf[d]] = copy[d] + d]
    BY <1>3 DEF AddCoordinate, Goto, TimeInv, LockInv
  <2>2. At(Added)' = At(Added) \cup {d} /\ d \notin At(Added) /\ At(Added) \in SUBSET Doctors
    BY <1>0, <2>1 DEF At, Added
  <2>3. coordinates' = [coordinates EXCEPT ![coordinateOf[d]] = @ + d]
    BY <2>1
  <2>4. sum[At(Added) \cup {d}] = [sum[At(Added)] EXCEPT ![coordinateOf[d]] = @ + d]
    BY <2>2 DEF IsSum
  <2> QED
    BY <2>2, <2>3, <2>4 DEF SumInv
<1>4. ASSUME NEW d \in Doctors, DoctorStep(d), ~AddCoordinate(d) PROVE SumInv(sum)'
  <2>1. coordinates' = coordinates /\ (pc[d] \in Added <=> pc'[d] \in Added)
        /\ \A e \in Doctors : e # d => pc'[e] = pc[e]
    BY <1>0, <1>4 DEF DoctorStep, Arrive, PassBarrier, ReadCoordinate, CountReady,
                      ReadReady, Goto, sums, Added
  <2> QED
    BY <1>1, <2>1 DEF At
<1>5. CASE Create \/ CreateFails
  <2>1. PICK to \in {"start", "missing"} : pc' = [pc EXCEPT ![created] = to]
    BY <1>5 DEF Create, CreateFails
  <2>2. program = "gather" /\ coordinates' = coordinates
    BY <1>5 DEF Create, CreateFails, MainGoes, sums
  <2>3. \A e \in Doctors : pc'[e] \in Added <=> pc[e] \in Added
    BY <1>0, <2>1, <2>2 DEF GatherInv, Added
  <2> QED
    BY <1>1, <2>2, <2>3 DEF At
<1>6. CASE Join \/ JoinMissing \/ ReadFinalReady \/ VerifyCoordinates
  BY <1>1, <1>6 DEF Join, JoinMissing, ReadFinalReady, VerifyCoordinates, sums, At
<1> QED
  BY <1>2, <1>3, <1>4, <1>5, <1>6 DEF Next, MainStep

-----------------------------------------------------------------------------
(* The verdict.                                                             *)

(* Once main has read ready, nobody changes it.                             *)
FinalInv == program \in {"verify", "stands", "falls"} => final_ready = ready

(* When every join has returned, each doctor is done or is missing, and if  *)
(* one is done, so are all.                                                 *)
LEMMA AllJoined ==
  ASSUME TimeInv, joined = num_doctors
  PROVE  /\ \A d \in Doctors : pc[d] \in {"done", "missing"}
         /\ At({"done"}) = Doctors \/ At({"missing"}) = Doctors
<1>1. \A d \in Doctors : pc[d] \in {"done", "missing"}
  BY DoctorsFinite DEF TimeInv, JoinInv, Doctors
<1>2. CASE At({"missing"}) = Doctors
  BY <1>1, <1>2
<1>3. CASE At({"missing"}) # Doctors
  <2>1. PICK d \in Doctors : pc[d] = "done"
    BY <1>1, <1>3 DEF At
  <2>2. At(Passed) # {}
    BY <2>1 DEF At, Passed
  <2>3. At({"missing"}) = {}
    BY <2>2, Gathered
  <2> QED
    BY <1>1, <2>3 DEF At
<1> QED
  BY <1>2, <1>3

LEMMA VerdictStep ==
  ASSUME NEW sum, IsSum(sum), sum[Doctors] = correct, TimeInv, ReadyCountsTheDone,
         SumInv(sum), FinalInv, VerdictIsRight, [Next]_vars
  PROVE  FinalInv' /\ VerdictIsRight'
<1>0. TypeOK /\ JoinInv /\ GatherInv /\ num_doctors \in Nat \ {0}
  BY DoctorsFinite DEF TimeInv
<1>1. CASE UNCHANGED vars
  BY <1>1 DEF vars, sums, FinalInv, VerdictIsRight, At
<1>2. ASSUME NEW d \in Doctors, DoctorStep(d) PROVE FinalInv' /\ VerdictIsRight'
  <2>1. program \notin {"verify", "stands", "falls"}
    <3>1. pc[d] \notin {"done", "missing"}
      BY <1>2, DoctorMove DEF DoctorMoves, Goto
    <3> QED
      BY <1>0, <3>1, AllJoined DEF JoinInv
  <2>2. program' = program
    BY <1>2, DoctorMove
  <2> QED
    BY <2>1, <2>2 DEF FinalInv, VerdictIsRight
<1>3. CASE Create \/ CreateFails \/ Join \/ JoinMissing
  BY <1>3 DEF Create, CreateFails, Join, JoinMissing, MainGoes, FinalInv, VerdictIsRight
<1>4. CASE ReadFinalReady
  BY <1>4 DEF ReadFinalReady, MainGoes, FinalInv, VerdictIsRight
<1>5. CASE VerifyCoordinates
  <2>1. /\ program = "verify" /\ UNCHANGED <<pc, coordinates, ready, final_ready>>
        /\ program' = IF coordinates = correct /\ final_ready = num_doctors
                      THEN "stands" ELSE "falls"
    BY <1>5 DEF VerifyCoordinates, MainGoes, sums
  <2>2. final_ready = Cardinality(At({"done"}))
    BY <2>1 DEF FinalInv, ReadyCountsTheDone
  <2>3. FinalInv'
    BY <2>1 DEF FinalInv
  <2>4. At({"done"}) = Doctors \/ At({"missing"}) = Doctors
    BY <1>0, <2>1, AllJoined DEF JoinInv
  <2>5. ASSUME At({"done"}) = Doctors PROVE coordinates = correct /\ final_ready = num_doctors
    <3>1. At(Added) = Doctors
      BY <2>5 DEF At, Added
    <3> QED
      BY <2>2, <2>5, <3>1, DoctorsFinite DEF SumInv
  <2>6. ASSUME final_ready = num_doctors PROVE At({"done"}) = Doctors
    BY <2>2, <2>6, AtFinite
  <2>7. At({"done"})' = At({"done"}) /\ At({"missing"})' = At({"missing"})
    BY <2>1 DEF At
  <2> QED
    BY <2>1, <2>3, <2>4, <2>5, <2>6, <2>7 DEF VerdictIsRight
<1> QED
  BY <1>1, <1>2, <1>3, <1>4, <1>5 DEF Next, MainStep

-----------------------------------------------------------------------------
(* The sums that the code compares with.                                    *)

Index == [d \in Doctors |-> d]

(* What the indices of the doctors in S add to each coordinate.             *)
IndexSums ==
  [S \in SUBSET Doctors |->
     [c \in Coordinates |-> SumFunctionOnSet(Index, {d \in S : coordinateOf[d] = c})]]

LEMMA IndexSumsAreSums == IsSum(IndexSums)
<1> DEFINE F(S, c) == {d \in S : coordinateOf[d] = c}
<1>1. ASSUME NEW S \in SUBSET Doctors, NEW c \in Coordinates
      PROVE  SumsWell(Index, F(S, c))
  <2>1. IsFiniteSet(F(S, c)) /\ F(S, c) \subseteq Doctors
    BY DoctorsFinite, FS_Subset
  <2>2. \A d \in Doctors : Index[d] \in Nat
    BY DEF Index, Doctors
  <2> HIDE DEF F
  <2>3. QED BY <2>1, <2>2, SumTakesAny
<1>2. IndexSums \in [SUBSET Doctors -> [Coordinates -> Nat]]
  BY <1>1 DEF IndexSums, SumsWell
<1>3. IndexSums[{}] = [c \in Coordinates |-> 0]
  <2>1. \A c \in Coordinates : F({}, c) = {}
    OBVIOUS
  <2>2. SumFunctionOnSet(Index, {}) = 0
    BY FS_EmptySet, SumStep
  <2>3. \A c \in Coordinates : SumFunctionOnSet(Index, F({}, c)) = 0
    BY <2>1, <2>2
  <2>4. QED BY <2>3 DEF IndexSums
<1>4. ASSUME NEW S \in SUBSET Doctors, NEW d \in Doctors \ S
      PROVE  IndexSums[S \cup {d}] = [IndexSums[S] EXCEPT ![coordinateOf[d]] = @ + d]
  <2>1. S \cup {d} \in SUBSET Doctors /\ coordinateOf[d] \in Coordinates
    BY DoctorAssumption DEF Doctors
  <2>2. ASSUME NEW c \in Coordinates
        PROVE  SumFunctionOnSet(Index, F(S \cup {d}, c))
                 = IF c = coordinateOf[d] THEN SumFunctionOnSet(Index, F(S, c)) + d
                   ELSE SumFunctionOnSet(Index, F(S, c))
    <3>1. CASE c # coordinateOf[d]
      <4>1. F(S \cup {d}, c) = F(S, c)
        BY <3>1
      <4>2. QED BY <3>1, <4>1
    <3>2. CASE c = coordinateOf[d]
      <4>1. d \in F(S \cup {d}, c) /\ F(S \cup {d}, c) \ {d} = F(S, c)
        BY <3>2
      <4>2. SumsWell(Index, F(S \cup {d}, c)) /\ SumsWell(Index, F(S, c))
        BY <1>1, <2>1
      <4> HIDE DEF F
      <4>3. /\ SumFunctionOnSet(Index, F(S \cup {d}, c))
                 = Index[d] + SumFunctionOnSet(Index, F(S, c))
            /\ SumFunctionOnSet(Index, F(S, c)) \in Nat
        BY <4>1, <4>2 DEF SumsWell
      <4>4. Index[d] = d /\ d \in Nat
        BY DEF Index, Doctors
      <4>5. QED BY <3>2, <4>3, <4>4
    <3>3. QED BY <3>1, <3>2
  <2>3. /\ IndexSums[S] = [c \in Coordinates |-> SumFunctionOnSet(Index, F(S, c))]
        /\ IndexSums[S \cup {d}]
             = [c \in Coordinates |-> SumFunctionOnSet(Index, F(S \cup {d}, c))]
    BY <2>1 DEF IndexSums
  <2> HIDE DEF F
  <2>4. QED BY <2>1, <2>2, <2>3
<1>5. QED BY <1>2, <1>3, <1>4 DEF IsSum

(* When verify_coordinates compares with the sums of the doctors' indices,  *)
(* as the code's constants are, Gallifrey stands only when all doctors have *)
(* done both additions and falls only when none could be created.           *)
THEOREM RightVerdict ==
  ASSUME correct = IndexSums[Doctors]
  PROVE  Spec => []VerdictIsRight
<1> DEFINE I == /\ TimeInv /\ ReadyCountsTheDone /\ SumInv(IndexSums)
                /\ FinalInv /\ VerdictIsRight
<1>1. Init => I
  BY TimeInit, ReadyInit, CoordinatesInit, IndexSumsAreSums DEF Init, FinalInv, VerdictIsRight
<1>2. I /\ [Next]_vars => I'
  BY TimeStep, ReadyStep, CoordinatesStep, VerdictStep, IndexSumsAreSums
<1> QED
  BY <1>1, <1>2, PTL DEF Spec

-----------------------------------------------------------------------------
(* Sequences one behind the other.                                          *)

(* What FlattenSeq computes for the first m members of ss. *)
Flattens(ss, m, g) == g = [i \in 1 .. m |-> IF i = 1 THEN ss[i] ELSE g[i - 1] \o ss[i]]

LEMMA FlattenExists ==
  ASSUME NEW ss, NEW m \in Nat
  PROVE  \E g : Flattens(ss, m, g)
<1> DEFINE T == {i \in Nat : \E g : Flattens(ss, i, g)}
<1>1. 0 \in T
  <2>1. Flattens(ss, 0, [i \in 1 .. 0 |-> ss[i]])
    BY DEF Flattens
  <2>2. QED BY <2>1
<1>2. ASSUME NEW i \in T PROVE i + 1 \in T
  <2>1. PICK g : Flattens(ss, i, g)
    OBVIOUS
  <2> DEFINE h == [j \in 1 .. i + 1 |-> IF j = 1 THEN ss[j] ELSE g[j - 1] \o ss[j]]
  <2>2. \A j \in 1 .. i : g[j] = h[j]
    <3>1. \A j \in 1 .. i : g[j] = IF j = 1 THEN ss[j] ELSE g[j - 1] \o ss[j]
      BY <2>1 DEF Flattens
    <3>2. \A j \in 1 .. i : j \in 1 .. i + 1
      OBVIOUS
    <3>3. QED BY <3>1, <3>2
  <2>3. \A j \in 1 .. i + 1 : j # 1 => j - 1 \in 1 .. i
    OBVIOUS
  <2>4. h = [j \in 1 .. i + 1 |-> IF j = 1 THEN ss[j] ELSE h[j - 1] \o ss[j]]
    BY <2>2, <2>3
  <2> HIDE DEF h
  <2>5. Flattens(ss, i + 1, h)
    BY <2>4 DEF Flattens
  <2>6. QED BY <2>5
<1>3. T = Nat
  <2>1. T \in SUBSET Nat
    OBVIOUS
  <2> HIDE DEF T
  <2>2. QED BY <1>1, <1>2, <2>1, SetInduction
<1>4. QED BY <1>3

(* The first i members of ss, one behind the other. *)
FirstOf(ss, i) == IF i = 0 THEN <<>> ELSE (CHOOSE g : Flattens(ss, Len(ss), g))[i]

LEMMA FlattensInOrder ==
  ASSUME NEW S, NEW ss \in Seq(Seq(S)), Len(ss) > 0
  PROVE  /\ FirstOf(ss, 0) = <<>>
         /\ \A i \in 1 .. Len(ss) : FirstOf(ss, i) = FirstOf(ss, i - 1) \o ss[i]
         /\ FirstOf(ss, Len(ss)) = FlattenSeq(ss)
<1> DEFINE g == CHOOSE h : Flattens(ss, Len(ss), h)
<1>1. Len(ss) \in Nat
  OBVIOUS
<1>2. Flattens(ss, Len(ss), g)
  BY <1>1, FlattenExists
<1>3. FlattenSeq(ss) = g[Len(ss)]
  BY DEF FlattenSeq, Flattens
<1> HIDE DEF g
<1>4. ASSUME NEW i \in 1 .. Len(ss)
      PROVE  FirstOf(ss, i) = FirstOf(ss, i - 1) \o ss[i]
  <2>1. g[i] = IF i = 1 THEN ss[i] ELSE g[i - 1] \o ss[i]
    BY <1>2 DEF Flattens
  <2>2. FirstOf(ss, i) = g[i] /\ i # 0
    BY DEF FirstOf, g
  <2>3. CASE i = 1
    <3>1. i - 1 = 0 /\ ss[i] \in Seq(S)
      BY <2>3
    <3>2. FirstOf(ss, i - 1) = <<>>
      BY <3>1 DEF FirstOf
    <3>3. <<>> \o ss[i] = ss[i]
      BY <3>1
    <3>4. QED BY <2>1, <2>2, <2>3, <3>2, <3>3
  <2>4. CASE i # 1
    <3>1. i - 1 # 0
      BY <2>4
    <3>2. FirstOf(ss, i - 1) = g[i - 1]
      BY <3>1 DEF FirstOf, g
    <3>3. QED BY <2>1, <2>2, <2>4, <3>2
  <2>5. QED BY <2>3, <2>4
<1>5. FirstOf(ss, 0) = <<>> /\ FirstOf(ss, Len(ss)) = g[Len(ss)]
  BY <1>1 DEF FirstOf, g
<1>6. QED BY <1>3, <1>4, <1>5

(* A prefix is as long as its members together. *)
LEMMA FirstLength ==
  ASSUME NEW S, NEW ss \in Seq(Seq(S)), Len(ss) > 0,
         NEW f \in [1 .. Len(ss) -> Nat], \A i \in 1 .. Len(ss) : f[i] = Len(ss[i])
  PROVE  \A i \in 0 .. Len(ss) : FirstOf(ss, i) \in Seq(S) /\ Len(FirstOf(ss, i)) = SumTo(f, i)
<1> DEFINE Good(i) == FirstOf(ss, i) \in Seq(S) /\ Len(FirstOf(ss, i)) = SumTo(f, i)
           T == {i \in Nat : i <= Len(ss) => Good(i)}
<1>0. Len(ss) \in Nat
  OBVIOUS
<1>1. 0 \in T
  <2>1. FirstOf(ss, 0) = <<>> /\ SumTo(f, 0) = 0
    BY <1>0, FlattensInOrder, SumOfSequence
  <2>2. <<>> \in Seq(S) /\ Len(<<>>) = 0
    OBVIOUS
  <2>3. Good(0)
    BY <2>1, <2>2
  <2> HIDE DEF Good
  <2>4. QED BY <2>3
<1>2. ASSUME NEW i \in T PROVE i + 1 \in T
  <2>1. ASSUME i + 1 <= Len(ss) PROVE Good(i + 1)
    <3>1. i + 1 \in 1 .. Len(ss) /\ (i + 1) - 1 = i /\ i <= Len(ss)
      BY <1>0, <2>1
    <3>2. Good(i)
      BY <3>1
    <3>3. FirstOf(ss, i + 1) = FirstOf(ss, i) \o ss[i + 1]
      BY <3>1, FlattensInOrder
    <3>4. SumTo(f, i + 1) = SumTo(f, i) + f[i + 1]
      BY <1>0, <3>1, SumOfSequence
    <3>5. ss[i + 1] \in Seq(S) /\ f[i + 1] = Len(ss[i + 1])
      BY <3>1
    <3> HIDE DEF T
    <3>6. \A a, b \in Seq(S) : a \o b \in Seq(S) /\ Len(a \o b) = Len(a) + Len(b)
      OBVIOUS
    <3>7. QED BY <3>2, <3>3, <3>4, <3>5, <3>6
  <2>2. QED BY <2>1
<1>3. T = Nat
  <2>1. T \in SUBSET Nat
    OBVIOUS
  <2> HIDE DEF T
  <2>2. QED BY <1>1, <1>2, <2>1, SetInduction
<1>4. QED BY <1>0, <1>3

-----------------------------------------------------------------------------
(* The invariant of catpng.                                                 *)

Arguments == Seq(Images \cup {NoSuchFile})

HeightOf(a) == [j \in 1 .. Len(a) |-> IF a[j] = NoSuchFile THEN 0 ELSE a[j].height]
LengthOf(a) == [j \in 1 .. Len(a) |-> IF a[j] = NoSuchFile THEN 0 ELSE a[j].length]
PixelsOf(a) == [j \in 1 .. Len(a) |-> IF a[j] = NoSuchFile THEN 0 ELSE a[j].pixels]
StripOf(x)  == IF x = NoSuchFile THEN <<>> ELSE Pixels(x)
StripsOf(a) == [j \in 1 .. Len(a) |-> StripOf(a[j])]

CatTyped ==
  /\ args \in Arguments
  /\ position \in {"open", "inflate", "deflate", "write", "returned", "undefined", "crashed"}
  /\ k \in 1 .. Len(args) + 1
  /\ height \in Nat /\ length \in Nat /\ have \in Nat /\ len_def \in Nat

(* While the strips are opened, those before k are there and their heights  *)
(* are added up.                                                            *)
OpenInv ==
  position = "open" =>
    /\ \A j \in 1 .. k - 1 : args[j] # NoSuchFile
    /\ height = SumTo(HeightOf(args), k - 1) % WORD
    /\ inflated = <<>> /\ have = 0

(* Afterwards none is missing.                                              *)
OpenedInv ==
  position \in {"inflate", "deflate", "write"} =>
    /\ Len(args) > 0 /\ \A j \in 1 .. Len(args) : args[j] # NoSuchFile
    /\ height = SumTo(HeightOf(args), Len(args)) % WORD

LengthInv ==
  position \in {"inflate", "deflate"} =>
    length = SumTo(LengthOf(args), Len(args)) % WORD

(* The pixels of the strips before k, and of strip k the first of them.     *)
InflateInv ==
  position = "inflate" =>
    /\ \A j \in 1 .. k - 1 : args[j].sound
    /\ k <= Len(args) =>
         /\ have <= args[k].pixels
         /\ inflated = FirstOf(StripsOf(args), k - 1) \o SubSeq(Pixels(args[k]), 1, have)
    /\ k > Len(args) => have = 0 /\ inflated = FirstOf(StripsOf(args), Len(args))

DeflateInv ==
  /\ position \in {"deflate", "write"} =>
       /\ \A j \in 1 .. Len(args) : args[j].sound
       /\ inflated = FirstOf(StripsOf(args), Len(args))
  /\ position = "deflate" => have <= len_def

OldInv == position # "returned" => all_png = OldImage

CatInv ==
  /\ CatTyped /\ OpenInv /\ OpenedInv /\ LengthInv /\ InflateInv /\ DeflateInv /\ OldInv
  /\ MergesInOrder /\ BuffersSuffice

(* What the sums and the strips are made of. *)
LEMMA OfArguments ==
  ASSUME NEW a \in Arguments
  PROVE  /\ Len(a) \in Nat
         /\ HeightOf(a) \in [1 .. Len(a) -> Nat]
         /\ LengthOf(a) \in [1 .. Len(a) -> Nat]
         /\ PixelsOf(a) \in [1 .. Len(a) -> Nat]
         /\ StripsOf(a) \in Seq(Seq(Images \X Nat)) /\ Len(StripsOf(a)) = Len(a)
         /\ \A j \in 1 .. Len(a) : PixelsOf(a)[j] = Len(StripsOf(a)[j])
         /\ \A j \in 1 .. Len(a) : a[j] # NoSuchFile => a[j] \in Images
         /\ \A x \in Images :
              /\ x.height \in Nat /\ x.length \in Nat /\ x.pixels \in Nat /\ x.sound \in BOOLEAN
              /\ Pixels(x) \in Seq(Images \X Nat) /\ Len(Pixels(x)) = x.pixels
<1>1. \A x \in Images :
         x.height \in Nat /\ x.length \in Nat /\ x.pixels \in Nat /\ x.sound \in BOOLEAN
  BY ImageAssumption
<1>2. ASSUME NEW x \in Images
      PROVE  Pixels(x) \in Seq(Images \X Nat) /\ Len(Pixels(x)) = x.pixels
  <2>1. x.pixels \in Nat
    BY <1>1
  <2>2. Pixels(x) \in [1 .. x.pixels -> Images \X Nat]
    BY <2>1 DEF Pixels
  <2>3. QED BY <2>1, <2>2
<1>3. Len(a) \in Nat /\ \A j \in 1 .. Len(a) : a[j] \in Images \cup {NoSuchFile}
  BY DEF Arguments
<1>4. \A j \in 1 .. Len(a) : a[j] # NoSuchFile => a[j] \in Images
  BY <1>3
<1>5. /\ HeightOf(a) \in [1 .. Len(a) -> Nat]
      /\ LengthOf(a) \in [1 .. Len(a) -> Nat]
      /\ PixelsOf(a) \in [1 .. Len(a) -> Nat]
  BY <1>1, <1>4 DEF HeightOf, LengthOf, PixelsOf
<1>6. \A j \in 1 .. Len(a) : StripOf(a[j]) \in Seq(Images \X Nat)
  BY <1>2, <1>4 DEF StripOf
<1>7. StripsOf(a) \in [1 .. Len(a) -> Seq(Images \X Nat)]
  BY <1>6 DEF StripsOf
<1>8. StripsOf(a) \in Seq(Seq(Images \X Nat)) /\ Len(StripsOf(a)) = Len(a)
  BY <1>3, <1>7
<1>9. ASSUME NEW j \in 1 .. Len(a) PROVE PixelsOf(a)[j] = Len(StripsOf(a)[j])
  <2>1. StripsOf(a)[j] = StripOf(a[j])
    BY DEF StripsOf
  <2>2. PixelsOf(a)[j] = IF a[j] = NoSuchFile THEN 0 ELSE a[j].pixels
    BY DEF PixelsOf
  <2>3. CASE a[j] = NoSuchFile
    BY <2>1, <2>2, <2>3 DEF StripOf
  <2>4. CASE a[j] # NoSuchFile
    BY <1>2, <1>4, <2>1, <2>2, <2>4 DEF StripOf
  <2>5. QED BY <2>3, <2>4
<1>10. QED BY <1>1, <1>2, <1>3, <1>4, <1>5, <1>8, <1>9

(* Once none is missing these are what SumLengths and MergesInOrder say.    *)
LEMMA NoneMissing ==
  ASSUME NEW a \in Arguments, \A j \in 1 .. Len(a) : a[j] # NoSuchFile
  PROVE  /\ SumFunction([j \in DOMAIN a |-> a[j].height]) = SumTo(HeightOf(a), Len(a))
         /\ SumFunction([j \in DOMAIN a |-> a[j].length]) = SumTo(LengthOf(a), Len(a))
         /\ [j \in DOMAIN a |-> Pixels(a[j])] = StripsOf(a)
<1>1. DOMAIN a = 1 .. Len(a)
  BY DEF Arguments
<1>2. [j \in DOMAIN a |-> a[j].height] = HeightOf(a)
  BY <1>1 DEF HeightOf
<1>3. [j \in DOMAIN a |-> a[j].length] = LengthOf(a)
  BY <1>1 DEF LengthOf
<1>4. [j \in DOMAIN a |-> Pixels(a[j])] = StripsOf(a)
  BY <1>1 DEF StripsOf, StripOf
<1>5. DOMAIN HeightOf(a) = 1 .. Len(a) /\ DOMAIN LengthOf(a) = 1 .. Len(a)
  BY DEF HeightOf, LengthOf
<1>6. QED BY <1>2, <1>3, <1>4, <1>5 DEF SumFunction, SumTo

(* Whether the strips keep what BuffersSuffice asks of them. *)
Ordinary(a) ==
  /\ \A j \in 1 .. Len(a) : a[j].pixels <= FACTOR * a[j].length
  /\ FACTOR * SumTo(LengthOf(a), Len(a)) < WORD

(* Less than a word even when multiplied by FACTOR, which is at least 2.    *)
LEMMA TwiceFits ==
  ASSUME NEW t \in Nat, FACTOR * t < WORD, NEW l, l = t % WORD
  PROVE  /\ l = t /\ (2 * l) % WORD = 2 * l
         /\ FACTOR * t \in Nat /\ (FACTOR * l) % WORD = FACTOR * t
<1>1. FACTOR \in Nat /\ FACTOR >= 2 /\ WORD \in Nat
  BY WordAssumption
<1>2. PICK d \in Nat : FACTOR = d + 2
  <2>1. FACTOR - 2 \in Nat /\ FACTOR = (FACTOR - 2) + 2
    BY <1>1
  <2>2. QED BY <2>1
<1>3. FACTOR * t = d * t + 2 * t /\ d * t \in Nat /\ 2 * t \in Nat /\ t <= 2 * t
  BY <1>2
<1>4. \A x, w \in Nat : x < w => x % w = x
  OBVIOUS
<1>5. FACTOR * t \in Nat /\ t < WORD /\ 2 * t < WORD
  BY <1>1, <1>3
<1>6. t % WORD = t /\ (2 * t) % WORD = 2 * t /\ (FACTOR * t) % WORD = FACTOR * t
  BY <1>1, <1>3, <1>4, <1>5
<1>7. QED BY <1>5, <1>6

(* Then no size wraps around, and the pixels of the first strips fit.       *)
LEMMA RoomForStrips ==
  ASSUME NEW a \in Arguments, \A j \in 1 .. Len(a) : a[j] # NoSuchFile, Ordinary(a),
         NEW l, l = SumTo(LengthOf(a), Len(a)) % WORD
  PROVE  /\ l = SumTo(LengthOf(a), Len(a)) /\ l \in Nat
         /\ (2 * l) % WORD = 2 * l
         /\ \A i \in 0 .. Len(a) : SumTo(PixelsOf(a), i) <= (FACTOR * l) % WORD
<1> DEFINE total == SumTo(LengthOf(a), Len(a))
<1>1. Len(a) \in Nat /\ Len(a) \in 0 .. Len(a)
  BY OfArguments
<1>2. total \in Nat
  BY <1>1, OfArguments, SumOfSequence
<1>3. FACTOR * total < WORD
  BY DEF Ordinary
<1>4. \A j \in 1 .. Len(a) : PixelsOf(a)[j] <= FACTOR * LengthOf(a)[j]
  BY DEF Ordinary, PixelsOf, LengthOf
<1>5. FACTOR \in Nat /\ FACTOR >= 2 /\ WORD \in Nat /\ WORD # 0
  BY WordAssumption
<1>6. \A i \in 0 .. Len(a) : SumTo(PixelsOf(a), i) <= FACTOR * SumTo(LengthOf(a), i)
  BY <1>1, <1>4, <1>5, OfArguments, SumScales
<1>7. \A i \in 0 .. Len(a) : SumTo(LengthOf(a), i) <= total
  BY <1>1, OfArguments, SumGrows
<1> HIDE DEF total
<1>8. \A c, x, y \in Nat : x <= y => c * x <= c * y
  OBVIOUS
<1>9. \A c, x \in Nat : c * x \in Nat
  OBVIOUS
<1>10. /\ l = total /\ (2 * l) % WORD = 2 * l
       /\ FACTOR * total \in Nat /\ (FACTOR * l) % WORD = FACTOR * total
  BY <1>2, <1>3, TwiceFits DEF total
<1>11. ASSUME NEW i \in 0 .. Len(a)
       PROVE  SumTo(PixelsOf(a), i) <= (FACTOR * l) % WORD
  <2>1. /\ SumTo(PixelsOf(a), i) \in Nat /\ SumTo(LengthOf(a), i) \in Nat
    BY <1>1, OfArguments, SumOfSequence
  <2>2. /\ SumTo(PixelsOf(a), i) <= FACTOR * SumTo(LengthOf(a), i)
        /\ SumTo(LengthOf(a), i) <= total
    BY <1>6, <1>7
  <2>3. FACTOR * SumTo(LengthOf(a), i) <= FACTOR * total
    BY <1>2, <1>5, <1>8, <2>1, <2>2
  <2>4. FACTOR * SumTo(LengthOf(a), i) \in Nat
    BY <1>5, <1>9, <2>1
  <2>5. QED BY <1>10, <2>1, <2>2, <2>3, <2>4
<1>12. QED BY <1>2, <1>10, <1>11 DEF total

-----------------------------------------------------------------------------
(* The values of a word.                                                    *)

LEMMA Divides ==
  ASSUME NEW x \in Nat, NEW w \in Nat, w > 0
  PROVE  /\ x % w \in Nat /\ x % w < w /\ x \div w \in Int
         /\ x = (w * (x \div w)) + (x % w)
<1>1. x % w \in Nat /\ x % w < w
  OBVIOUS
<1>2. x \div w \in Int
  OBVIOUS
<1>3. x = (w * (x \div w)) + (x % w)
  OBVIOUS
<1>4. QED BY <1>1, <1>2, <1>3

LEMMA RemainderBelow ==
  ASSUME NEW q \in Int, NEW r \in Nat, NEW w \in Nat, r < w
  PROVE  ((w * q) + r) % w = r
OBVIOUS

(* It makes no difference whether an earlier sum has wrapped around.        *)
LEMMA WrapsOnce ==
  ASSUME NEW s \in Nat, NEW h \in Nat, NEW w \in Nat, w > 0
  PROVE  ((s % w) + h) % w = (s + h) % w /\ (s + h) % w \in Nat
<1>1. PICK p \in Int, a \in Nat : p = s \div w /\ a = s % w /\ s = (w * p) + a
  BY Divides
<1>2. a + h \in Nat
  OBVIOUS
<1>3. PICK q \in Int, b \in Nat : b = (a + h) % w /\ b < w /\ a + h = (w * q) + b
  BY <1>2, Divides
<1>4. s + h = (w * (p + q)) + b /\ p + q \in Int
  <2>1. w * (p + q) = (w * p) + (w * q) /\ w * p \in Int /\ w * q \in Int
    OBVIOUS
  <2>2. QED BY <1>1, <1>3, <2>1
<1>5. (s + h) % w = b
  BY <1>3, <1>4, RemainderBelow
<1>6. QED BY <1>1, <1>3, <1>5

(* What one round of mem_inf's loop puts behind the rounds before it.       *)
LEMMA FirstPart ==
  ASSUME NEW S, NEW s \in Seq(S), NEW p \in Seq(S), NEW d \in 0 .. Len(p)
  PROVE  SubSeq(p, 1, d) \in Seq(S) /\ Len(s \o SubSeq(p, 1, d)) = Len(s) + d
<1>1. \A i \in 1 .. d : p[i] \in S
  OBVIOUS
<1>2. SubSeq(p, 1, d) \in Seq(S) /\ Len(SubSeq(p, 1, d)) = IF 1 <= d THEN d - 1 + 1 ELSE 0
  BY <1>1, SubSeqProperties
<1>3. Len(SubSeq(p, 1, d)) = d
  BY <1>2
<1>4. QED BY <1>2, <1>3, ConcatProperties

LEMMA Rounds ==
  ASSUME NEW S, NEW s \in Seq(S), NEW p \in Seq(S),
         NEW d \in 0 .. Len(p), NEW m \in d .. Len(p)
  PROVE  (s \o SubSeq(p, 1, d)) \o SubSeq(p, d + 1, m) = s \o SubSeq(p, 1, m)
<1>1. Len(p) \in Nat /\ d \in Nat /\ m \in Nat
  OBVIOUS
<1>2. SubSeq(p, 1, d) \in Seq(S) /\ SubSeq(p, d + 1, m) \in Seq(S)
  <2>1. \A i \in d + 1 .. m : p[i] \in S
    BY <1>1
  <2>2. SubSeq(p, d + 1, m) \in Seq(S)
    BY <1>1, <2>1, SubSeqProperties
  <2>3. QED BY <2>2, FirstPart
<1>3. SubSeq(p, 1, d) \o SubSeq(p, d + 1, m) = SubSeq(p, 1, m)
  <2>1. 1 \in 1 .. Len(p) + 1 /\ d \in 1 - 1 .. Len(p)
    BY <1>1
  <2>2. QED BY <2>1, ConcatAdjacentSubSeq
<1>4. (s \o SubSeq(p, 1, d)) \o SubSeq(p, d + 1, m)
        = s \o (SubSeq(p, 1, d) \o SubSeq(p, d + 1, m))
  <2> DEFINE t == SubSeq(p, 1, d)
             u == SubSeq(p, d + 1, m)
  <2>1. t \in Seq(S) /\ u \in Seq(S)
    BY <1>2
  <2> HIDE DEF t, u
  <2>2. (s \o t) \o u = s \o (t \o u)
    BY <2>1, ConcatAssociative
  <2>3. QED BY <2>2 DEF t, u
<1>5. QED BY <1>3, <1>4

(* The strips before strip i, for arguments that are all there.             *)
LEMMA StripByStrip ==
  ASSUME NEW a \in Arguments, Len(a) > 0, \A j \in 1 .. Len(a) : a[j] # NoSuchFile
  PROVE  /\ FirstOf(StripsOf(a), 0) = <<>>
         /\ FirstOf(StripsOf(a), Len(a)) = FlattenSeq(StripsOf(a))
         /\ \A i \in 1 .. Len(a) :
              /\ FirstOf(StripsOf(a), i) = FirstOf(StripsOf(a), i - 1) \o Pixels(a[i])
              /\ FirstOf(StripsOf(a), i - 1) \in Seq(Images \X Nat)
              /\ Len(FirstOf(StripsOf(a), i - 1)) = SumTo(PixelsOf(a), i - 1)
              /\ SumTo(PixelsOf(a), i - 1) \in Nat
              /\ SumTo(PixelsOf(a), i) = SumTo(PixelsOf(a), i - 1) + a[i].pixels
              /\ SumTo(HeightOf(a), i) = SumTo(HeightOf(a), i - 1) + a[i].height
              /\ SumTo(HeightOf(a), i - 1) \in Nat
<1> DEFINE ss == StripsOf(a)
           S == Images \X Nat
<1>1. /\ Len(a) \in Nat /\ ss \in Seq(Seq(S)) /\ Len(ss) = Len(a)
      /\ PixelsOf(a) \in [1 .. Len(a) -> Nat] /\ HeightOf(a) \in [1 .. Len(a) -> Nat]
      /\ \A j \in 1 .. Len(a) : PixelsOf(a)[j] = Len(ss[j])
  BY OfArguments
<1>2. \A i \in 1 .. Len(a) :
        /\ ss[i] = Pixels(a[i]) /\ PixelsOf(a)[i] = a[i].pixels /\ HeightOf(a)[i] = a[i].height
  BY DEF StripsOf, StripOf, PixelsOf, HeightOf
<1> HIDE DEF ss, S
<1>3. Len(ss) > 0
  BY <1>1
<1>4. /\ FirstOf(ss, 0) = <<>>
      /\ \A i \in 1 .. Len(ss) : FirstOf(ss, i) = FirstOf(ss, i - 1) \o ss[i]
      /\ FirstOf(ss, Len(ss)) = FlattenSeq(ss)
  BY <1>1, <1>3, FlattensInOrder
<1>5. \A i \in 0 .. Len(ss) : FirstOf(ss, i) \in Seq(S)
                              /\ Len(FirstOf(ss, i)) = SumTo(PixelsOf(a), i)
  BY <1>1, <1>3, FirstLength
<1>6. /\ \A i \in 0 .. Len(a) : SumTo(PixelsOf(a), i) \in Nat
      /\ \A i \in 1 .. Len(a) : SumTo(PixelsOf(a), i) = SumTo(PixelsOf(a), i - 1) + PixelsOf(a)[i]
  BY <1>1, SumOfSequence
<1>7. /\ \A i \in 0 .. Len(a) : SumTo(HeightOf(a), i) \in Nat
      /\ \A i \in 1 .. Len(a) : SumTo(HeightOf(a), i) = SumTo(HeightOf(a), i - 1) + HeightOf(a)[i]
  BY <1>1, SumOfSequence
<1>8. \A i \in 1 .. Len(a) : i - 1 \in 0 .. Len(a)
  BY <1>1
<1>9. QED BY <1>1, <1>2, <1>4, <1>5, <1>6, <1>7, <1>8 DEF ss, S

LEMMA CatStarts == CatInit => CatInv
<1> SUFFICES ASSUME CatInit PROVE CatInv
  OBVIOUS
<1>1. PICK c \in 0 .. MaxArgs : args \in [1 .. c -> Images \cup {NoSuchFile}]
  BY DEF CatInit
<1>2. c \in Nat
  BY WordAssumption
<1>3. args \in Arguments /\ Len(args) \in Nat
  BY <1>1, <1>2 DEF Arguments
<1>4. 1 \in 1 .. Len(args) + 1
  BY <1>3
<1>5. CatTyped
  BY <1>3, <1>4 DEF CatInit, CatTyped
<1>6. OpenInv
  <2>1. SumTo(HeightOf(args), 0) = 0
    BY <1>3, OfArguments, SumOfSequence
  <2>2. 0 % WORD = 0
    BY WordAssumption
  <2>3. QED BY <2>1, <2>2 DEF CatInit, OpenInv
<1>7. OpenedInv /\ LengthInv /\ InflateInv /\ DeflateInv /\ OldInv /\ MergesInOrder /\ BuffersSuffice
  BY DEF CatInit, OpenedInv, LengthInv, InflateInv, DeflateInv, OldInv, MergesInOrder, BuffersSuffice
<1>8. QED BY <1>5, <1>6, <1>7 DEF CatInv

(* A call that stops here leaves all.png alone, and nothing has overrun.    *)
LEMMA StopsClean ==
  ASSUME CatInv, position # "returned", position' \in {"returned", "crashed"},
         UNCHANGED <<args, k, height, length, inflated, have, len_def, all_png>>
  PROVE  CatInv'
<1>1. all_png' = OldImage
  BY DEF CatInv, OldInv
<1>2. CatTyped'
  BY DEF CatInv, CatTyped
<1>3. MergesInOrder' /\ OldInv'
  BY <1>1 DEF MergesInOrder, OldInv
<1>4. BuffersSuffice' /\ OpenInv' /\ OpenedInv' /\ LengthInv' /\ InflateInv' /\ DeflateInv'
  BY DEF BuffersSuffice, OpenInv, OpenedInv, LengthInv, InflateInv, DeflateInv
<1>5. QED BY <1>2, <1>3, <1>4 DEF CatInv

LEMMA OpenStripKeeps ==
  ASSUME CatInv, OpenStrip
  PROVE  CatInv'
<1>1. /\ position = "open" /\ k <= Len(args) /\ args[k] # NoSuchFile
      /\ height' = (height + args[k].height) % WORD /\ k' = k + 1
      /\ length' = IF k = 1 THEN args[k].length ELSE length
      /\ args' = args /\ position' = position /\ inflated' = inflated /\ have' = have
      /\ len_def' = len_def /\ all_png' = all_png
  BY DEF OpenStrip
<1>2. /\ args \in Arguments /\ k \in 1 .. Len(args) + 1
      /\ height \in Nat /\ length \in Nat /\ have \in Nat /\ len_def \in Nat
  BY DEF CatInv, CatTyped
<1>3. /\ \A j \in 1 .. k - 1 : args[j] # NoSuchFile
      /\ height = SumTo(HeightOf(args), k - 1) % WORD
      /\ inflated = <<>> /\ have = 0
  BY <1>1 DEF CatInv, OpenInv
<1>4. Len(args) \in Nat /\ k \in 1 .. Len(args) /\ WORD \in Nat /\ WORD > 0
  BY <1>1, <1>2, OfArguments, WordAssumption
<1>5. args[k].height \in Nat /\ args[k].length \in Nat
  BY <1>1, <1>2, <1>4, OfArguments
<1>6. /\ SumTo(HeightOf(args), k) = SumTo(HeightOf(args), k - 1) + args[k].height
      /\ SumTo(HeightOf(args), k - 1) \in Nat
  <2>1. HeightOf(args)[k] = args[k].height
    BY <1>1, <1>4 DEF HeightOf
  <2>2. k - 1 \in 0 .. Len(args)
    BY <1>4
  <2>3. HeightOf(args) \in [1 .. Len(args) -> Nat]
    BY <1>2, OfArguments
  <2>4. QED BY <1>4, <2>1, <2>2, <2>3, SumOfSequence
<1>7. height' = SumTo(HeightOf(args), k) % WORD /\ height' \in Nat
  <2>1. \A s, h \in Nat : ((s % WORD) + h) % WORD = (s + h) % WORD /\ (s + h) % WORD \in Nat
    BY <1>4, WrapsOnce
  <2>2. height' = ((SumTo(HeightOf(args), k - 1) % WORD) + args[k].height) % WORD
    BY <1>1, <1>3
  <2>3. QED BY <1>5, <1>6, <2>1, <2>2
<1>8. k' - 1 = k /\ k' \in 1 .. Len(args) + 1
  BY <1>1, <1>4
<1>9. CatTyped'
  BY <1>1, <1>2, <1>5, <1>7, <1>8 DEF CatTyped
<1>10. OpenInv'
  <2>1. \A j \in 1 .. k : j = k \/ j \in 1 .. k - 1
    BY <1>4
  <2>2. \A j \in 1 .. k : args[j] # NoSuchFile
    BY <1>1, <1>3, <2>1
  <2>3. QED BY <1>1, <1>3, <1>7, <1>8, <2>2 DEF OpenInv
<1>11. OldInv' /\ MergesInOrder' /\ BuffersSuffice'
  BY <1>1 DEF CatInv, OldInv, MergesInOrder, BuffersSuffice
<1>12. OpenedInv' /\ LengthInv' /\ InflateInv' /\ DeflateInv'
  BY <1>1 DEF OpenedInv, LengthInv, InflateInv, DeflateInv
<1>13. QED BY <1>9, <1>10, <1>11, <1>12 DEF CatInv

LEMMA SumLengthsKeeps ==
  ASSUME CatInv, SumLengths
  PROVE  CatInv'
<1>1. /\ position = "open" /\ args # <<>> /\ k > Len(args)
      /\ length' = SumOfLengths /\ k' = 1 /\ position' = "inflate"
      /\ args' = args /\ height' = height /\ inflated' = inflated /\ have' = have
      /\ len_def' = len_def /\ all_png' = all_png
  BY DEF SumLengths
<1>2. /\ args \in Arguments /\ k \in 1 .. Len(args) + 1
      /\ height \in Nat /\ have \in Nat /\ len_def \in Nat
  BY DEF CatInv, CatTyped
<1>3. /\ \A j \in 1 .. k - 1 : args[j] # NoSuchFile
      /\ height = SumTo(HeightOf(args), k - 1) % WORD
      /\ inflated = <<>> /\ have = 0
  BY <1>1 DEF CatInv, OpenInv
<1>4. Len(args) \in Nat /\ Len(args) > 0 /\ k - 1 = Len(args)
  <2>1. Len(args) \in Nat
    BY <1>2, OfArguments
  <2>2. Len(args) # 0
    BY <1>1, <1>2, EmptySeq DEF Arguments
  <2>3. QED BY <1>1, <1>2, <2>1, <2>2
<1>5. \A j \in 1 .. Len(args) : args[j] # NoSuchFile
  BY <1>3, <1>4
<1>6. length' = SumTo(LengthOf(args), Len(args)) % WORD
  BY <1>1, <1>2, <1>5, NoneMissing DEF SumOfLengths
<1>7. length' \in Nat
  <2>1. SumTo(LengthOf(args), Len(args)) \in Nat
    <3>1. Len(args) \in 0 .. Len(args) /\ LengthOf(args) \in [1 .. Len(args) -> Nat]
      BY <1>2, <1>4, OfArguments
    <3>2. QED BY <1>4, <3>1, SumOfSequence
  <2>2. QED BY <1>6, <2>1, Divides, WordAssumption
<1>8. CatTyped'
  BY <1>1, <1>2, <1>4, <1>7 DEF CatTyped
<1>9. OpenedInv' /\ LengthInv'
  BY <1>1, <1>3, <1>4, <1>5, <1>6 DEF OpenedInv, LengthInv
<1>10. InflateInv'
  <2>1. args[1] \in Images
    <3>1. 1 \in 1 .. Len(args)
      BY <1>4
    <3>2. QED BY <1>2, <1>5, <3>1, OfArguments
  <2>2. Pixels(args[1]) \in Seq(Images \X Nat) /\ args[1].pixels \in Nat
    BY <1>2, <2>1, OfArguments
  <2>3. FirstOf(StripsOf(args), 0) = <<>>
    BY <1>2, <1>4, <1>5, StripByStrip
  <2>4. <<>> \o SubSeq(Pixels(args[1]), 1, 0) = <<>>
    BY SubSeqEmpty, ConcatEmptySeq
  <2>5. \A j \in 1 .. 1 - 1 : args[j].sound
    OBVIOUS
  <2>6. 1 - 1 = 0 /\ ~(1 > Len(args))
    BY <1>4
  <2>7. QED BY <1>1, <1>3, <2>2, <2>3, <2>4, <2>5, <2>6 DEF InflateInv
<1>11. OldInv' /\ MergesInOrder' /\ BuffersSuffice'
  BY <1>1 DEF CatInv, OldInv, MergesInOrder, BuffersSuffice
<1>12. OpenInv' /\ DeflateInv'
  BY <1>1 DEF OpenInv, DeflateInv
<1>13. QED BY <1>8, <1>9, <1>10, <1>11, <1>12 DEF CatInv

(* What holds while the strips are inflated.                                *)
LEMMA WhileInflating ==
  ASSUME CatInv, position = "inflate", k <= Len(args)
  PROVE  /\ args \in Arguments /\ Len(args) \in Nat /\ Len(args) > 0 /\ k \in 1 .. Len(args)
         /\ \A j \in 1 .. Len(args) : args[j] # NoSuchFile
         /\ \A j \in 1 .. k - 1 : args[j].sound
         /\ Pixels(args[k]) \in Seq(Images \X Nat) /\ Len(Pixels(args[k])) = args[k].pixels
         /\ have \in 0 .. args[k].pixels /\ args[k].pixels \in Nat
         /\ inflated = FirstOf(StripsOf(args), k - 1) \o SubSeq(Pixels(args[k]), 1, have)
         /\ length = SumTo(LengthOf(args), Len(args)) % WORD
<1>1. /\ args \in Arguments /\ k \in 1 .. Len(args) + 1 /\ have \in Nat
  BY DEF CatInv, CatTyped
<1>2. /\ \A j \in 1 .. Len(args) : args[j] # NoSuchFile /\ Len(args) > 0
  BY DEF CatInv, OpenedInv
<1>3. Len(args) \in Nat /\ k \in 1 .. Len(args) /\ Len(args) > 0
  <2>1. Len(args) > 0
    BY DEF CatInv, OpenedInv
  <2>2. QED BY <1>1, <2>1, OfArguments
<1>4. args[k] \in Images
  BY <1>1, <1>2, <1>3, OfArguments
<1>5. /\ Pixels(args[k]) \in Seq(Images \X Nat) /\ Len(Pixels(args[k])) = args[k].pixels
      /\ args[k].pixels \in Nat
  BY <1>1, <1>4, OfArguments
<1>6. /\ \A j \in 1 .. k - 1 : args[j].sound
      /\ have <= args[k].pixels
      /\ inflated = FirstOf(StripsOf(args), k - 1) \o SubSeq(Pixels(args[k]), 1, have)
  <2>1. InflateInv
    BY DEF CatInv
  <2>2. \A j \in 1 .. k - 1 : args[j].sound
    BY <2>1 DEF InflateInv
  <2>3. have <= args[k].pixels
    BY <2>1 DEF InflateInv
  <2>4. inflated = FirstOf(StripsOf(args), k - 1) \o SubSeq(Pixels(args[k]), 1, have)
    BY <2>1 DEF InflateInv
  <2>5. QED BY <2>2, <2>3, <2>4
<1>7. length = SumTo(LengthOf(args), Len(args)) % WORD
  BY DEF CatInv, LengthInv
<1>8. have \in 0 .. args[k].pixels
  <2>1. have \in Nat /\ args[k].pixels \in Nat /\ have <= args[k].pixels
    BY <1>1, <1>5, <1>6
  <2>2. QED BY <2>1
<1>9. QED BY <1>1, <1>2, <1>3, <1>5, <1>6, <1>7, <1>8

(* Strips as BuffersSuffice wants them: a round never leaves the buffer.    *)
LEMMA RoundFits ==
  ASSUME CatInv, position = "inflate", k <= Len(args), Ordinary(args),
         NEW got \in Nat, have + got <= args[k].pixels
  PROVE  Len(inflated) + got <= InflatedRoom
<1>1. /\ args \in Arguments /\ Len(args) \in Nat /\ Len(args) > 0 /\ k \in 1 .. Len(args)
      /\ \A j \in 1 .. Len(args) : args[j] # NoSuchFile
      /\ Pixels(args[k]) \in Seq(Images \X Nat) /\ Len(Pixels(args[k])) = args[k].pixels
      /\ have \in 0 .. args[k].pixels /\ args[k].pixels \in Nat
      /\ inflated = FirstOf(StripsOf(args), k - 1) \o SubSeq(Pixels(args[k]), 1, have)
      /\ length = SumTo(LengthOf(args), Len(args)) % WORD
  BY WhileInflating
<1>2. /\ FirstOf(StripsOf(args), k - 1) \in Seq(Images \X Nat)
      /\ Len(FirstOf(StripsOf(args), k - 1)) = SumTo(PixelsOf(args), k - 1)
      /\ SumTo(PixelsOf(args), k - 1) \in Nat
      /\ SumTo(PixelsOf(args), k) = SumTo(PixelsOf(args), k - 1) + args[k].pixels
  BY <1>1, StripByStrip
<1>3. Len(inflated) = SumTo(PixelsOf(args), k - 1) + have
  <2>1. have \in 0 .. Len(Pixels(args[k]))
    BY <1>1
  <2>2. Len(inflated) = Len(FirstOf(StripsOf(args), k - 1)) + have
    BY <1>1, <1>2, <2>1, FirstPart
  <2>3. QED BY <1>2, <2>2
<1>4. SumTo(PixelsOf(args), k) <= InflatedRoom /\ InflatedRoom \in Nat
  <2>1. \A i \in 0 .. Len(args) : SumTo(PixelsOf(args), i) <= (FACTOR * length) % WORD
    BY <1>1, RoomForStrips
  <2>2. length \in Nat
    BY <1>1, RoomForStrips
  <2>3. k \in 0 .. Len(args)
    BY <1>1
  <2>4. FACTOR * length \in Nat /\ WORD \in Nat /\ WORD > 0
    BY <2>2, WordAssumption
  <2>5. (FACTOR * length) % WORD \in Nat
    BY <2>4, Divides
  <2>6. QED BY <2>1, <2>3, <2>5 DEF InflatedRoom
<1> DEFINE before == SumTo(PixelsOf(args), k - 1)
           room   == InflatedRoom
           here   == args[k].pixels
<1>5. before \in Nat /\ here \in Nat /\ room \in Nat /\ have \in Nat
  BY <1>1, <1>2, <1>4
<1>6. before + here <= room
  BY <1>2, <1>4
<1> HIDE DEF before, room, here
<1>7. have + got <= here
  BY DEF here
<1>8. (before + have) + got <= room
  BY <1>5, <1>6, <1>7
<1>9. QED BY <1>3, <1>8 DEF before, room

LEMMA InflateKeeps ==
  ASSUME CatInv, Inflate
  PROVE  CatInv'
<1> DEFINE a == args[k]
           got == SmallerOf(CHUNK, a.pixels - have)
<1>1. /\ position = "inflate" /\ k <= Len(args)
      /\ args' = args /\ height' = height /\ length' = length
      /\ len_def' = len_def /\ all_png' = all_png
      /\ IF Len(inflated) + got > InflatedRoom
           THEN position' = "undefined" /\ UNCHANGED <<k, inflated, have>>
           ELSE /\ inflated' = inflated \o SubSeq(Pixels(a), have + 1, have + got)
                /\ IF got = CHUNK
                     THEN have' = have + got /\ UNCHANGED k
                     ELSE a.sound /\ have' = 0 /\ k' = k + 1
                /\ UNCHANGED position
  BY DEF Inflate, SetUp
<1>2. /\ args \in Arguments /\ Len(args) \in Nat /\ Len(args) > 0 /\ k \in 1 .. Len(args)
      /\ \A j \in 1 .. Len(args) : args[j] # NoSuchFile
      /\ \A j \in 1 .. k - 1 : args[j].sound
      /\ Pixels(a) \in Seq(Images \X Nat) /\ Len(Pixels(a)) = a.pixels
      /\ have \in 0 .. a.pixels /\ a.pixels \in Nat
      /\ inflated = FirstOf(StripsOf(args), k - 1) \o SubSeq(Pixels(a), 1, have)
  BY <1>1, WhileInflating
<1>3. /\ got \in Nat /\ have + got \in have .. a.pixels /\ have + got \in Nat
      /\ got # CHUNK => have + got = a.pixels
  <2>1. a.pixels - have \in Nat /\ CHUNK \in Nat /\ have \in Nat /\ a.pixels \in Nat
    BY <1>2, WordAssumption
  <2>2. \/ got = CHUNK /\ CHUNK < a.pixels - have
        \/ got = a.pixels - have
    BY DEF SmallerOf
  <2> HIDE DEF got, a
  <2>3. QED BY <2>1, <2>2
<1>4. /\ FirstOf(StripsOf(args), k - 1) \in Seq(Images \X Nat)
      /\ FirstOf(StripsOf(args), k) = FirstOf(StripsOf(args), k - 1) \o Pixels(a)
  BY <1>2, StripByStrip
<1>5. height \in Nat /\ length \in Nat /\ len_def \in Nat /\ all_png = OldImage
  BY <1>1 DEF CatInv, CatTyped, OldInv
<1> HIDE DEF got
<1>6. OldInv' /\ MergesInOrder'
  BY <1>1, <1>5 DEF OldInv, MergesInOrder
<1>7. CASE Len(inflated) + got > InflatedRoom
  <2>1. position' = "undefined" /\ k' = k /\ have' = have /\ inflated' = inflated
    BY <1>1, <1>7
  <2>2. CatTyped'
    BY <1>1, <1>2, <1>5, <2>1 DEF CatTyped
  <2>3. BuffersSuffice'
    <3>1. CASE Ordinary(args)
      <4>1. have + got <= args[k].pixels
        BY <1>2, <1>3
      <4>2. Len(inflated) + got <= InflatedRoom
        BY <1>1, <1>3, <3>1, <4>1, RoundFits
      <4>3. Len(inflated) \in Nat /\ InflatedRoom \in Nat
        <5>1. have \in 0 .. Len(Pixels(a))
          BY <1>2
        <5>2. Len(inflated) = Len(FirstOf(StripsOf(args), k - 1)) + have
          BY <1>2, <1>4, <5>1, FirstPart
        <5>3. Len(inflated) \in Nat
          BY <1>2, <1>4, <5>2
        <5>4. FACTOR * length \in Nat /\ WORD \in Nat /\ WORD > 0
          BY <1>5, WordAssumption
        <5>5. InflatedRoom \in Nat
          BY <5>4, Divides DEF InflatedRoom
        <5>6. QED BY <5>3, <5>5
      <4>4. QED BY <1>3, <1>7, <4>2, <4>3
    <3>2. CASE ~Ordinary(args)
      <4>1. DOMAIN args = 1 .. Len(args)
        BY <1>2 DEF Arguments
      <4>2. SumFunction([j \in DOMAIN args |-> args[j].length]) = SumTo(LengthOf(args), Len(args))
        BY <1>2, NoneMissing
      <4>3. \A j \in 1 .. Len(args) : args[j].pixels \in Nat /\ FACTOR * args[j].length \in Nat
        <5>1. \A j \in 1 .. Len(args) : args[j].pixels \in Nat /\ args[j].length \in Nat
          BY <1>2, OfArguments
        <5>2. \A x \in Nat : FACTOR * x \in Nat
          BY WordAssumption
        <5>3. QED BY <5>1, <5>2
      <4>4. FACTOR * SumTo(LengthOf(args), Len(args)) \in Nat
        <5>1. SumTo(LengthOf(args), Len(args)) \in Nat
          <6>1. Len(args) \in 0 .. Len(args) /\ LengthOf(args) \in [1 .. Len(args) -> Nat]
            BY <1>2, OfArguments
          <6>2. QED BY <1>2, <6>1, SumOfSequence
        <5>2. QED BY <5>1, WordAssumption
      <4>5. \/ \E j \in 1 .. Len(args) : args[j].pixels > FACTOR * args[j].length
            \/ FACTOR * SumTo(LengthOf(args), Len(args)) >= WORD
        BY <3>2, <4>3, <4>4, WordAssumption DEF Ordinary
      <4>6. QED BY <1>1, <4>1, <4>2, <4>5 DEF BuffersSuffice
    <3>3. QED BY <3>1, <3>2
  <2>4. OpenInv' /\ OpenedInv' /\ LengthInv' /\ InflateInv' /\ DeflateInv'
    BY <2>1 DEF OpenInv, OpenedInv, LengthInv, InflateInv, DeflateInv
  <2>5. QED BY <1>6, <2>2, <2>3, <2>4 DEF CatInv
<1>8. CASE ~(Len(inflated) + got > InflatedRoom)
  <2>1. /\ position' = "inflate"
        /\ inflated' = inflated \o SubSeq(Pixels(a), have + 1, have + got)
        /\ IF got = CHUNK THEN have' = have + got /\ k' = k
                          ELSE a.sound /\ have' = 0 /\ k' = k + 1
    BY <1>1, <1>8
  <2>2. inflated' = FirstOf(StripsOf(args), k - 1) \o SubSeq(Pixels(a), 1, have + got)
    <3>1. have \in 0 .. Len(Pixels(a)) /\ have + got \in have .. Len(Pixels(a))
      BY <1>2, <1>3
    <3>2. (FirstOf(StripsOf(args), k - 1) \o SubSeq(Pixels(a), 1, have))
              \o SubSeq(Pixels(a), have + 1, have + got)
            = FirstOf(StripsOf(args), k - 1) \o SubSeq(Pixels(a), 1, have + got)
      BY <1>2, <1>4, <3>1, Rounds
    <3>3. QED BY <1>2, <2>1, <3>2
  <2>3. CatTyped'
    <3>1. k' \in 1 .. Len(args) + 1 /\ have' \in Nat
      <4>1. k \in 1 .. Len(args) /\ Len(args) \in Nat /\ have + got \in Nat
        BY <1>2, <1>3
      <4>2. k + 1 \in 1 .. Len(args) + 1 /\ k \in 1 .. Len(args) + 1
        BY <4>1
      <4>3. (k' = k /\ have' = have + got) \/ (k' = k + 1 /\ have' = 0)
        BY <2>1
      <4>4. QED BY <4>1, <4>2, <4>3
    <3>2. QED BY <1>1, <1>2, <1>5, <2>1, <3>1 DEF CatTyped
  <2>4. OpenedInv' /\ LengthInv'
    BY <1>1, <2>1 DEF CatInv, OpenedInv, LengthInv
  <2>5. InflateInv'
    <3>1. CASE got = CHUNK
      <4>1. have' = have + got /\ k' = k
        BY <2>1, <3>1
      <4>2. have' <= a.pixels /\ ~(k > Len(args))
        BY <1>2, <1>3, <4>1
      <4>3. QED BY <1>1, <1>2, <2>1, <2>2, <4>1, <4>2 DEF InflateInv
    <3>2. CASE got # CHUNK
      <4>1. a.sound /\ have' = 0 /\ k' = k + 1 /\ have + got = a.pixels
        BY <1>3, <2>1, <3>2
      <4>2. SubSeq(Pixels(a), 1, have + got) = Pixels(a)
        BY <1>2, <4>1, SubSeqFull
      <4>3. inflated' = FirstOf(StripsOf(args), k)
        BY <1>4, <2>2, <4>2
      <4>4. k' - 1 = k /\ \A j \in 1 .. k : j = k \/ j \in 1 .. k - 1
        BY <1>2, <4>1
      <4>5. \A j \in 1 .. k' - 1 : args'[j].sound
        BY <1>1, <1>2, <4>1, <4>4
      <4>6. ASSUME k' <= Len(args)
            PROVE  /\ 0 <= args[k'].pixels
                   /\ inflated' = FirstOf(StripsOf(args), k' - 1) \o SubSeq(Pixels(args[k']), 1, 0)
        <5>1. k' \in 1 .. Len(args)
          BY <1>2, <4>1, <4>6
        <5>2. args[k'].pixels \in Nat
          BY <1>2, <5>1, OfArguments
        <5>3. FirstOf(StripsOf(args), k' - 1) \in Seq(Images \X Nat)
          BY <1>2, <5>1, StripByStrip
        <5>4. FirstOf(StripsOf(args), k' - 1) \o <<>> = FirstOf(StripsOf(args), k' - 1)
          BY <5>3, ConcatEmptySeq
        <5>5. SubSeq(Pixels(args[k']), 1, 0) = <<>>
          BY SubSeqEmpty
        <5>6. 0 <= args[k'].pixels
          BY <5>2
        <5>7. inflated' = FirstOf(StripsOf(args), k' - 1)
          BY <4>3, <4>4
        <5>8. QED BY <5>4, <5>5, <5>6, <5>7
      <4>7. ASSUME k' > Len(args)
            PROVE  inflated' = FirstOf(StripsOf(args), Len(args))
        <5>1. k = Len(args)
          BY <1>2, <4>1, <4>7
        <5>2. QED BY <4>3, <5>1
      <4>8. QED BY <1>1, <4>1, <4>5, <4>6, <4>7 DEF InflateInv
    <3>3. QED BY <3>1, <3>2
  <2>6. OpenInv' /\ DeflateInv' /\ BuffersSuffice'
    BY <2>1 DEF OpenInv, DeflateInv, BuffersSuffice
  <2>7. QED BY <1>6, <2>3, <2>4, <2>5, <2>6 DEF CatInv
<1>9. QED BY <1>7, <1>8

LEMMA StartDeflateKeeps ==
  ASSUME CatInv, StartDeflate
  PROVE  CatInv'
<1>1. /\ position = "inflate" /\ k > Len(args) /\ position' = "deflate"
      /\ len_def' \in DeflatedSizes
      /\ args' = args /\ height' = height /\ length' = length /\ k' = k
      /\ inflated' = inflated /\ have' = have /\ all_png' = all_png
  BY DEF StartDeflate, SetUp
<1>2. /\ args \in Arguments /\ k \in 1 .. Len(args) + 1
      /\ height \in Nat /\ length \in Nat /\ have \in Nat
  BY DEF CatInv, CatTyped
<1>3. len_def' \in Nat
  BY <1>1, WordAssumption
<1>4. k - 1 = Len(args) /\ Len(args) \in Nat
  BY <1>1, <1>2, OfArguments
<1>5. /\ \A j \in 1 .. Len(args) : args[j].sound
      /\ have = 0 /\ inflated = FirstOf(StripsOf(args), Len(args))
  BY <1>1, <1>4 DEF CatInv, InflateInv
<1>6. CatTyped'
  BY <1>1, <1>2, <1>3 DEF CatTyped
<1>7. OpenedInv' /\ LengthInv' /\ OldInv' /\ MergesInOrder'
  BY <1>1 DEF CatInv, OpenedInv, LengthInv, OldInv, MergesInOrder
<1>8. DeflateInv'
  BY <1>1, <1>3, <1>5 DEF DeflateInv
<1>9. OpenInv' /\ InflateInv' /\ BuffersSuffice'
  BY <1>1 DEF OpenInv, InflateInv, BuffersSuffice
<1>10. QED BY <1>6, <1>7, <1>8, <1>9 DEF CatInv

LEMMA DeflateKeeps ==
  ASSUME CatInv, Deflate
  PROVE  CatInv'
<1> DEFINE got == SmallerOf(CHUNK, len_def - have)
<1>1. /\ position = "deflate"
      /\ args' = args /\ height' = height /\ k' = k /\ inflated' = inflated
      /\ len_def' = len_def /\ all_png' = all_png
      /\ IF have + got > DeflatedRoom
           THEN position' = "undefined" /\ UNCHANGED <<have, length>>
           ELSE IF got = CHUNK
                  THEN have' = have + got /\ UNCHANGED <<position, length>>
                  ELSE have' = 0 /\ length' = len_def /\ position' = "write"
  BY DEF Deflate
<1>2. /\ args \in Arguments /\ k \in 1 .. Len(args) + 1
      /\ height \in Nat /\ length \in Nat /\ have \in Nat /\ len_def \in Nat
  BY DEF CatInv, CatTyped
<1>3. /\ \A j \in 1 .. Len(args) : args[j].sound
      /\ inflated = FirstOf(StripsOf(args), Len(args)) /\ have <= len_def
  BY <1>1 DEF CatInv, DeflateInv
<1>4. /\ Len(args) > 0 /\ \A j \in 1 .. Len(args) : args[j] # NoSuchFile
      /\ height = SumTo(HeightOf(args), Len(args)) % WORD
      /\ length = SumTo(LengthOf(args), Len(args)) % WORD
  BY <1>1 DEF CatInv, OpenedInv, LengthInv
<1>5. /\ got \in Nat /\ have + got \in Nat /\ have + got <= len_def
  <2>1. len_def - have \in Nat /\ CHUNK \in Nat
    BY <1>2, <1>3, WordAssumption
  <2>2. \/ got = CHUNK /\ CHUNK < len_def - have
        \/ got = len_def - have
    BY DEF SmallerOf
  <2> HIDE DEF got
  <2>3. QED BY <1>2, <2>1, <2>2
<1> HIDE DEF got
<1>6. OldInv' /\ MergesInOrder'
  <2>1. all_png = OldImage
    BY <1>1 DEF CatInv, OldInv
  <2>2. QED BY <1>1, <2>1 DEF OldInv, MergesInOrder
<1>7. CASE have + got > DeflatedRoom
  <2>1. position' = "undefined" /\ have' = have /\ length' = length
    BY <1>1, <1>7
  <2>2. CatTyped'
    BY <1>1, <1>2, <2>1 DEF CatTyped
  <2>3. BuffersSuffice'
    <3>1. SumOfLengths = SumTo(LengthOf(args), Len(args)) % WORD
      BY <1>2, <1>4, NoneMissing DEF SumOfLengths
    <3>2. length = SumOfLengths
      BY <1>4, <3>1
    <3>3. CASE FACTOR * SumTo(LengthOf(args), Len(args)) < WORD
      <4>1. SumTo(LengthOf(args), Len(args)) \in Nat
        <5>1. Len(args) \in Nat /\ Len(args) \in 0 .. Len(args)
              /\ LengthOf(args) \in [1 .. Len(args) -> Nat]
          BY <1>2, OfArguments
        <5>2. QED BY <5>1, SumOfSequence
      <4>2. (2 * length) % WORD = 2 * length
        BY <1>4, <3>3, <4>1, TwiceFits
      <4>3. len_def > 2 * length
        BY <1>2, <1>5, <1>7, <4>2 DEF DeflatedRoom
      <4>4. len_def' > 2 * SumOfLengths'
        BY <1>1, <3>2, <4>3 DEF SumOfLengths
      <4>5. QED BY <4>4 DEF BuffersSuffice
    <3>4. CASE ~(FACTOR * SumTo(LengthOf(args), Len(args)) < WORD)
      <4>1. SumFunction([j \in DOMAIN args |-> args[j].length]) = SumTo(LengthOf(args), Len(args))
        BY <1>2, <1>4, NoneMissing
      <4>2. FACTOR * SumTo(LengthOf(args), Len(args)) \in Nat
        <5>1. Len(args) \in Nat /\ Len(args) \in 0 .. Len(args)
              /\ LengthOf(args) \in [1 .. Len(args) -> Nat]
          BY <1>2, OfArguments
        <5>2. SumTo(LengthOf(args), Len(args)) \in Nat
          BY <5>1, SumOfSequence
        <5>3. QED BY <5>2, WordAssumption
      <4>3. FACTOR * SumFunction([j \in DOMAIN args |-> args[j].length]) >= WORD
        BY <3>4, <4>1, <4>2, WordAssumption
      <4>4. QED BY <1>1, <4>3 DEF BuffersSuffice
    <3>5. QED BY <3>3, <3>4
  <2>4. OpenInv' /\ OpenedInv' /\ LengthInv' /\ InflateInv' /\ DeflateInv'
    BY <2>1 DEF OpenInv, OpenedInv, LengthInv, InflateInv, DeflateInv
  <2>5. QED BY <1>6, <2>2, <2>3, <2>4 DEF CatInv
<1>8. CASE ~(have + got > DeflatedRoom)
  <2>1. \/ have' = have + got /\ position' = "deflate" /\ length' = length
        \/ have' = 0 /\ length' = len_def /\ position' = "write"
    BY <1>1, <1>8
  <2>2. CatTyped'
    BY <1>1, <1>2, <1>5, <2>1 DEF CatTyped
  <2>3. OpenedInv' /\ LengthInv'
    BY <1>1, <1>4, <2>1 DEF OpenedInv, LengthInv
  <2>4. DeflateInv'
    BY <1>1, <1>3, <1>5, <2>1 DEF DeflateInv
  <2>5. OpenInv' /\ InflateInv' /\ BuffersSuffice'
    BY <2>1 DEF OpenInv, InflateInv, BuffersSuffice
  <2>6. QED BY <1>6, <2>2, <2>3, <2>4, <2>5 DEF CatInv
<1>9. QED BY <1>7, <1>8

LEMMA WriteKeeps ==
  ASSUME CatInv, Write
  PROVE  CatInv'
<1>1. /\ position = "write" /\ position' = "returned"
      /\ args' = args /\ height' = height /\ length' = length /\ k' = k
      /\ inflated' = inflated /\ have' = have /\ len_def' = len_def
  BY DEF Write, Returns, SetUp
<1>2. PICK written \in 0 .. Len(Chunks) : all_png' = SubSeq(Chunks, 1, written)
  BY DEF Write
<1>3. /\ args \in Arguments /\ k \in 1 .. Len(args) + 1
      /\ height \in Nat /\ length \in Nat /\ have \in Nat /\ len_def \in Nat
  BY DEF CatInv, CatTyped
<1>4. /\ \A j \in 1 .. Len(args) : args[j].sound
      /\ inflated = FirstOf(StripsOf(args), Len(args))
  BY <1>1 DEF CatInv, DeflateInv
<1>5. /\ Len(args) > 0 /\ \A j \in 1 .. Len(args) : args[j] # NoSuchFile
      /\ height = SumTo(HeightOf(args), Len(args)) % WORD
  BY <1>1 DEF CatInv, OpenedInv
<1>6. DOMAIN args = 1 .. Len(args)
  BY <1>3 DEF Arguments
<1>7. Len(all_png') = written
  <2> DEFINE S == {Chunks[i] : i \in 1 .. 4}
  <2>1. Len(Chunks) = 4
    BY DEF Chunks
  <2>2. \A i \in 1 .. written : Chunks[i] \in S
    BY <2>1
  <2> HIDE DEF S
  <2>3. Len(SubSeq(Chunks, 1, written)) = IF 1 <= written THEN written - 1 + 1 ELSE 0
    BY <2>1, <2>2, SubSeqProperties
  <2>4. QED BY <1>2, <2>1, <2>3
<1>8. MergesInOrder'
  <2> DEFINE rows == SumFunction([j \in DOMAIN args |-> args[j].height])
             strips == [j \in DOMAIN args |-> Pixels(args[j])]
             image == << "header", Chunk("IHDR", rows), Chunk("IDAT", FlattenSeq(strips)), "IEND" >>
  <2>1. rows = SumTo(HeightOf(args), Len(args)) /\ strips = StripsOf(args)
    BY <1>3, <1>5, NoneMissing
  <2>2. inflated = FlattenSeq(strips)
    BY <1>3, <1>4, <1>5, <2>1, StripByStrip
  <2>3. rows \in Nat
    <3>1. Len(args) \in Nat /\ Len(args) \in 0 .. Len(args)
          /\ HeightOf(args) \in [1 .. Len(args) -> Nat]
      BY <1>3, OfArguments
    <3>2. QED BY <2>1, <3>1, SumOfSequence
  <2>4. rows < WORD => height = rows
    <3>1. \A x, w \in Nat : x < w => x % w = x
      OBVIOUS
    <3>2. height = rows % WORD
      BY <1>5, <2>1
    <3> HIDE DEF rows
    <3>3. QED BY <2>3, <3>1, <3>2, WordAssumption
  <2> HIDE DEF rows, strips
  <2>5. rows < WORD => Chunks = image
    BY <2>2, <2>4 DEF Chunks
  <2>6. rows < WORD => all_png' = SubSeq(image, 1, Len(all_png'))
    BY <1>2, <1>7, <2>5
  <2> HIDE DEF image
  <2>7. \A j \in DOMAIN args : args[j] # NoSuchFile /\ args[j].sound
    BY <1>4, <1>5, <1>6
  <2>8. QED BY <1>1, <2>6, <2>7 DEF MergesInOrder, rows, strips, image
<1>9. CatTyped'
  BY <1>1, <1>3 DEF CatTyped
<1>10. /\ OpenInv' /\ OpenedInv' /\ LengthInv' /\ InflateInv' /\ DeflateInv' /\ OldInv'
       /\ BuffersSuffice'
  BY <1>1 DEF OpenInv, OpenedInv, LengthInv, InflateInv, DeflateInv, OldInv, BuffersSuffice
<1>11. QED BY <1>8, <1>9, <1>10 DEF CatInv

LEMMA CatKeeps == CatInv /\ [CatNext]_cat_vars => CatInv'
<1> SUFFICES ASSUME CatInv, [CatNext]_cat_vars PROVE CatInv'
  OBVIOUS
<1>1. CASE NoArguments
  BY <1>1, StopsClean DEF NoArguments, Returns, SetUp
<1>2. CASE OpenStrip
  BY <1>2, OpenStripKeeps
<1>3. CASE OpenFails
  BY <1>3, StopsClean DEF OpenFails, Returns, SetUp
<1>4. CASE SumLengths
  BY <1>4, SumLengthsKeeps
<1>5. CASE Inflate
  BY <1>5, InflateKeeps
<1>6. CASE InflateReadsOn
  <2>1. /\ position = "inflate" /\ k = 1 /\ ~args[1].sound /\ position' = "undefined"
        /\ UNCHANGED <<args, k, height, length, inflated, have, len_def, all_png>>
    BY <1>6 DEF InflateReadsOn, SetUp
  <2>2. all_png = OldImage /\ args \in Arguments /\ Len(args) > 0
    BY <2>1 DEF CatInv, OldInv, CatTyped, OpenedInv
  <2>3. 1 \in DOMAIN args
    BY <2>2 DEF Arguments
  <2>4. CatTyped
    BY DEF CatInv
  <2>5. CatTyped'
    BY <2>1, <2>4 DEF CatTyped
  <2>6. BuffersSuffice'
    BY <2>1, <2>3 DEF BuffersSuffice
  <2>7. OldInv' /\ MergesInOrder'
    BY <2>1, <2>2 DEF OldInv, MergesInOrder
  <2>8. OpenInv' /\ OpenedInv' /\ LengthInv' /\ InflateInv' /\ DeflateInv'
    BY <2>1 DEF OpenInv, OpenedInv, LengthInv, InflateInv, DeflateInv
  <2>9. QED BY <2>5, <2>6, <2>7, <2>8 DEF CatInv
<1>7. CASE ZlibFails
  BY <1>7, StopsClean DEF ZlibFails, Returns, SetUp
<1>8. CASE StartDeflate
  BY <1>8, StartDeflateKeeps
<1>9. CASE Deflate
  BY <1>9, DeflateKeeps
<1>10. CASE Write
  BY <1>10, WriteKeeps
<1>11. CASE WriteCrashes
  BY <1>11, StopsClean DEF WriteCrashes, SetUp
<1>12. CASE UNCHANGED cat_vars
  BY <1>12 DEF cat_vars, CatInv, CatTyped, OpenInv, OpenedInv, LengthInv, InflateInv, DeflateInv,
               OldInv, MergesInOrder, BuffersSuffice, SumOfLengths
<1>13. QED
  BY <1>1, <1>2, <1>3, <1>4, <1>5, <1>6, <1>7, <1>8, <1>9, <1>10, <1>11, <1>12 DEF CatNext

(* The invariant of catpng. *)
THEOREM CatIsCorrect == CatSpec => []CatInv
<1>1. QED BY CatStarts, CatKeeps, PTL DEF CatSpec

(* What catpng writes to all.png is the strips of its arguments below each  *)
(* other, in their order, none of them missing or damaged, with as many     *)
(* rows as they have together: however often inflate has to be called for   *)
(* a strip, and however many strips there are.                              *)
THEOREM StripsInOrder == CatSpec => []MergesInOrder
<1>1. CatInv => MergesInOrder
  BY DEF CatInv
<1>2. QED BY <1>1, CatIsCorrect, PTL

(* Neither of catpng's buffers, sized from the sum of the lengths, is       *)
(* overrun, unless a strip is damaged or inflates to more than FACTOR       *)
(* times its data, the data deflate to more than twice what they were, or   *)
(* FACTOR times the sum does not fit a word.                                *)
THEOREM RoomEnough == CatSpec => []BuffersSuffice
<1>1. CatInv => BuffersSuffice
  BY DEF CatInv
<1>2. QED BY <1>1, CatIsCorrect, PTL

-----------------------------------------------------------------------------
(* Words as sets of bits.                                                   *)

Bits == SUBSET Nat

LEMMA XorMember ==
  ASSUME NEW a, NEW b, NEW x
  PROVE  x \in SymDiff(a, b) <=> ~(x \in a <=> x \in b)
BY DEF SymDiff

LEMMA XorTyped ==
  ASSUME NEW S, NEW a \in SUBSET S, NEW b \in SUBSET S
  PROVE  SymDiff(a, b) \in SUBSET S
BY DEF SymDiff

LEMMA XorMiddle ==
  ASSUME NEW a, NEW b, NEW c, NEW d
  PROVE  SymDiff(SymDiff(a, b), SymDiff(c, d)) = SymDiff(SymDiff(a, c), SymDiff(b, d))
BY DEF SymDiff

LEMMA XorEmpty ==
  ASSUME NEW a
  PROVE  SymDiff(a, {}) = a /\ SymDiff({}, a) = a /\ SymDiff(a, a) = {}
BY DEF SymDiff

LEMMA XorOnto ==
  ASSUME NEW a, NEW b
  PROVE  a = b <=> SymDiff(a, b) = {}
BY DEF SymDiff

LEMMA ShiftMember ==
  ASSUME NEW c \in Bits, NEW n \in Nat, NEW t \in Nat
  PROVE  t \in ShiftRight(c, n) <=> t + n \in c
<1>1. ASSUME t \in ShiftRight(c, n) PROVE t + n \in c
  <2>1. PICK b \in {x \in c : x >= n} : t = b - n
    BY <1>1 DEF ShiftRight
  <2>2. b \in Nat /\ b \in c
    BY DEF Bits
  <2>3. t + n = b
    BY <2>1, <2>2
  <2>4. QED BY <2>2, <2>3
<1>2. ASSUME t + n \in c PROVE t \in ShiftRight(c, n)
  <2>1. t + n >= n /\ t = (t + n) - n
    OBVIOUS
  <2>2. QED BY <1>2, <2>1 DEF ShiftRight
<1>3. QED BY <1>1, <1>2

LEMMA ShiftTyped ==
  ASSUME NEW c \in Bits, NEW n \in Nat
  PROVE  ShiftRight(c, n) \in Bits
<1>1. ASSUME NEW b \in {x \in c : x >= n} PROVE b - n \in Nat
  BY DEF Bits
<1>2. QED BY <1>1 DEF ShiftRight, Bits

LEMMA PolynomialBits == Polynomial \in SUBSET Ones /\ 31 \in Polynomial /\ Ones \in Bits
BY DEF Polynomial, Ones, Bits

LEMMA OneBitTyped ==
  ASSUME NEW c \in Bits
  PROVE  OneBit(c) \in Bits
<1>1. ShiftRight(c, 1) \in Bits
  BY ShiftTyped
<1>2. Polynomial \in Bits
  BY PolynomialBits DEF Bits
<1>3. QED BY <1>1, <1>2 DEF OneBit, Bits, SymDiff

(* A bit after one round. *)
LEMMA OneBitMember ==
  ASSUME NEW c \in Bits, NEW t \in Nat
  PROVE  t \in OneBit(c) <=> ~(t + 1 \in c <=> 0 \in c /\ t \in Polynomial)
<1>1. t \in ShiftRight(c, 1) <=> t + 1 \in c
  BY ShiftMember
<1>2. CASE 0 \in c
  <2>1. OneBit(c) = SymDiff(Polynomial, ShiftRight(c, 1))
    BY <1>2 DEF OneBit
  <2>2. QED BY <1>1, <1>2, <2>1, XorMember
<1>3. CASE 0 \notin c
  BY <1>1, <1>3 DEF OneBit
<1>4. QED BY <1>2, <1>3

LEMMA OneBitLinear ==
  ASSUME NEW a \in Bits, NEW b \in Bits
  PROVE  OneBit(SymDiff(a, b)) = SymDiff(OneBit(a), OneBit(b))
<1>1. SymDiff(a, b) \in Bits /\ OneBit(a) \in Bits /\ OneBit(b) \in Bits
  BY XorTyped, OneBitTyped DEF Bits
<1>2. OneBit(SymDiff(a, b)) \in Bits /\ SymDiff(OneBit(a), OneBit(b)) \in Bits
  BY <1>1, XorTyped, OneBitTyped DEF Bits
<1>3. ASSUME NEW t \in Nat
      PROVE  t \in OneBit(SymDiff(a, b)) <=> t \in SymDiff(OneBit(a), OneBit(b))
  <2>1. t \in OneBit(SymDiff(a, b)) <=>
          ~(t + 1 \in SymDiff(a, b) <=> 0 \in SymDiff(a, b) /\ t \in Polynomial)
    BY <1>1, OneBitMember
  <2>2. t \in OneBit(a) <=> ~(t + 1 \in a <=> 0 \in a /\ t \in Polynomial)
    BY OneBitMember
  <2>3. t \in OneBit(b) <=> ~(t + 1 \in b <=> 0 \in b /\ t \in Polynomial)
    BY OneBitMember
  <2>4. t + 1 \in SymDiff(a, b) <=> ~(t + 1 \in a <=> t + 1 \in b)
    BY XorMember
  <2>5. 0 \in SymDiff(a, b) <=> ~(0 \in a <=> 0 \in b)
    BY XorMember
  <2>6. t \in SymDiff(OneBit(a), OneBit(b)) <=> ~(t \in OneBit(a) <=> t \in OneBit(b))
    BY XorMember
  <2>7. QED BY <2>1, <2>2, <2>3, <2>4, <2>5, <2>6
<1>4. QED BY <1>2, <1>3 DEF Bits

(* A round loses nothing: the polynomial has the highest bit. *)
LEMMA OneBitKeepsDamage ==
  ASSUME NEW c \in SUBSET Ones, c # {}
  PROVE  OneBit(c) \in SUBSET Ones /\ OneBit(c) # {}
<1>0. c \in Bits
  BY PolynomialBits DEF Bits
<1>1. OneBit(c) \in SUBSET Ones
  <2>1. ASSUME NEW t \in Nat, t \in OneBit(c) PROVE t \in Ones
    <3>1. t + 1 \in c \/ t \in Polynomial
      BY <1>0, <2>1, OneBitMember
    <3>2. QED BY <3>1, PolynomialBits DEF Ones
  <2>2. OneBit(c) \in Bits
    BY <1>0, OneBitTyped
  <2>3. QED BY <2>1, <2>2 DEF Bits
<1>2. CASE 0 \in c
  <2>1. 31 + 1 \notin c
    BY DEF Ones
  <2>2. 31 \in OneBit(c)
    BY <1>0, <1>2, <2>1, OneBitMember, PolynomialBits
  <2>3. QED BY <1>1, <2>2
<1>3. CASE 0 \notin c
  <2>1. PICK b \in c : TRUE
    OBVIOUS
  <2>2. b \in Nat /\ b # 0
    BY <1>3 DEF Ones
  <2>3. b - 1 \in Nat /\ (b - 1) + 1 = b
    BY <2>2
  <2>4. b - 1 \in OneBit(c)
    BY <1>0, <1>3, <2>1, <2>3, OneBitMember
  <2>5. QED BY <1>1, <2>4
<1>4. QED BY <1>2, <1>3

(* What u rounds of the inner loop compute. *)
RoundsOf(n, u, g) == g = [r \in 0 .. u |-> IF r = 0 THEN n ELSE OneBit(g[r - 1])]

LEMMA RoundsExist ==
  ASSUME NEW n, NEW u \in Nat
  PROVE  \E g : RoundsOf(n, u, g)
<1> DEFINE T == {i \in Nat : \E g : RoundsOf(n, i, g)}
<1>1. 0 \in T
  <2>1. RoundsOf(n, 0, [r \in 0 .. 0 |-> n])
    BY DEF RoundsOf
  <2>2. QED BY <2>1
<1>2. ASSUME NEW i \in T PROVE i + 1 \in T
  <2>1. PICK g : RoundsOf(n, i, g)
    OBVIOUS
  <2> DEFINE h == [r \in 0 .. i + 1 |-> IF r = 0 THEN n ELSE OneBit(g[r - 1])]
  <2>2. \A r \in 0 .. i : g[r] = h[r]
    <3>1. \A r \in 0 .. i : g[r] = IF r = 0 THEN n ELSE OneBit(g[r - 1])
      BY <2>1 DEF RoundsOf
    <3>2. \A r \in 0 .. i : r \in 0 .. i + 1
      OBVIOUS
    <3>3. QED BY <3>1, <3>2
  <2>3. \A r \in 0 .. i + 1 : r # 0 => r - 1 \in 0 .. i
    OBVIOUS
  <2>4. h = [r \in 0 .. i + 1 |-> IF r = 0 THEN n ELSE OneBit(h[r - 1])]
    BY <2>2, <2>3
  <2> HIDE DEF h
  <2>5. RoundsOf(n, i + 1, h)
    BY <2>4 DEF RoundsOf
  <2>6. QED BY <2>5
<1>3. T = Nat
  <2>1. T \in SUBSET Nat
    OBVIOUS
  <2> HIDE DEF T
  <2>2. QED BY <1>1, <1>2, <2>1, SetInduction
<1>4. QED BY <1>3

LEMMA TableIsRounds ==
  \A n, u : TableEntry(n, u) = (CHOOSE g : RoundsOf(n, u, g))[u]
BY DEF TableEntry, RoundsOf

LEMMA RoundsAgree ==
  ASSUME NEW n, NEW u \in Nat, NEW m \in Nat, NEW g, NEW h,
         RoundsOf(n, u, g), RoundsOf(n, m, h)
  PROVE  \A r \in Nat : r <= u /\ r <= m => g[r] = h[r]
<1> DEFINE T == {r \in Nat : r <= u /\ r <= m => g[r] = h[r]}
<1>0. /\ \A r \in 0 .. u : g[r] = IF r = 0 THEN n ELSE OneBit(g[r - 1])
      /\ \A r \in 0 .. m : h[r] = IF r = 0 THEN n ELSE OneBit(h[r - 1])
  BY DEF RoundsOf
<1>1. 0 \in T
  BY <1>0
<1>2. ASSUME NEW r \in T PROVE r + 1 \in T
  <2>1. ASSUME r + 1 <= u, r + 1 <= m PROVE g[r + 1] = h[r + 1]
    <3>1. r + 1 \in 0 .. u /\ r + 1 \in 0 .. m /\ (r + 1) - 1 = r /\ r + 1 # 0
      BY <2>1
    <3>2. g[r] = h[r]
      BY <2>1
    <3>3. QED BY <1>0, <3>1, <3>2
  <2>2. QED BY <2>1
<1>3. T = Nat
  <2>1. T \in SUBSET Nat
    OBVIOUS
  <2> HIDE DEF T
  <2>2. QED BY <1>1, <1>2, <2>1, SetInduction
<1>4. QED BY <1>3

LEMMA NoRound == \A n : TableEntry(n, 0) = n
<1>1. ASSUME NEW n PROVE TableEntry(n, 0) = n
  <2> DEFINE g == CHOOSE h : RoundsOf(n, 0, h)
  <2>1. RoundsOf(n, 0, g)
    BY RoundsExist
  <2>2. TableEntry(n, 0) = g[0]
    BY TableIsRounds
  <2> HIDE DEF g
  <2>3. QED BY <2>1, <2>2 DEF RoundsOf
<1>2. QED BY <1>1

LEMMA OneRound ==
  ASSUME NEW n, NEW u \in Nat
  PROVE  TableEntry(n, u + 1) = OneBit(TableEntry(n, u))
<1> DEFINE g == CHOOSE x : RoundsOf(n, u, x)
           h == CHOOSE x : RoundsOf(n, u + 1, x)
<1>1. RoundsOf(n, u, g) /\ RoundsOf(n, u + 1, h)
  BY RoundsExist
<1>2. TableEntry(n, u) = g[u] /\ TableEntry(n, u + 1) = h[u + 1]
  BY TableIsRounds
<1> HIDE DEF g, h
<1>3. h[u] = g[u]
  BY <1>1, RoundsAgree
<1>4. h[u + 1] = OneBit(h[u])
  <2>1. u + 1 \in 0 .. u + 1 /\ (u + 1) - 1 = u /\ u + 1 # 0
    OBVIOUS
  <2>2. QED BY <1>1, <2>1 DEF RoundsOf
<1>5. QED BY <1>2, <1>3, <1>4

LEMMA RoundsTyped ==
  ASSUME NEW n \in Bits
  PROVE  \A u \in Nat : TableEntry(n, u) \in Bits
<1> DEFINE T == {u \in Nat : TableEntry(n, u) \in Bits}
<1>1. 0 \in T
  BY NoRound
<1>2. ASSUME NEW u \in T PROVE u + 1 \in T
  <2>1. u \in Nat /\ TableEntry(n, u) \in Bits
    OBVIOUS
  <2>2. QED BY <2>1, OneRound, OneBitTyped
<1>3. T = Nat
  <2>1. T \in SUBSET Nat
    OBVIOUS
  <2> HIDE DEF T
  <2>2. QED BY <1>1, <1>2, <2>1, SetInduction
<1>4. QED BY <1>3

LEMMA RoundsLinear ==
  ASSUME NEW a \in Bits, NEW b \in Bits
  PROVE  \A u \in Nat :
           TableEntry(SymDiff(a, b), u) = SymDiff(TableEntry(a, u), TableEntry(b, u))
<1> DEFINE T == {u \in Nat : TableEntry(SymDiff(a, b), u)
                               = SymDiff(TableEntry(a, u), TableEntry(b, u))}
<1>1. 0 \in T
  BY NoRound
<1>2. ASSUME NEW u \in T PROVE u + 1 \in T
  <2>1. u \in Nat /\ TableEntry(a, u) \in Bits /\ TableEntry(b, u) \in Bits
    BY RoundsTyped
  <2>2. TableEntry(SymDiff(a, b), u) = SymDiff(TableEntry(a, u), TableEntry(b, u))
    OBVIOUS
  <2>3. QED BY <2>1, <2>2, OneRound, OneBitLinear
<1>3. T = Nat
  <2>1. T \in SUBSET Nat
    OBVIOUS
  <2> HIDE DEF T
  <2>2. QED BY <1>1, <1>2, <2>1, SetInduction
<1>4. QED BY <1>3

(* Rounds of rounds. *)
LEMMA RoundsAdd ==
  ASSUME NEW n, NEW j \in Nat
  PROVE  \A u \in Nat : TableEntry(n, j + u) = TableEntry(TableEntry(n, j), u)
<1> DEFINE T == {u \in Nat : TableEntry(n, j + u) = TableEntry(TableEntry(n, j), u)}
<1>1. 0 \in T
  <2>1. j + 0 = j
    OBVIOUS
  <2>2. QED BY <2>1, NoRound
<1>2. ASSUME NEW u \in T PROVE u + 1 \in T
  <2>1. u \in Nat /\ j + u \in Nat /\ j + (u + 1) = (j + u) + 1
    OBVIOUS
  <2>2. TableEntry(n, j + u) = TableEntry(TableEntry(n, j), u)
    OBVIOUS
  <2>3. TableEntry(n, (j + u) + 1) = OneBit(TableEntry(n, j + u))
    BY <2>1, OneRound
  <2>4. TableEntry(TableEntry(n, j), u + 1) = OneBit(TableEntry(TableEntry(n, j), u))
    BY <2>1, OneRound
  <2>5. QED BY <2>1, <2>2, <2>3, <2>4
<1>3. T = Nat
  <2>1. T \in SUBSET Nat
    OBVIOUS
  <2> HIDE DEF T
  <2>2. QED BY <1>1, <1>2, <2>1, SetInduction
<1>4. QED BY <1>3

(* Bits far enough from the right are only shifted. *)
LEMMA RoundsShift ==
  ASSUME NEW c \in Bits, NEW m \in Nat, \A b \in c : b >= m
  PROVE  TableEntry(c, m) = ShiftRight(c, m)
<1> DEFINE T == {u \in Nat : u <= m => TableEntry(c, u) = ShiftRight(c, u)}
<1>1. 0 \in T
  <2>1. ShiftRight(c, 0) = c
    <3>1. \A t \in Nat : t \in ShiftRight(c, 0) <=> t \in c
      BY ShiftMember
    <3>2. ShiftRight(c, 0) \in Bits
      BY ShiftTyped
    <3>3. QED BY <3>1, <3>2 DEF Bits
  <2>2. QED BY <2>1, NoRound
<1>2. ASSUME NEW u \in T PROVE u + 1 \in T
  <2>1. ASSUME u + 1 <= m PROVE TableEntry(c, u + 1) = ShiftRight(c, u + 1)
    <3> DEFINE s == ShiftRight(c, u)
    <3>1. u \in Nat /\ TableEntry(c, u) = s
      BY <2>1
    <3>2. s \in Bits /\ OneBit(s) \in Bits /\ ShiftRight(c, u + 1) \in Bits
      BY ShiftTyped, OneBitTyped
    <3>3. \A t \in Nat : t \in s <=> t + u \in c
      BY ShiftMember
    <3>4. 0 \notin s
      <4>1. 0 + u \notin c
        BY <2>1
      <4>2. QED BY <3>3, <4>1
    <3> HIDE DEF s
    <3>5. ASSUME NEW t \in Nat PROVE t \in OneBit(s) <=> t \in ShiftRight(c, u + 1)
      <4>1. t \in OneBit(s) <=> t + 1 \in s
        BY <3>2, <3>4, OneBitMember
      <4>2. t + 1 \in s <=> (t + 1) + u \in c
        BY <3>3
      <4>3. t \in ShiftRight(c, u + 1) <=> t + (u + 1) \in c
        BY ShiftMember
      <4>4. (t + 1) + u = t + (u + 1)
        OBVIOUS
      <4>5. QED BY <4>1, <4>2, <4>3, <4>4
    <3>6. OneBit(s) = ShiftRight(c, u + 1)
      BY <3>2, <3>5 DEF Bits
    <3>7. QED BY <3>1, <3>6, OneRound
  <2>2. QED BY <2>1
<1>3. T = Nat
  <2>1. T \in SUBSET Nat
    OBVIOUS
  <2> HIDE DEF T
  <2>2. QED BY <1>1, <1>2, <2>1, SetInduction
<1>4. QED BY <1>3

LEMMA RoundsKeepDamage ==
  ASSUME NEW c \in SUBSET Ones, c # {}
  PROVE  \A u \in Nat : TableEntry(c, u) # {}
<1> DEFINE T == {u \in Nat : TableEntry(c, u) \in SUBSET Ones /\ TableEntry(c, u) # {}}
<1>1. 0 \in T
  BY NoRound
<1>2. ASSUME NEW u \in T PROVE u + 1 \in T
  <2>1. u \in Nat /\ TableEntry(c, u) \in SUBSET Ones /\ TableEntry(c, u) # {}
    OBVIOUS
  <2>2. QED BY <2>1, OneRound, OneBitKeepsDamage
<1>3. T = Nat
  <2>1. T \in SUBSET Nat
    OBVIOUS
  <2> HIDE DEF T
  <2>2. QED BY <1>1, <1>2, <2>1, SetInduction
<1>4. QED BY <1>3

LEMMA XorBits ==
  ASSUME NEW a \in Bits, NEW b \in Bits
  PROVE  SymDiff(a, b) \in Bits
BY DEF Bits, SymDiff

LEMMA ByteBits ==
  ASSUME NEW byte \in Byte8
  PROVE  byte \in Bits /\ byte \in SUBSET Ones
BY DEF Byte8, Bits, Ones

(* A byte through the table is eight rounds. *)
LEMMA TableByteByByte ==
  ASSUME NEW c \in Bits, NEW byte \in Byte8
  PROVE  NextCrc(c, byte) = TableEntry(SymDiff(c, byte), 8) /\ NextCrc(c, byte) \in Bits
<1> DEFINE x    == SymDiff(c, byte)
           low  == x \cap (0 .. 7)
           high == {b \in x : b >= 8}
<1>1. byte \in Bits /\ x \in Bits
  <2>1. byte \in Bits
    BY DEF Byte8, Bits
  <2>2. QED BY <2>1, XorTyped DEF Bits
<1>2. low \in Bits /\ high \in Bits /\ x = SymDiff(low, high) /\ low \in Byte8
  <2> HIDE DEF x
  <2>1. low \in Byte8 /\ low \in Bits /\ high \in Bits
    BY <1>1 DEF Byte8, Bits
  <2>2. \A b \in Nat : b \in x => ~(b \in low <=> b \in high)
    OBVIOUS
  <2>3. x = SymDiff(low, high)
    BY <1>1, <2>2 DEF Bits, SymDiff
  <2>4. QED BY <2>1, <2>3
<1>3. ShiftRight(c, 8) = ShiftRight(high, 8)
  <2>1. \A b \in Nat : b >= 8 => (b \in c <=> b \in high)
    BY DEF Byte8, SymDiff
  <2>2. c \subseteq Nat /\ high \subseteq Nat
    BY <1>2 DEF Bits
  <2> HIDE DEF high
  <2>3. {b \in c : b >= 8} = {b \in high : b >= 8}
    BY <2>1, <2>2
  <2>4. QED BY <2>3 DEF ShiftRight
<1>4. NextCrc(c, byte) = SymDiff(TableEntry(low, 8), ShiftRight(high, 8))
  <2>1. crc_table[low] = TableEntry(low, 8)
    BY <1>2 DEF crc_table
  <2>2. NextCrc(c, byte) = SymDiff(crc_table[low], ShiftRight(c, 8))
    BY DEF NextCrc
  <2>3. QED BY <1>3, <2>1, <2>2
<1>5. ShiftRight(high, 8) = TableEntry(high, 8)
  <2>1. \A b \in high : b >= 8
    OBVIOUS
  <2> HIDE DEF high
  <2>2. QED BY <1>2, <2>1, RoundsShift
<1> HIDE DEF low, high
<1>6. TableEntry(x, 8) = SymDiff(TableEntry(low, 8), TableEntry(high, 8))
  BY <1>2, RoundsLinear
<1>7. TableEntry(x, 8) \in Bits
  BY <1>1, RoundsTyped
<1>8. QED BY <1>4, <1>5, <1>6, <1>7

(* The checksum after each byte of a message. *)
Updates(crc, buf, m, g) == g = [n \in 0 .. m |-> IF n = 0 THEN crc ELSE NextCrc(g[n - 1], buf[n])]

LEMMA UpdatesExist ==
  ASSUME NEW crc, NEW buf, NEW m \in Nat
  PROVE  \E g : Updates(crc, buf, m, g)
<1> DEFINE T == {i \in Nat : \E g : Updates(crc, buf, i, g)}
<1>1. 0 \in T
  <2>1. Updates(crc, buf, 0, [r \in 0 .. 0 |-> crc])
    BY DEF Updates
  <2>2. QED BY <2>1
<1>2. ASSUME NEW i \in T PROVE i + 1 \in T
  <2>1. PICK g : Updates(crc, buf, i, g)
    OBVIOUS
  <2> DEFINE h == [r \in 0 .. i + 1 |-> IF r = 0 THEN crc ELSE NextCrc(g[r - 1], buf[r])]
  <2>2. \A r \in 0 .. i : g[r] = h[r]
    <3>1. \A r \in 0 .. i : g[r] = IF r = 0 THEN crc ELSE NextCrc(g[r - 1], buf[r])
      BY <2>1 DEF Updates
    <3>2. \A r \in 0 .. i : r \in 0 .. i + 1
      OBVIOUS
    <3>3. QED BY <3>1, <3>2
  <2>3. \A r \in 0 .. i + 1 : r # 0 => r - 1 \in 0 .. i
    OBVIOUS
  <2>4. h = [r \in 0 .. i + 1 |-> IF r = 0 THEN crc ELSE NextCrc(h[r - 1], buf[r])]
    BY <2>2, <2>3
  <2> HIDE DEF h
  <2>5. Updates(crc, buf, i + 1, h)
    BY <2>4 DEF Updates
  <2>6. QED BY <2>5
<1>3. T = Nat
  <2>1. T \in SUBSET Nat
    OBVIOUS
  <2> HIDE DEF T
  <2>2. QED BY <1>1, <1>2, <2>1, SetInduction
<1>4. QED BY <1>3

After(buf, n) == (CHOOSE g : Updates(Ones, buf, Len(buf), g))[n]

LEMMA ByteByByte ==
  ASSUME NEW buf \in Seq(Byte8)
  PROVE  /\ After(buf, 0) = Ones
         /\ \A n \in 0 .. Len(buf) : After(buf, n) \in Bits
         /\ \A n \in 0 .. Len(buf) - 1 :
              After(buf, n + 1) = TableEntry(SymDiff(After(buf, n), buf[n + 1]), 8)
         /\ crc_of(buf) = SymDiff(After(buf, Len(buf)), Ones)
<1> DEFINE g == CHOOSE h : Updates(Ones, buf, Len(buf), h)
           m == Len(buf)
<1>1. m \in Nat /\ \A n \in 1 .. m : buf[n] \in Byte8
  OBVIOUS
<1>2. Updates(Ones, buf, m, g)
  BY <1>1, UpdatesExist
<1>3. crc_of(buf) = SymDiff(g[m], Ones) /\ \A n : After(buf, n) = g[n]
  BY DEF crc_of, update_crc, Updates, After
<1> HIDE DEF g, m
<1>4. \A n \in 0 .. m : g[n] = IF n = 0 THEN Ones ELSE NextCrc(g[n - 1], buf[n])
  BY <1>2 DEF Updates
<1>5. g[0] = Ones
  BY <1>1, <1>4
<1>6. \A n \in 0 .. m - 1 : g[n + 1] = NextCrc(g[n], buf[n + 1]) /\ buf[n + 1] \in Byte8
  <2>1. ASSUME NEW n \in 0 .. m - 1
        PROVE  g[n + 1] = NextCrc(g[n], buf[n + 1]) /\ buf[n + 1] \in Byte8
    <3>1. n + 1 \in 0 .. m /\ n + 1 \in 1 .. m /\ n + 1 # 0 /\ (n + 1) - 1 = n
      BY <1>1
    <3>2. QED BY <1>1, <1>4, <3>1
  <2>2. QED BY <2>1
<1>7. \A n \in 0 .. m : g[n] \in Bits
  <2> DEFINE T == {n \in Nat : n <= m => g[n] \in Bits}
  <2>1. 0 \in T
    BY <1>5, PolynomialBits
  <2>2. ASSUME NEW n \in T PROVE n + 1 \in T
    <3>1. ASSUME n + 1 <= m PROVE g[n + 1] \in Bits
      <4>1. n \in 0 .. m - 1 /\ g[n] \in Bits
        BY <1>1, <3>1
      <4>2. QED BY <1>6, <4>1, TableByteByByte
    <3>2. QED BY <3>1
  <2>3. T = Nat
    <3>1. T \in SUBSET Nat
      OBVIOUS
    <3> HIDE DEF T
    <3>2. QED BY <2>1, <2>2, <3>1, SetInduction
  <2>4. QED BY <1>1, <2>3
<1>8. \A n \in 0 .. m - 1 : g[n + 1] = TableEntry(SymDiff(g[n], buf[n + 1]), 8)
  <2>1. ASSUME NEW n \in 0 .. m - 1 PROVE g[n + 1] = TableEntry(SymDiff(g[n], buf[n + 1]), 8)
    <3>1. n \in 0 .. m
      BY <1>1
    <3>2. QED BY <1>6, <1>7, <3>1, TableByteByByte
  <2>2. QED BY <2>1
<1>9. QED BY <1>3, <1>5, <1>7, <1>8 DEF m

-----------------------------------------------------------------------------
(* Bursts of errors.                                                        *)

(* The bits of the burst that are still to come at bit u of the message. *)
Ahead(burst, p, u) == {t \in Nat : t + u - p \in burst}

(* The part of a burst at place p that is in byte n. *)
Hit(burst, p, n) == {b \in 0 .. 7 : 8 * (n - 1) + b - p \in burst}

LEMMA AheadBits == \A burst, p, u : Ahead(burst, p, u) \in Bits
BY DEF Ahead, Bits

LEMMA AheadMember == \A burst, p, u : \A t \in Nat : t \in Ahead(burst, p, u) <=> t + u - p \in burst
BY DEF Ahead

LEMMA HitMember ==
  ASSUME NEW burst, NEW p \in Nat, NEW n \in Nat
  PROVE  /\ Hit(burst, p, n + 1) \in Byte8
         /\ \A t \in Nat : t \in Hit(burst, p, n + 1) <=> t <= 7 /\ t \in Ahead(burst, p, 8 * n)
<1>1. \A t \in Nat : 8 * ((n + 1) - 1) + t - p = t + 8 * n - p
  OBVIOUS
<1>2. \A t \in Nat : t \in 0 .. 7 <=> t <= 7
  OBVIOUS
<1>3. QED BY <1>1, <1>2 DEF Hit, Ahead, Byte8

(* Two messages that differ by a burst at p have checksums that differ by   *)
(* what the burst is after as many rounds as the message has bits.          *)
LEMMA DamageTravels ==
  ASSUME NEW buf \in Seq(Byte8), NEW bad \in Seq(Byte8), Len(bad) = Len(buf),
         NEW burst \in SUBSET Ones, NEW p \in Nat,
         \A n \in 1 .. Len(buf) : bad[n] = SymDiff(buf[n], Hit(burst, p, n))
  PROVE  \A n \in 0 .. Len(buf) :
           SymDiff(SymDiff(After(buf, n), After(bad, n)), Ahead(burst, p, 8 * n))
             = TableEntry(Ahead(burst, p, 0), 8 * n)
<1> DEFINE m == Len(buf)
           D(n) == SymDiff(After(buf, n), After(bad, n))
           W(n) == Ahead(burst, p, 8 * n)
           X(n) == SymDiff(D(n), W(n))
           T == {n \in Nat : n <= m => X(n) = TableEntry(W(0), 8 * n)}
<1>0. m \in Nat
  OBVIOUS
<1>1. 0 \in T
  <2>1. D(0) = {}
    BY <1>0, ByteByByte, XorEmpty
  <2>2. X(0) = W(0)
    BY <2>1, XorEmpty
  <2>3. TableEntry(W(0), 8 * 0) = W(0)
    <3>1. 8 * 0 = 0
      OBVIOUS
    <3>2. QED BY <3>1, NoRound
  <2>4. QED BY <2>2, <2>3
<1>2. ASSUME NEW n \in T PROVE n + 1 \in T
  <2>1. ASSUME n + 1 <= m PROVE X(n + 1) = TableEntry(W(0), 8 * (n + 1))
    <3> DEFINE hit == Hit(burst, p, n + 1)
               rest == {t \in W(n) : t >= 8}
               a == After(buf, n)
               b == After(bad, n)
    <3>1. /\ n \in Nat /\ n \in 0 .. m - 1 /\ n \in 0 .. m /\ n + 1 \in 1 .. m
          /\ X(n) = TableEntry(W(0), 8 * n)
      BY <1>0, <2>1
    <3>2. a \in Bits /\ b \in Bits /\ buf[n + 1] \in Byte8 /\ bad[n + 1] \in Byte8
      BY <3>1, ByteByByte
    <3>3. bad[n + 1] = SymDiff(buf[n + 1], hit)
      BY <3>1
    <3>4. hit \in Bits /\ rest \in Bits /\ W(n) = SymDiff(hit, rest)
      <4>1. hit \in Bits
        BY <3>1, HitMember, ByteBits
      <4>2. \A t \in Nat : t \in hit <=> t \in W(n) /\ t <= 7
        BY <3>1, HitMember
      <4>3. W(n) \in Bits
        BY AheadBits
      <4>4. \A t \in Nat : t \in rest <=> t \in W(n) /\ ~(t <= 7)
        OBVIOUS
      <4>5. W(n) \subseteq Nat /\ rest \subseteq Nat /\ hit \subseteq Nat
        BY <4>1, <4>3 DEF Bits
      <4> HIDE DEF hit, rest, W
      <4>6. QED BY <4>2, <4>3, <4>4, <4>5 DEF Bits, SymDiff
    <3>5. /\ After(buf, n + 1) = TableEntry(SymDiff(a, buf[n + 1]), 8)
          /\ After(bad, n + 1) = TableEntry(SymDiff(b, bad[n + 1]), 8)
      BY <3>1, ByteByByte
    <3>6. W(n + 1) = TableEntry(rest, 8)
      <4>1. \A t \in rest : t >= 8
        OBVIOUS
      <4>2. TableEntry(rest, 8) = ShiftRight(rest, 8)
        <5> HIDE DEF rest
        <5>1. QED BY <3>4, <4>1, RoundsShift
      <4>3. \A t \in Nat : t \in ShiftRight(rest, 8) <=> t + 8 \in rest
        <5> HIDE DEF rest
        <5>1. QED BY <3>4, ShiftMember
      <4>4. \A t \in Nat : t + 8 \in rest <=> t \in W(n + 1)
        <5>1. \A t \in Nat : (t + 8) + 8 * n - p = t + 8 * (n + 1) - p
          BY <3>1
        <5>2. \A t \in Nat : t \in W(n + 1) <=> t + 8 * (n + 1) - p \in burst
          BY AheadMember
        <5>3. \A t \in Nat : t + 8 \in W(n) <=> (t + 8) + 8 * n - p \in burst
          <6>1. \A t \in Nat : t + 8 \in Nat
            OBVIOUS
          <6>2. QED BY <6>1, AheadMember
        <5>4. \A t \in Nat : t + 8 \in rest <=> t + 8 \in W(n)
          <6>1. \A t \in Nat : t + 8 >= 8
            OBVIOUS
          <6>2. QED BY <6>1
        <5> HIDE DEF rest, W
        <5>5. QED BY <5>1, <5>2, <5>3, <5>4
      <4>5. ShiftRight(rest, 8) \in Bits /\ W(n + 1) \in Bits
        <5>1. W(n + 1) \in Bits
          BY AheadBits
        <5> HIDE DEF rest, W
        <5>2. QED BY <3>4, <5>1, ShiftTyped
      <4> HIDE DEF rest, W
      <4>6. QED BY <4>2, <4>3, <4>4, <4>5 DEF Bits
    <3> DEFINE c == buf[n + 1]
    <3>7. /\ SymDiff(a, c) \in Bits /\ SymDiff(b, SymDiff(c, hit)) \in Bits
          /\ SymDiff(SymDiff(a, c), SymDiff(b, SymDiff(c, hit))) \in Bits
      <4>1. c \in Bits
        BY <3>2, ByteBits
      <4> HIDE DEF a, b, c, hit
      <4>2. SymDiff(a, c) \in Bits
        BY <3>2, <4>1, XorBits
      <4>3. SymDiff(c, hit) \in Bits
        BY <3>4, <4>1, XorBits
      <4>4. SymDiff(b, SymDiff(c, hit)) \in Bits
        BY <3>2, <4>3, XorBits
      <4>5. QED BY <4>2, <4>4, XorBits
    <3>8. SymDiff(SymDiff(SymDiff(a, c), SymDiff(b, SymDiff(c, hit))), rest) = X(n)
      <4>1. X(n) = SymDiff(SymDiff(a, b), SymDiff(hit, rest))
        BY <3>4
      <4> HIDE DEF a, b, c, hit, rest, X
      <4>2. QED BY <4>1 DEF SymDiff
    <3>9. X(n + 1) = TableEntry(X(n), 8)
      <4>1. X(n + 1) = SymDiff(SymDiff(TableEntry(SymDiff(a, c), 8),
                                       TableEntry(SymDiff(b, SymDiff(c, hit)), 8)),
                               TableEntry(rest, 8))
        BY <3>3, <3>5, <3>6
      <4> HIDE DEF a, b, c, hit, rest, X
      <4>2. QED BY <3>4, <3>7, <3>8, <4>1, RoundsLinear
    <3>10. 8 * (n + 1) = 8 * n + 8 /\ 8 * n \in Nat
      BY <3>1
    <3> HIDE DEF X, W
    <3>11. QED BY <3>1, <3>9, <3>10, RoundsAdd
  <2>2. QED BY <2>1
<1>3. T = Nat
  <2>1. T \in SUBSET Nat
    OBVIOUS
  <2> HIDE DEF T
  <2>2. QED BY <1>1, <1>2, <2>1, SetInduction
<1>4. ASSUME NEW n \in 0 .. m PROVE X(n) = TableEntry(W(0), 8 * n)
  <2>1. n \in Nat /\ n <= m
    BY <1>0
  <2>2. n \in T
    BY <1>3, <2>1
  <2> HIDE DEF X, W
  <2>3. QED BY <2>1, <2>2
<1>5. W(0) = Ahead(burst, p, 0)
  <2>1. 8 * 0 = 0
    OBVIOUS
  <2>2. QED BY <2>1
<1> HIDE DEF T
<1>6. QED BY <1>4, <1>5

(* A burst of at most 32 bits always shows. *)
LEMMA BurstShows ==
  ASSUME NEW buf \in Seq(Byte8), NEW bad \in Seq(Byte8), Len(bad) = Len(buf),
         NEW burst \in SUBSET Ones, burst # {}, NEW p \in Nat,
         \A b \in burst : p + b < 8 * Len(buf),
         \A n \in 1 .. Len(buf) : bad[n] = SymDiff(buf[n], Hit(burst, p, n))
  PROVE  crc_of(bad) # crc_of(buf)
<1> DEFINE m == Len(buf)
           a == After(buf, m)
           b == After(bad, m)
<1>0. m \in Nat /\ m \in 0 .. m /\ 8 * m \in Nat
  OBVIOUS
<1>1. Ahead(burst, p, 8 * m) = {}
  <2>1. \A t \in Nat : t + 8 * m - p \notin burst
    <3>1. ASSUME NEW t \in Nat, t + 8 * m - p \in burst PROVE FALSE
      <4>1. p + (t + 8 * m - p) < 8 * m
        BY <3>1
      <4>2. QED BY <1>0, <4>1
    <3>2. QED BY <3>1
  <2>2. QED BY <2>1 DEF Ahead
<1>2. SymDiff(SymDiff(a, b), {}) = TableEntry(Ahead(burst, p, 0), 8 * m)
  <2>1. SymDiff(SymDiff(a, b), Ahead(burst, p, 8 * m)) = TableEntry(Ahead(burst, p, 0), 8 * m)
    BY <1>0, DamageTravels
  <2>2. QED BY <1>1, <2>1
<1>3. SymDiff(a, b) = TableEntry(Ahead(burst, p, 0), 8 * m)
  BY <1>2, XorEmpty
<1>4. TableEntry(Ahead(burst, p, 0), p) = burst
  <2> DEFINE w == Ahead(burst, p, 0)
  <2>1. w \in Bits
    BY DEF Ahead, Bits
  <2>2. burst \in Bits
    BY PolynomialBits DEF Bits
  <2>3. \A t \in w : t >= p
    <3>1. \A t \in Nat : t + 0 - p \in burst => t >= p
      BY DEF Ones
    <3>2. QED BY <3>1 DEF Ahead
  <2>4. \A t \in Nat : t + p \in w <=> t \in burst
    <3>1. \A t \in Nat : (t + p) + 0 - p = t
      OBVIOUS
    <3>2. QED BY <3>1 DEF Ahead
  <2> HIDE DEF w
  <2>5. TableEntry(w, p) = ShiftRight(w, p)
    BY <2>1, <2>3, RoundsShift
  <2>6. \A t \in Nat : t \in ShiftRight(w, p) <=> t + p \in w
    BY <2>1, ShiftMember
  <2>7. ShiftRight(w, p) \in Bits
    BY <2>1, ShiftTyped
  <2>8. QED BY <2>2, <2>4, <2>5, <2>6, <2>7 DEF Bits, w
<1>5. p <= 8 * m
  <2>1. PICK x \in burst : TRUE
    OBVIOUS
  <2>2. x \in Nat /\ p + x < 8 * m
    BY <2>1 DEF Ones
  <2>3. QED BY <1>0, <2>2
<1>6. TableEntry(Ahead(burst, p, 0), 8 * m) = TableEntry(burst, 8 * m - p)
  <2>1. 8 * m - p \in Nat /\ p + (8 * m - p) = 8 * m
    BY <1>0, <1>5
  <2>2. QED BY <1>4, <2>1, RoundsAdd
<1>7. SymDiff(a, b) # {}
  <2>1. 8 * m - p \in Nat
    BY <1>0, <1>5
  <2>2. QED BY <1>3, <1>6, <2>1, RoundsKeepDamage
<1>8. crc_of(buf) = SymDiff(a, Ones) /\ crc_of(bad) = SymDiff(b, Ones)
  BY ByteByByte
<1> HIDE DEF a, b
<1>9. QED BY <1>7, <1>8 DEF SymDiff

-----------------------------------------------------------------------------
(* The definition of the CRC.                                               *)

Exponents == 0 .. 8 * MaxBytes + 31
Reflect(p) == {31 - e : e \in p}

LEMMA GeneratorBits ==
  /\ Generator \in SUBSET (0 .. 32) /\ 32 \in Generator
  /\ \A t \in Ones : 31 - t \in Generator <=> t \in Polynomial
BY DEF Generator, Polynomial, Ones

LEMMA ReflectMember ==
  ASSUME NEW p \in SUBSET Ones
  PROVE  /\ Reflect(p) \in SUBSET Ones
         /\ \A t \in Ones : t \in Reflect(p) <=> 31 - t \in p
<1>1. \A e \in p : 31 - e \in Ones /\ 31 - (31 - e) = e
  BY DEF Ones
<1>2. \A t \in Ones : 31 - (31 - t) = t
  BY DEF Ones
<1>3. QED BY <1>1, <1>2 DEF Reflect

LEMMA ReflectLinear ==
  ASSUME NEW a \in SUBSET Ones, NEW b \in SUBSET Ones
  PROVE  Reflect(SymDiff(a, b)) = SymDiff(Reflect(a), Reflect(b))
<1>1. SymDiff(a, b) \in SUBSET Ones
  BY XorTyped
<1>2. \A t \in Ones : t \in Reflect(SymDiff(a, b)) <=> 31 - t \in SymDiff(a, b)
  BY <1>1, ReflectMember
<1>3. \A t \in Ones : (t \in Reflect(a) <=> 31 - t \in a) /\ (t \in Reflect(b) <=> 31 - t \in b)
  BY ReflectMember
<1>4. /\ Reflect(SymDiff(a, b)) \in SUBSET Ones
      /\ Reflect(a) \in SUBSET Ones /\ Reflect(b) \in SUBSET Ones
  BY <1>1, ReflectMember
<1>5. QED BY <1>2, <1>3, <1>4 DEF SymDiff

LEMMA TimesXMember ==
  ASSUME NEW p \in SUBSET Ones
  PROVE  /\ TimesX(p) \in SUBSET Ones
         /\ \A t \in Ones : t \in TimesX(p) <=> ~(t - 1 \in p <=> 31 \in p /\ t \in Generator)
<1> DEFINE q == {e + 1 : e \in p}
<1>1. q \in SUBSET (1 .. 32) /\ (32 \in q <=> 31 \in p)
  BY DEF Ones
<1>2. \A t \in Ones : t \in q <=> t - 1 \in p
  <2>1. \A t \in Ones : (t - 1) + 1 = t
    BY DEF Ones
  <2>2. \A e \in p : (e + 1) - 1 = e
    BY DEF Ones
  <2>3. QED BY <2>1, <2>2
<1>3. TimesX(p) = IF 32 \in q THEN SymDiff(q, Generator) ELSE q
  BY DEF TimesX
<1> HIDE DEF q
<1>4. CASE 32 \in q
  <2>1. TimesX(p) = SymDiff(q, Generator) /\ 31 \in p
    BY <1>1, <1>3, <1>4
  <2>2. ASSUME NEW t \in SymDiff(q, Generator) PROVE t \in Ones
    <3>1. t \in 0 .. 32 /\ t # 32
      BY <1>1, <1>4, GeneratorBits DEF SymDiff
    <3>2. QED BY <3>1 DEF Ones
  <2>3. \A t \in Ones : t \in SymDiff(q, Generator) <=> ~(t \in q <=> t \in Generator)
    BY XorMember
  <2>4. QED BY <1>2, <2>1, <2>2, <2>3
<1>5. CASE 32 \notin q
  <2>1. TimesX(p) = q /\ 31 \notin p
    BY <1>1, <1>3, <1>5
  <2>2. ASSUME NEW t \in q PROVE t \in Ones
    <3>1. t \in 1 .. 32 /\ t # 32
      BY <1>1, <1>5
    <3>2. QED BY <3>1 DEF Ones
  <2>3. QED BY <1>2, <2>1, <2>2
<1>6. QED BY <1>4, <1>5

LEMMA TimesXLinear ==
  ASSUME NEW a \in SUBSET Ones, NEW b \in SUBSET Ones
  PROVE  TimesX(SymDiff(a, b)) = SymDiff(TimesX(a), TimesX(b))
<1> DEFINE c == SymDiff(a, b)
<1>1. c \in SUBSET Ones /\ TimesX(a) \in SUBSET Ones /\ TimesX(b) \in SUBSET Ones
  BY XorTyped, TimesXMember
<1>2. \A x : x \in c <=> ~(x \in a <=> x \in b)
  BY XorMember
<1> HIDE DEF c
<1>3. TimesX(c) \in SUBSET Ones /\ SymDiff(TimesX(a), TimesX(b)) \in SUBSET Ones
  BY <1>1, TimesXMember, XorTyped
<1>4. ASSUME NEW t \in Ones
      PROVE  t \in TimesX(c) <=> t \in SymDiff(TimesX(a), TimesX(b))
  <2>1. t \in TimesX(c) <=> ~(t - 1 \in c <=> 31 \in c /\ t \in Generator)
    BY <1>1, TimesXMember
  <2>2. t \in TimesX(a) <=> ~(t - 1 \in a <=> 31 \in a /\ t \in Generator)
    BY TimesXMember
  <2>3. t \in TimesX(b) <=> ~(t - 1 \in b <=> 31 \in b /\ t \in Generator)
    BY TimesXMember
  <2>4. t \in SymDiff(TimesX(a), TimesX(b)) <=> ~(t \in TimesX(a) <=> t \in TimesX(b))
    BY XorMember
  <2>5. QED BY <1>2, <2>1, <2>2, <2>3, <2>4
<1>5. TimesX(c) = SymDiff(TimesX(a), TimesX(b))
  BY <1>3, <1>4
<1>6. QED BY <1>5 DEF c

(* A multiplication by x is one round on the reflected word. *)
LEMMA TimesXIsOneBit ==
  ASSUME NEW p \in SUBSET Ones
  PROVE  Reflect(TimesX(p)) = OneBit(Reflect(p))
<1> DEFINE r == Reflect(p)
<1>1. r \in SUBSET Ones /\ r \in Bits /\ TimesX(p) \in SUBSET Ones
  BY ReflectMember, TimesXMember DEF Ones, Bits
<1>2. \A t \in Ones : t \in r <=> 31 - t \in p
  BY ReflectMember
<1>3. 0 \in r <=> 31 \in p
  <2>1. 0 \in Ones /\ 31 - 0 = 31
    BY DEF Ones
  <2>2. QED BY <1>2, <2>1
<1> HIDE DEF r
<1>4. ASSUME NEW t \in Ones PROVE t \in Reflect(TimesX(p)) <=> t \in OneBit(r)
  <2>1. t \in Nat /\ 31 - t \in Ones /\ (31 - t) - 1 = 31 - (t + 1)
    BY DEF Ones
  <2>2. t \in Reflect(TimesX(p)) <=> 31 - t \in TimesX(p)
    BY <1>1, ReflectMember
  <2>3. 31 - t \in TimesX(p) <=> ~((31 - t) - 1 \in p <=> 31 \in p /\ 31 - t \in Generator)
    BY <2>1, TimesXMember
  <2>4. t \in OneBit(r) <=> ~(t + 1 \in r <=> 0 \in r /\ t \in Polynomial)
    BY <1>1, <2>1, OneBitMember
  <2>5. t + 1 \in r <=> 31 - (t + 1) \in p
    <3>1. CASE t + 1 \in Ones
      BY <1>2, <3>1
    <3>2. CASE t + 1 \notin Ones
      <4>1. 31 - (t + 1) \notin Ones
        BY <3>2 DEF Ones
      <4>2. QED BY <1>1, <3>2, <4>1
    <3>3. QED BY <3>1, <3>2
  <2>6. 31 - t \in Generator <=> t \in Polynomial
    BY GeneratorBits
  <2>7. QED BY <1>3, <2>1, <2>2, <2>3, <2>4, <2>5, <2>6
<1>5. Reflect(TimesX(p)) \in SUBSET Ones
  BY <1>1, ReflectMember
<1>6. OneBit(r) \in SUBSET Ones
  <2>1. ASSUME NEW t \in Nat, t \in OneBit(r) PROVE t \in Ones
    <3>1. t + 1 \in r \/ t \in Polynomial
      BY <1>1, <2>1, OneBitMember
    <3>2. QED BY <1>1, <3>1, PolynomialBits DEF Ones
  <2>2. OneBit(r) \in Bits
    BY <1>1, OneBitTyped
  <2>3. QED BY <2>1, <2>2 DEF Bits
<1>7. QED BY <1>4, <1>5, <1>6 DEF r

(* The powers of x. *)
Powers(m, x) == x = [e \in 0 .. m |-> IF e = 0 THEN {0} ELSE TimesX(x[e - 1])]

LEMMA PowersExist ==
  ASSUME NEW m \in Nat
  PROVE  \E g : Powers(m, g)
<1> DEFINE T == {i \in Nat : \E g : Powers(i, g)}
<1>1. 0 \in T
  <2>1. Powers(0, [r \in 0 .. 0 |-> {0}])
    BY DEF Powers
  <2>2. QED BY <2>1
<1>2. ASSUME NEW i \in T PROVE i + 1 \in T
  <2>1. PICK g : Powers(i, g)
    OBVIOUS
  <2> DEFINE h == [r \in 0 .. i + 1 |-> IF r = 0 THEN {0} ELSE TimesX(g[r - 1])]
  <2>2. \A r \in 0 .. i : g[r] = h[r]
    <3>1. \A r \in 0 .. i : g[r] = IF r = 0 THEN {0} ELSE TimesX(g[r - 1])
      BY <2>1 DEF Powers
    <3>2. \A r \in 0 .. i : r \in 0 .. i + 1
      OBVIOUS
    <3>3. QED BY <3>1, <3>2
  <2>3. \A r \in 0 .. i + 1 : r # 0 => r - 1 \in 0 .. i
    OBVIOUS
  <2>4. h = [r \in 0 .. i + 1 |-> IF r = 0 THEN {0} ELSE TimesX(h[r - 1])]
    BY <2>2, <2>3
  <2> HIDE DEF h
  <2>5. Powers(i + 1, h)
    BY <2>4 DEF Powers
  <2>6. QED BY <2>5
<1>3. T = Nat
  <2>1. T \in SUBSET Nat
    OBVIOUS
  <2> HIDE DEF T
  <2>2. QED BY <1>1, <1>2, <2>1, SetInduction
<1>4. QED BY <1>3

LEMMA PowersOfX ==
  ASSUME MaxBytes \in Nat
  PROVE  /\ PowerOfX[0] = {0}
         /\ \A e \in Exponents : PowerOfX[e] \in SUBSET Ones
         /\ \A e \in Nat : e + 1 \in Exponents => PowerOfX[e + 1] = TimesX(PowerOfX[e])
<1> DEFINE m == 8 * MaxBytes + 31
           x == CHOOSE g : Powers(m, g)
<1>1. m \in Nat /\ Exponents = 0 .. m
  BY DEF Exponents
<1>2. Powers(m, x)
  <2> HIDE DEF m
  <2>1. QED BY <1>1, PowersExist
<1>3. PowerOfX = [e \in 0 .. m |-> x[e]]
  BY DEF PowerOfX, Powers
<1> HIDE DEF x, m
<1>4. \A e \in 0 .. m : x[e] = IF e = 0 THEN {0} ELSE TimesX(x[e - 1])
  BY <1>2 DEF Powers
<1>5. PowerOfX[0] = {0}
  BY <1>1, <1>3, <1>4
<1>6. \A e \in Nat : e + 1 \in Exponents => PowerOfX[e + 1] = TimesX(PowerOfX[e])
  <2>1. ASSUME NEW e \in Nat, e + 1 \in Exponents PROVE PowerOfX[e + 1] = TimesX(PowerOfX[e])
    <3>1. e + 1 \in 0 .. m /\ e \in 0 .. m /\ e + 1 # 0 /\ (e + 1) - 1 = e
      BY <1>1, <2>1
    <3>2. QED BY <1>3, <1>4, <3>1
  <2>2. QED BY <2>1
<1>7. \A e \in Exponents : PowerOfX[e] \in SUBSET Ones
  <2> DEFINE T == {e \in Nat : e <= m => PowerOfX[e] \in SUBSET Ones}
  <2>1. 0 \in T
    BY <1>5 DEF Ones
  <2>2. ASSUME NEW e \in T PROVE e + 1 \in T
    <3>1. ASSUME e + 1 <= m PROVE PowerOfX[e + 1] \in SUBSET Ones
      <4>1. e \in Nat /\ e + 1 \in Exponents /\ PowerOfX[e] \in SUBSET Ones
        BY <1>1, <3>1
      <4>2. QED BY <1>6, <4>1, TimesXMember
    <3>2. QED BY <3>1
  <2>3. T = Nat
    <3>1. T \in SUBSET Nat
      OBVIOUS
    <3> HIDE DEF T
    <3>2. QED BY <2>1, <2>2, <3>1, SetInduction
  <2>4. QED BY <1>1, <2>3
<1>8. QED BY <1>5, <1>6, <1>7

(* How many of the powers have term t, modulo 2. *)
With(poly, t) == {e \in poly : t \in PowerOfX[e]}

LEMMA Parity ==
  ASSUME NEW S, IsFiniteSet(S), NEW x
  PROVE  Cardinality(SymDiff(S, {x})) % 2 = 1 <=> ~(Cardinality(S) % 2 = 1)
<1>1. Cardinality(S) \in Nat
  BY FS_CardinalityType
<1>0. \A n \in Nat : (n + 1) % 2 = 1 <=> ~(n % 2 = 1)
  OBVIOUS
<1>2. CASE x \in S
  <2>1. SymDiff(S, {x}) = S \ {x}
    BY <1>2 DEF SymDiff
  <2>2. Cardinality(S \ {x}) = Cardinality(S) - 1 /\ Cardinality(S) # 0
    BY <1>2, FS_RemoveElement, FS_EmptySet
  <2>3. Cardinality(S) - 1 \in Nat /\ (Cardinality(S) - 1) + 1 = Cardinality(S)
    BY <1>1, <2>2
  <2>4. QED BY <1>0, <2>1, <2>2, <2>3
<1>3. CASE x \notin S
  <2>1. SymDiff(S, {x}) = S \cup {x}
    BY <1>3 DEF SymDiff
  <2>2. Cardinality(S \cup {x}) = Cardinality(S) + 1
    BY <1>3, FS_AddElement
  <2>3. QED BY <1>0, <1>1, <2>1, <2>2
<1>4. QED BY <1>2, <1>3

LEMMA ExponentsFinite ==
  ASSUME MaxBytes \in Nat, NEW poly \in SUBSET Exponents
  PROVE  IsFiniteSet(poly)
<1>1. IsFiniteSet(Exponents)
  BY FS_Interval DEF Exponents
<1>2. QED BY <1>1, FS_Subset

LEMMA RemainderMember ==
  ASSUME NEW poly
  PROVE  /\ Remainder(poly) \in SUBSET Ones
         /\ \A t \in Ones : t \in Remainder(poly) <=> Cardinality(With(poly, t)) % 2 = 1
BY DEF Remainder, With, Ones

(* One term more or less. *)
LEMMA RemainderToggle ==
  ASSUME MaxBytes \in Nat, NEW poly \in SUBSET Exponents, NEW e \in Exponents
  PROVE  Remainder(SymDiff(poly, {e})) = SymDiff(Remainder(poly), PowerOfX[e])
<1>1. PowerOfX[e] \in SUBSET Ones
  BY PowersOfX
<1>2. /\ Remainder(SymDiff(poly, {e})) \in SUBSET Ones /\ Remainder(poly) \in SUBSET Ones
      /\ SymDiff(Remainder(poly), PowerOfX[e]) \in SUBSET Ones
  BY <1>1, RemainderMember, XorTyped
<1>3. ASSUME NEW t \in Ones
      PROVE  t \in Remainder(SymDiff(poly, {e})) <=> ~(t \in Remainder(poly) <=> t \in PowerOfX[e])
  <2> DEFINE s == With(poly, t)
             r == With(SymDiff(poly, {e}), t)
  <2>1. IsFiniteSet(s)
    <3>1. s \in SUBSET Exponents
      BY DEF With
    <3> HIDE DEF s
    <3>2. QED BY <3>1, ExponentsFinite
  <2>2. t \in Remainder(poly) <=> Cardinality(s) % 2 = 1
    BY RemainderMember
  <2>3. t \in Remainder(SymDiff(poly, {e})) <=> Cardinality(r) % 2 = 1
    BY RemainderMember
  <2>4. CASE t \in PowerOfX[e]
    <3>1. r = SymDiff(s, {e})
      BY <2>4 DEF With, SymDiff
    <3> HIDE DEF s, r
    <3>2. Cardinality(r) % 2 = 1 <=> ~(Cardinality(s) % 2 = 1)
      BY <2>1, <3>1, Parity
    <3>3. QED BY <2>2, <2>3, <2>4, <3>2
  <2>5. CASE t \notin PowerOfX[e]
    <3>1. r = s
      BY <2>5 DEF With, SymDiff
    <3>2. QED BY <2>2, <2>3, <2>5, <3>1
  <2>6. QED BY <2>4, <2>5
<1>4. \A t \in Ones : t \in SymDiff(Remainder(poly), PowerOfX[e])
                        <=> ~(t \in Remainder(poly) <=> t \in PowerOfX[e])
  BY XorMember
<1>5. QED BY <1>2, <1>3, <1>4

LEMMA RemainderEmpty == Remainder({}) = {}
<1>1. \A t \in Ones : With({}, t) = {}
  BY DEF With
<1>2. Cardinality({}) = 0
  BY FS_EmptySet
<1>3. \A t \in Ones : t \notin Remainder({})
  <2>1. ASSUME NEW t \in Ones PROVE t \notin Remainder({})
    <3>1. t \in Remainder({}) <=> Cardinality(With({}, t)) % 2 = 1
      BY RemainderMember
    <3>2. Cardinality(With({}, t)) % 2 = 0
      BY <1>1, <1>2
    <3>3. QED BY <3>1, <3>2
  <2>2. QED BY <2>1
<1>4. Remainder({}) \in SUBSET Ones
  BY RemainderMember
<1>5. QED BY <1>3, <1>4

(* What induction over the exponents needs: a polynomial without its        *)
(* highest term.                                                            *)
LEMMA HighestTerm ==
  ASSUME NEW i \in Nat, NEW poly \in SUBSET (0 .. (i + 1) - 1)
  PROVE  /\ poly \ {i} \in SUBSET (0 .. i - 1)
         /\ i \in poly => poly = SymDiff(poly \ {i}, {i})
         /\ i \notin poly => poly \in SUBSET (0 .. i - 1)
<1>1. \A e \in 0 .. (i + 1) - 1 : e # i => e \in 0 .. i - 1
  OBVIOUS
<1>2. QED BY <1>1 DEF SymDiff

LEMMA RemainderLinear ==
  ASSUME MaxBytes \in Nat, NEW a \in SUBSET Exponents, NEW b \in SUBSET Exponents
  PROVE  Remainder(SymDiff(a, b)) = SymDiff(Remainder(a), Remainder(b))
<1> DEFINE m == 8 * MaxBytes + 32
           Good(c) == Remainder(SymDiff(a, c)) = SymDiff(Remainder(a), Remainder(c))
           T == {i \in Nat : i <= m => \A c \in SUBSET (0 .. i - 1) : Good(c)}
<1>0. m \in Nat /\ Exponents = 0 .. m - 1
  BY DEF Exponents
<1>1. 0 \in T
  <2>1. Good({})
    BY RemainderEmpty, XorEmpty
  <2>2. 0 .. 0 - 1 = {}
    OBVIOUS
  <2> HIDE DEF Good
  <2>3. QED BY <2>1, <2>2
<1>2. ASSUME NEW i \in T PROVE i + 1 \in T
  <2>1. ASSUME i + 1 <= m, NEW c \in SUBSET (0 .. (i + 1) - 1) PROVE Good(c)
    <3> DEFINE r == c \ {i}
    <3>1. i \in Nat /\ i \in Exponents /\ \A s \in SUBSET (0 .. i - 1) : Good(s)
      BY <1>0, <2>1
    <3>2. r \in SUBSET (0 .. i - 1) /\ r \in SUBSET Exponents
      <4>1. r \in SUBSET (0 .. i - 1)
        BY <3>1, HighestTerm
      <4>2. 0 .. i - 1 \subseteq Exponents
        BY <1>0, <2>1
      <4>3. QED BY <4>1, <4>2
    <3>3. CASE i \notin c
      <4>1. c \in SUBSET (0 .. i - 1)
        BY <3>1, <3>3, HighestTerm
      <4>2. QED BY <3>1, <4>1
    <3>4. CASE i \in c
      <4>1. c = SymDiff(r, {i})
        BY <3>1, <3>4, HighestTerm
      <4>2. Good(r)
        BY <3>1, <3>2
      <4> HIDE DEF r, T
      <4>3. SymDiff(a, c) = SymDiff(SymDiff(a, r), {i})
        BY <4>1 DEF SymDiff
      <4>4. SymDiff(a, r) \in SUBSET Exponents
        BY <3>2, XorTyped
      <4>5. Remainder(SymDiff(a, c)) = SymDiff(Remainder(SymDiff(a, r)), PowerOfX[i])
        BY <3>1, <4>3, <4>4, RemainderToggle
      <4>6. Remainder(c) = SymDiff(Remainder(r), PowerOfX[i])
        BY <3>1, <3>2, <4>1, RemainderToggle
      <4>7. \A x, y, z : SymDiff(SymDiff(x, y), z) = SymDiff(x, SymDiff(y, z))
        BY DEF SymDiff
      <4>8. QED BY <4>2, <4>5, <4>6, <4>7
    <3>5. QED BY <3>3, <3>4
  <2>2. QED BY <2>1
<1>3. T = Nat
  <2>1. T \in SUBSET Nat
    OBVIOUS
  <2> HIDE DEF T
  <2>2. QED BY <1>1, <1>2, <2>1, SetInduction
<1>4. \A c \in SUBSET (0 .. m - 1) : Good(c)
  <2> HIDE DEF Good, m
  <2>1. m \in T /\ m <= m
    BY <1>0, <1>3
  <2>2. QED BY <2>1
<1>5. QED BY <1>0, <1>4

Raise(poly, u) == {e + u : e \in poly}

LEMMA RaiseMember ==
  ASSUME NEW poly \in SUBSET Nat, NEW u \in Nat
  PROVE  /\ Raise(poly, u) \in SUBSET Nat
         /\ \A t \in Nat : t \in Raise(poly, u) <=> t >= u /\ t - u \in poly
<1>1. \A e \in poly : e + u \in Nat /\ e + u >= u /\ (e + u) - u = e
  OBVIOUS
<1>2. \A t \in Nat : (t - u) + u = t
  OBVIOUS
<1>3. QED BY <1>1, <1>2 DEF Raise

(* Multiplication by x commutes with the remainder. *)
LEMMA RemainderTimesX ==
  ASSUME MaxBytes \in Nat, NEW poly \in SUBSET Exponents, Raise(poly, 1) \in SUBSET Exponents
  PROVE  Remainder(Raise(poly, 1)) = TimesX(Remainder(poly))
<1> DEFINE m == 8 * MaxBytes + 31
           Good(c) == Remainder(Raise(c, 1)) = TimesX(Remainder(c))
           T == {i \in Nat : i <= m => \A c \in SUBSET (0 .. i - 1) : Good(c)}
<1>0. m \in Nat /\ Exponents = 0 .. m
  BY DEF Exponents
<1>1. 0 \in T
  <2>1. Good({})
    <3>1. Raise({}, 1) = {}
      BY DEF Raise
    <3>2. TimesX({}) = {}
      BY DEF TimesX
    <3>3. QED BY <3>1, <3>2, RemainderEmpty
  <2>2. 0 .. 0 - 1 = {}
    OBVIOUS
  <2> HIDE DEF Good
  <2>3. QED BY <2>1, <2>2
<1>2. ASSUME NEW i \in T PROVE i + 1 \in T
  <2>1. ASSUME i + 1 <= m, NEW c \in SUBSET (0 .. (i + 1) - 1) PROVE Good(c)
    <3> DEFINE r == c \ {i}
    <3>1. /\ i \in Nat /\ i \in Exponents /\ i + 1 \in Exponents
          /\ \A s \in SUBSET (0 .. i - 1) : Good(s)
      BY <1>0, <2>1
    <3>2. r \in SUBSET (0 .. i - 1) /\ r \in SUBSET Exponents
      <4>1. r \in SUBSET (0 .. i - 1)
        BY <3>1, HighestTerm
      <4>2. 0 .. i - 1 \subseteq Exponents
        BY <1>0, <2>1
      <4>3. QED BY <4>1, <4>2
    <3>3. CASE i \notin c
      <4>1. c \in SUBSET (0 .. i - 1)
        BY <3>1, <3>3, HighestTerm
      <4>2. QED BY <3>1, <4>1
    <3>4. CASE i \in c
      <4>1. c = SymDiff(r, {i})
        BY <3>1, <3>4, HighestTerm
      <4>2. Good(r)
        BY <3>1, <3>2
      <4>3. Raise(r, 1) \in SUBSET Exponents
        <5>1. \A e \in r : e \in 0 .. i - 1
          BY <3>2
        <5> HIDE DEF r
        <5>2. \A e \in 0 .. i - 1 : e + 1 \in 0 .. m
          BY <1>0, <2>1
        <5>3. QED BY <1>0, <5>1, <5>2 DEF Raise
      <4>4. Raise(c, 1) = SymDiff(Raise(r, 1), {i + 1})
        <5>1. \A e \in r : e + 1 # i + 1
          BY <3>2
        <5>2. Raise(c, 1) = Raise(r, 1) \cup {i + 1}
          BY <3>4 DEF Raise
        <5>3. i + 1 \notin Raise(r, 1)
          BY <5>1 DEF Raise
        <5>4. QED BY <5>2, <5>3 DEF SymDiff
      <4> HIDE DEF r, T
      <4>5. Remainder(Raise(c, 1)) = SymDiff(Remainder(Raise(r, 1)), PowerOfX[i + 1])
        BY <3>1, <4>3, <4>4, RemainderToggle
      <4>6. PowerOfX[i + 1] = TimesX(PowerOfX[i]) /\ PowerOfX[i] \in SUBSET Ones
        BY <3>1, PowersOfX
      <4>7. Remainder(c) = SymDiff(Remainder(r), PowerOfX[i])
        BY <3>1, <3>2, <4>1, RemainderToggle
      <4>8. TimesX(Remainder(c)) = SymDiff(TimesX(Remainder(r)), TimesX(PowerOfX[i]))
        BY <4>6, <4>7, RemainderMember, TimesXLinear
      <4>9. QED BY <4>2, <4>5, <4>6, <4>8
    <3>5. QED BY <3>3, <3>4
  <2>2. QED BY <2>1
<1>3. T = Nat
  <2>1. T \in SUBSET Nat
    OBVIOUS
  <2> HIDE DEF T
  <2>2. QED BY <1>1, <1>2, <2>1, SetInduction
<1>4. \A c \in SUBSET (0 .. m - 1) : Good(c)
  <2> HIDE DEF Good, m
  <2>1. m \in T /\ m <= m
    BY <1>0, <1>3
  <2>2. QED BY <2>1
<1>5. poly \in SUBSET (0 .. m - 1)
  <2>1. ASSUME NEW e \in poly PROVE e \in 0 .. m - 1
    <3>1. e \in 0 .. m /\ e + 1 \in 0 .. m
      BY <1>0 DEF Raise
    <3>2. QED BY <1>0, <3>1
  <2>2. QED BY <2>1
<1>6. Good(poly)
  BY <1>4, <1>5
<1>7. QED BY <1>6

LEMMA RemainderRaise ==
  ASSUME MaxBytes \in Nat, NEW poly \in SUBSET Exponents
  PROVE  \A u \in Nat : Raise(poly, u) \in SUBSET Exponents
           => Reflect(Remainder(Raise(poly, u))) = TableEntry(Reflect(Remainder(poly)), u)
<1> DEFINE Good(u) == Raise(poly, u) \in SUBSET Exponents
             => Reflect(Remainder(Raise(poly, u))) = TableEntry(Reflect(Remainder(poly)), u)
           T == {u \in Nat : Good(u)}
<1>0. Exponents \subseteq Nat /\ \A e \in Exponents : \A d \in Nat : d <= e => d \in Exponents
  BY DEF Exponents
<1>1. 0 \in T
  <2>1. \A e \in poly : e + 0 = e
    BY <1>0
  <2>2. Raise(poly, 0) = poly
    BY <2>1 DEF Raise
  <2>3. QED BY <2>2, NoRound
<1>2. ASSUME NEW u \in T PROVE u + 1 \in T
  <2>1. ASSUME Raise(poly, u + 1) \in SUBSET Exponents
        PROVE  Reflect(Remainder(Raise(poly, u + 1))) = TableEntry(Reflect(Remainder(poly)), u + 1)
    <3> DEFINE p == Raise(poly, u)
    <3>1. p \in SUBSET Exponents
      <4>1. \A e \in poly : e + (u + 1) \in Exponents /\ e + u \in Nat /\ e + u <= e + (u + 1)
        BY <1>0, <2>1 DEF Raise
      <4>2. \A e \in poly : e + u \in Exponents
        BY <1>0, <4>1
      <4>3. QED BY <4>2 DEF Raise
    <3>2. Raise(p, 1) = Raise(poly, u + 1)
      <4>1. \A e \in poly : (e + u) + 1 = e + (u + 1)
        BY <1>0
      <4>2. Raise(p, 1) = {(e + u) + 1 : e \in poly}
        BY DEF Raise
      <4>3. QED BY <4>1, <4>2 DEF Raise
    <3>3. u \in Nat /\ Reflect(Remainder(p)) = TableEntry(Reflect(Remainder(poly)), u)
      BY <3>1
    <3> HIDE DEF p, T
    <3>4. Remainder(Raise(p, 1)) = TimesX(Remainder(p))
      BY <2>1, <3>1, <3>2, RemainderTimesX
    <3>5. Reflect(TimesX(Remainder(p))) = OneBit(Reflect(Remainder(p)))
      BY RemainderMember, TimesXIsOneBit
    <3>6. QED BY <3>2, <3>3, <3>4, <3>5, OneRound
  <2>2. QED BY <2>1
<1>3. T = Nat
  <2>1. T \in SUBSET Nat
    OBVIOUS
  <2> HIDE DEF T
  <2>2. QED BY <1>1, <1>2, <2>1, SetInduction
<1> HIDE DEF Good
<1>4. \A u \in Nat : Good(u)
  BY <1>3
<1>5. QED BY <1>4 DEF Good

(* A polynomial of a degree below 32 is its own remainder. *)
LEMMA SmallPowers ==
  ASSUME MaxBytes \in Nat
  PROVE  \A e \in Ones : PowerOfX[e] = {e}
<1> DEFINE T == {e \in Nat : e <= 31 => PowerOfX[e] = {e}}
<1>1. 0 \in T
  BY PowersOfX
<1>2. ASSUME NEW e \in T PROVE e + 1 \in T
  <2>1. ASSUME e + 1 <= 31 PROVE PowerOfX[e + 1] = {e + 1}
    <3>1. e \in Nat /\ PowerOfX[e] = {e} /\ e + 1 \in Exponents /\ e + 1 # 32
      BY <2>1 DEF Exponents
    <3>2. PowerOfX[e + 1] = TimesX({e})
      BY <3>1, PowersOfX
    <3>3. QED BY <3>1, <3>2 DEF TimesX
  <2>2. QED BY <2>1
<1>3. T = Nat
  <2>1. T \in SUBSET Nat
    OBVIOUS
  <2> HIDE DEF T
  <2>2. QED BY <1>1, <1>2, <2>1, SetInduction
<1>4. QED BY <1>3 DEF Ones

LEMMA RemainderSmall ==
  ASSUME MaxBytes \in Nat, NEW poly \in SUBSET Ones
  PROVE  Remainder(poly) = poly
<1>1. ASSUME NEW t \in Ones PROVE t \in Remainder(poly) <=> t \in poly
  <2>1. With(poly, t) = IF t \in poly THEN {t} ELSE {}
    <3>1. \A e \in poly : t \in PowerOfX[e] <=> e = t
      BY SmallPowers
    <3>2. QED BY <3>1 DEF With
  <2>2. Cardinality({t}) = 1 /\ Cardinality({}) = 0
    BY FS_Singleton, FS_EmptySet
  <2>3. t \in Remainder(poly) <=> Cardinality(With(poly, t)) % 2 = 1
    BY RemainderMember
  <2>4. QED BY <2>1, <2>2, <2>3
<1>2. Remainder(poly) \in SUBSET Ones
  BY RemainderMember
<1>3. QED BY <1>1, <1>2

(* The polynomial of the first n bytes. *)
Sent(buf, n)    == UNION {{32 + 8 * (n - i) + 7 - b : b \in buf[i]} : i \in 1 .. n}
Preset(n)       == {8 * n + b : b \in Ones}
CrcPoly(buf, n) == SymDiff(Sent(buf, n), Preset(n))

LEMMA RaiseLinear ==
  ASSUME NEW a \in SUBSET Nat, NEW b \in SUBSET Nat, NEW u \in Nat
  PROVE  Raise(SymDiff(a, b), u) = SymDiff(Raise(a, u), Raise(b, u))
<1>1. SymDiff(a, b) \in SUBSET Nat
  BY XorTyped
<1>2. /\ Raise(a, u) \in SUBSET Nat /\ Raise(b, u) \in SUBSET Nat
      /\ Raise(SymDiff(a, b), u) \in SUBSET Nat
  BY <1>1, RaiseMember
<1>3. \A t \in Nat : t \in Raise(a, u) <=> t >= u /\ t - u \in a
  BY RaiseMember
<1>4. \A t \in Nat : t \in Raise(b, u) <=> t >= u /\ t - u \in b
  BY RaiseMember
<1>5. \A t \in Nat : t \in Raise(SymDiff(a, b), u) <=> t >= u /\ t - u \in SymDiff(a, b)
  BY <1>1, RaiseMember
<1>6. QED BY <1>2, <1>3, <1>4, <1>5 DEF SymDiff

LEMMA SentMember ==
  ASSUME NEW buf \in Seq(Byte8), NEW n \in 0 .. Len(buf)
  PROVE  /\ Sent(buf, n) \in SUBSET (32 .. 8 * n + 31)
         /\ \A e : e \in Sent(buf, n) <=> \E i \in 1 .. n : \E b \in buf[i] : e = 32 + 8 * (n - i) + 7 - b
<1>1. ASSUME NEW i \in 1 .. n, NEW b \in buf[i] PROVE 32 + 8 * (n - i) + 7 - b \in 32 .. 8 * n + 31
  <2>1. buf[i] \in Byte8
    OBVIOUS
  <2>2. b \in 0 .. 7
    BY <2>1 DEF Byte8
  <2>3. n - i \in Nat /\ n - i <= n - 1
    OBVIOUS
  <2>4. QED BY <2>2, <2>3
<1>2. \A e : e \in Sent(buf, n) <=> \E i \in 1 .. n : \E b \in buf[i] : e = 32 + 8 * (n - i) + 7 - b
  BY DEF Sent
<1>3. QED BY <1>1, <1>2

LEMMA SentStep ==
  ASSUME NEW buf \in Seq(Byte8), NEW n \in 0 .. Len(buf) - 1
  PROVE  Sent(buf, n + 1) = SymDiff(Raise(Sent(buf, n), 8), Raise(Reflect(buf[n + 1]), 8))
<1> DEFINE old  == Raise(Sent(buf, n), 8)
           last == Raise(Reflect(buf[n + 1]), 8)
<1>1. n \in 0 .. Len(buf) /\ n + 1 \in 0 .. Len(buf) /\ n + 1 \in 1 .. Len(buf)
  OBVIOUS
<1>2. buf[n + 1] \in Byte8
  BY <1>1
<1>3. \A e : e \in old <=> \E i \in 1 .. n : \E b \in buf[i] : e = 32 + 8 * ((n + 1) - i) + 7 - b
  <2>1. ASSUME NEW i \in 1 .. n, NEW b \in buf[i]
        PROVE  32 + 8 * ((n + 1) - i) + 7 - b = (32 + 8 * (n - i) + 7 - b) + 8
    <3>1. buf[i] \in Byte8
      BY <1>1
    <3>2. b \in 0 .. 7
      BY <3>1 DEF Byte8
    <3>3. QED BY <3>2
  <2>2. \A e : e \in old <=> \E i \in 1 .. n : \E b \in buf[i] : e = (32 + 8 * (n - i) + 7 - b) + 8
    BY <1>1, SentMember DEF Raise
  <2> HIDE DEF old
  <2>3. QED BY <2>1, <2>2
<1>4. \A e : e \in last <=> \E b \in buf[n + 1] : e = 32 + 8 * ((n + 1) - (n + 1)) + 7 - b
  <2>1. ASSUME NEW b \in buf[n + 1]
        PROVE  (31 - b) + 8 = 32 + 8 * ((n + 1) - (n + 1)) + 7 - b
    <3>1. b \in 0 .. 7
      BY <1>2 DEF Byte8
    <3>2. QED BY <3>1
  <2>2. \A e : e \in last <=> \E b \in buf[n + 1] : e = (31 - b) + 8
    BY DEF Raise, Reflect
  <2> HIDE DEF last
  <2>3. QED BY <2>1, <2>2
<1>5. \A e : e \in Sent(buf, n + 1)
               <=> \E i \in 1 .. n + 1 : \E b \in buf[i] : e = 32 + 8 * ((n + 1) - i) + 7 - b
  BY <1>1, SentMember
<1>6. 1 .. n + 1 = (1 .. n) \cup {n + 1}
  OBVIOUS
<1>7. Sent(buf, n + 1) = old \cup last
  <2> HIDE DEF old, last
  <2>1. \A e : e \in Sent(buf, n + 1) <=> e \in old \/ e \in last
    BY <1>3, <1>4, <1>5, <1>6
  <2>2. QED BY <2>1
<1>8. old \cap last = {}
  <2>1. \A e \in old : e >= 40
    <3>1. Sent(buf, n) \in SUBSET (32 .. 8 * n + 31)
      BY <1>1, SentMember
    <3>2. \A x \in Sent(buf, n) : x + 8 >= 40
      BY <3>1
    <3>3. QED BY <3>2 DEF Raise
  <2>2. \A e \in last : ~(e >= 40)
    <3>1. \A b \in buf[n + 1] : ~((31 - b) + 8 >= 40)
      BY <1>2 DEF Byte8
    <3>2. QED BY <3>1 DEF Raise, Reflect
  <2> HIDE DEF old, last
  <2>3. QED BY <2>1, <2>2
<1> HIDE DEF old, last
<1>9. Sent(buf, n + 1) = SymDiff(old, last)
  BY <1>7, <1>8 DEF SymDiff
<1>10. QED BY <1>9 DEF old, last

LEMMA PresetStep ==
  ASSUME NEW n \in Nat
  PROVE  Preset(n + 1) = Raise(Preset(n), 8) /\ Preset(n) \in SUBSET (0 .. 8 * n + 31)
<1>1. \A b \in Ones : 8 * (n + 1) + b = (8 * n + b) + 8 /\ 8 * n + b \in 0 .. 8 * n + 31
  BY DEF Ones
<1>2. QED BY <1>1 DEF Preset, Raise

LEMMA CrcPolyStep ==
  ASSUME NEW buf \in Seq(Byte8), NEW n \in 0 .. Len(buf) - 1
  PROVE  CrcPoly(buf, n + 1) = Raise(SymDiff(CrcPoly(buf, n), Reflect(buf[n + 1])), 8)
<1> DEFINE s == Sent(buf, n)
           p == Preset(n)
           r == Reflect(buf[n + 1])
<1>1. n \in Nat /\ n \in 0 .. Len(buf) /\ n + 1 \in 1 .. Len(buf)
  OBVIOUS
<1>2. s \in SUBSET Nat
  <2>1. s \in SUBSET (32 .. 8 * n + 31)
    BY <1>1, SentMember
  <2> HIDE DEF s
  <2>2. QED BY <2>1
<1>3. p \in SUBSET Nat
  <2>1. p \in SUBSET (0 .. 8 * n + 31)
    BY <1>1, PresetStep
  <2> HIDE DEF p
  <2>2. QED BY <2>1
<1>4. r \in SUBSET Nat
  <2>1. buf[n + 1] \in SUBSET Ones
    BY <1>1, ByteBits
  <2>2. r \in SUBSET Ones
    BY <2>1, ReflectMember
  <2> HIDE DEF r
  <2>3. QED BY <2>2 DEF Ones
<1>5. CrcPoly(buf, n + 1) = SymDiff(SymDiff(Raise(s, 8), Raise(r, 8)), Raise(p, 8))
  BY <1>1, SentStep, PresetStep DEF CrcPoly
<1> HIDE DEF s, p, r
<1>6. /\ Raise(SymDiff(s, p), 8) = SymDiff(Raise(s, 8), Raise(p, 8))
      /\ Raise(SymDiff(SymDiff(s, p), r), 8) = SymDiff(Raise(SymDiff(s, p), 8), Raise(r, 8))
  <2>1. SymDiff(s, p) \in SUBSET Nat
    BY <1>2, <1>3, XorTyped
  <2>2. 8 \in Nat
    OBVIOUS
  <2>3. Raise(SymDiff(s, p), 8) = SymDiff(Raise(s, 8), Raise(p, 8))
    BY <1>2, <1>3, <2>2, RaiseLinear
  <2>4. Raise(SymDiff(SymDiff(s, p), r), 8) = SymDiff(Raise(SymDiff(s, p), 8), Raise(r, 8))
    BY <1>4, <2>1, <2>2, RaiseLinear
  <2>5. QED BY <2>3, <2>4
<1>7. ASSUME NEW x, NEW y, NEW z PROVE SymDiff(SymDiff(x, y), z) = SymDiff(SymDiff(x, z), y)
  BY DEF SymDiff
<1>8. Raise(SymDiff(SymDiff(s, p), r), 8) = SymDiff(SymDiff(Raise(s, 8), Raise(r, 8)), Raise(p, 8))
  BY <1>6, <1>7
<1>9. QED BY <1>5, <1>8 DEF CrcPoly, s, p, r

LEMMA CrcPolyTyped ==
  ASSUME MaxBytes \in Nat, NEW buf \in Seq(Byte8), Len(buf) <= MaxBytes, NEW n \in 0 .. Len(buf)
  PROVE  CrcPoly(buf, n) \in SUBSET Exponents
<1>1. 8 * n <= 8 * MaxBytes /\ n \in Nat
  OBVIOUS
<1>2. Sent(buf, n) \in SUBSET (32 .. 8 * n + 31)
  BY SentMember
<1>3. Preset(n) \in SUBSET (0 .. 8 * n + 31)
  BY <1>1, PresetStep
<1>4. 0 .. 8 * n + 31 \subseteq Exponents /\ 32 .. 8 * n + 31 \subseteq Exponents
  BY <1>1 DEF Exponents
<1>5. QED BY <1>2, <1>3, <1>4, XorTyped DEF CrcPoly

(* The register after n bytes is the remainder of the first n bytes. *)
LEMMA RegisterIsRemainder ==
  ASSUME MaxBytes \in Nat, NEW buf \in Seq(Byte8), Len(buf) <= MaxBytes
  PROVE  \A n \in 0 .. Len(buf) : Reflect(Remainder(CrcPoly(buf, n))) = After(buf, n)
<1> DEFINE m == Len(buf)
           R(n) == Reflect(Remainder(CrcPoly(buf, n)))
           T == {n \in Nat : n <= m => R(n) = After(buf, n)}
<1>0. m \in Nat
  OBVIOUS
<1>1. 0 \in T
  <2>1. CrcPoly(buf, 0) = Ones
    <3>1. Sent(buf, 0) = {}
      BY DEF Sent
    <3>2. Preset(0) = Ones
      BY DEF Preset, Ones
    <3>3. QED BY <3>1, <3>2, XorEmpty DEF CrcPoly
  <2>2. Remainder(Ones) = Ones
    BY RemainderSmall
  <2>3. Reflect(Ones) = Ones
    <3>1. Reflect(Ones) \in SUBSET Ones /\ \A t \in Ones : t \in Reflect(Ones) <=> 31 - t \in Ones
      BY ReflectMember
    <3>2. \A t \in Ones : 31 - t \in Ones
      BY DEF Ones
    <3>3. QED BY <3>1, <3>2
  <2>4. QED BY <2>1, <2>2, <2>3, ByteByByte
<1>2. ASSUME NEW n \in T PROVE n + 1 \in T
  <2>1. ASSUME n + 1 <= m PROVE R(n + 1) = After(buf, n + 1)
    <3> DEFINE p    == CrcPoly(buf, n)
               byte == buf[n + 1]
               r    == Reflect(byte)
    <3>1. /\ n \in 0 .. m - 1 /\ n \in 0 .. m /\ n + 1 \in 0 .. m /\ n + 1 \in 1 .. m
          /\ R(n) = After(buf, n)
      BY <1>0, <2>1
    <3>2. p \in SUBSET Exponents /\ CrcPoly(buf, n + 1) \in SUBSET Exponents
      BY <3>1, CrcPolyTyped
    <3>3. byte \in SUBSET Ones /\ r \in SUBSET Ones
      <4>1. byte \in SUBSET Ones
        BY <3>1, ByteBits
      <4>2. QED BY <4>1, ReflectMember
    <3>4. CrcPoly(buf, n + 1) = Raise(SymDiff(p, r), 8)
      BY <3>1, CrcPolyStep
    <3>5. Reflect(r) = byte
      <4>1. \A t \in Ones : 31 - t \in Ones /\ 31 - (31 - t) = t
        BY DEF Ones
      <4>2. \A t \in Ones : t \in r <=> 31 - t \in byte
        BY <3>3, ReflectMember
      <4> HIDE DEF r
      <4>3. Reflect(r) \in SUBSET Ones /\ \A t \in Ones : t \in Reflect(r) <=> 31 - t \in r
        BY <3>3, ReflectMember
      <4>4. \A t \in Ones : t \in Reflect(r) <=> t \in byte
        BY <4>1, <4>2, <4>3
      <4>5. QED BY <3>3, <4>3, <4>4
    <3> HIDE DEF p, byte, r, T
    <3>6. r \in SUBSET Exponents
      BY <3>3 DEF Ones, Exponents
    <3>7. SymDiff(p, r) \in SUBSET Exponents
      BY <3>2, <3>6, XorTyped
    <3>8. Reflect(Remainder(Raise(SymDiff(p, r), 8))) = TableEntry(Reflect(Remainder(SymDiff(p, r))), 8)
      BY <3>2, <3>4, <3>7, RemainderRaise
    <3>9. Remainder(SymDiff(p, r)) = SymDiff(Remainder(p), r)
      <4>1. Remainder(r) = r
        BY <3>3, RemainderSmall
      <4>2. QED BY <3>2, <3>6, <4>1, RemainderLinear
    <3>10. Reflect(SymDiff(Remainder(p), r)) = SymDiff(Reflect(Remainder(p)), byte)
      <4>1. Remainder(p) \in SUBSET Ones
        BY RemainderMember
      <4>2. QED BY <3>3, <3>5, <4>1, ReflectLinear
    <3>11. After(buf, n + 1) = TableEntry(SymDiff(After(buf, n), byte), 8)
      BY <3>1, ByteByByte DEF byte
    <3>12. R(n + 1) = TableEntry(SymDiff(R(n), byte), 8)
      BY <3>4, <3>8, <3>9, <3>10 DEF p
    <3>13. QED BY <3>1, <3>11, <3>12
  <2>2. QED BY <2>1
<1>3. T = Nat
  <2>1. T \in SUBSET Nat
    OBVIOUS
  <2> HIDE DEF T
  <2>2. QED BY <1>1, <1>2, <2>1, SetInduction
<1>4. ASSUME NEW n \in 0 .. m PROVE R(n) = After(buf, n)
  <2>1. n \in Nat /\ n <= m
    BY <1>0
  <2>2. n \in T
    BY <1>3, <2>1
  <2> HIDE DEF R
  <2>3. QED BY <2>1, <2>2
<1>5. QED BY <1>4

(* What update_crc computes with its table is the CRC by its definition,    *)
(* for every message.                                                       *)
THEOREM TableComputesCrc ==
  ASSUME MaxBytes \in Nat, NEW buf \in Seq(Byte8), Len(buf) <= MaxBytes
  PROVE  crc_of(buf) = CrcByDefinition(buf)
<1> DEFINE m == Len(buf)
           q == Remainder(CrcPoly(buf, m))
<1>1. m \in 0 .. m /\ DOMAIN buf = 1 .. m
  OBVIOUS
<1>2. Reflect(q) = After(buf, m)
  BY <1>1, RegisterIsRemainder
<1>3. crc_of(buf) = SymDiff(Reflect(q), Ones)
  BY <1>2, ByteByByte
<1>4. CrcByDefinition(buf) = Reflect(SymDiff(q, Ones))
  BY <1>1 DEF CrcByDefinition, CrcPoly, Sent, Preset, Reflect
<1>5. q \in SUBSET Ones
  BY RemainderMember
<1> HIDE DEF q
<1>6. Reflect(SymDiff(q, Ones)) = SymDiff(Reflect(q), Reflect(Ones))
  BY <1>5, ReflectLinear
<1>7. Reflect(Ones) = Ones
  <2>1. Reflect(Ones) \in SUBSET Ones /\ \A t \in Ones : t \in Reflect(Ones) <=> 31 - t \in Ones
    BY ReflectMember
  <2>2. \A t \in Ones : 31 - t \in Ones
    BY DEF Ones
  <2>3. QED BY <2>1, <2>2
<1>8. QED BY <1>3, <1>4, <1>6, <1>7

-----------------------------------------------------------------------------
(* The invariant of pnginfo: exactly the damaged chunks have a checksum     *)
(* that is not theirs, and those among them that were looked at have been   *)
(* reported.                                                                *)
Looked ==
  CASE step_of = "IDAT" -> {"IHDR"}
    [] step_of = "IEND" -> {"IHDR", "IDAT"}
    [] step_of = "done" -> ChunkNames
    [] OTHER            -> {}

InfoInv ==
  /\ damaged \subseteq ChunkNames
  /\ \A c \in ChunkNames : chunk[c].crc # expected_CRC(chunk[c]) <=> c \in damaged
  /\ reported = damaged \cap Looked

(* Part of a message, t bytes from its beginning, after a burst. *)
Spoilt(s, t, burst, p) == [n \in 1 .. Len(s) |-> SymDiff(s[n], Hit(burst, p, n + t))]

LEMMA SpoiltBytes ==
  ASSUME NEW s \in Seq(Byte8), NEW t, NEW burst, NEW p
  PROVE  Spoilt(s, t, burst, p) \in Seq(Byte8) /\ Len(Spoilt(s, t, burst, p)) = Len(s)
<1> DEFINE m == Len(s)
           f == Spoilt(s, t, burst, p)
<1>1. \A byte \in Byte8 : \A n : SymDiff(byte, Hit(burst, p, n)) \in Byte8
  BY DEF Byte8, Hit, SymDiff
<1>2. \A n \in 1 .. m : s[n] \in Byte8
  OBVIOUS
<1>3. f \in [1 .. m -> Byte8] /\ m \in Nat
  BY <1>1, <1>2 DEF Spoilt
<1> HIDE DEF f, m
<1>4. f \in Seq(Byte8) /\ Len(f) = m
  BY <1>3
<1>5. QED BY <1>4 DEF f, m

(* A burst somewhere in the type and the data. *)
LEMMA DamagedMessage ==
  ASSUME NEW type \in Seq(Byte8), NEW data \in Seq(Byte8),
         NEW burst \in SUBSET Ones, burst # {}, NEW p \in Nat,
         \A b \in burst : p + b < 8 * Len(type \o data)
  PROVE  crc_of(Spoilt(type, 0, burst, p) \o Spoilt(data, Len(type), burst, p))
           # crc_of(type \o data)
<1> DEFINE badType == Spoilt(type, 0, burst, p)
           badData == Spoilt(data, Len(type), burst, p)
           t == Len(type)
           buf == type \o data
           bad == badType \o badData
<1>1. /\ \A n \in 1 .. t : badType[n] = SymDiff(type[n], Hit(burst, p, n + 0))
      /\ \A n \in 1 .. Len(data) : badData[n] = SymDiff(data[n], Hit(burst, p, n + t))
  BY DEF Spoilt
<1>2. badType \in Seq(Byte8) /\ Len(badType) = t
  BY SpoiltBytes
<1>3. badData \in Seq(Byte8) /\ Len(badData) = Len(data)
  BY SpoiltBytes
<1> HIDE DEF badType, badData
<1>4. /\ buf \in Seq(Byte8) /\ Len(buf) = t + Len(data)
      /\ bad \in Seq(Byte8) /\ Len(bad) = Len(buf)
  <2>1. \A x, y \in Seq(Byte8) : x \o y \in Seq(Byte8) /\ Len(x \o y) = Len(x) + Len(y)
    OBVIOUS
  <2>2. QED BY <1>2, <1>3, <2>1
<1>5. ASSUME NEW n \in 1 .. Len(buf) PROVE bad[n] = SymDiff(buf[n], Hit(burst, p, n))
  <2>1. CASE n <= t
    <3>1. n \in 1 .. t
      BY <1>4, <2>1
    <3>2. buf[n] = type[n] /\ bad[n] = badType[n]
      BY <1>2, <1>3, <3>1
    <3>3. badType[n] = SymDiff(type[n], Hit(burst, p, n))
      <4>1. n + 0 = n
        BY <3>1
      <4>2. QED BY <1>1, <3>1, <4>1
    <3>4. QED BY <3>2, <3>3
  <2>2. CASE ~(n <= t)
    <3> DEFINE u == n - t
    <3>1. u \in 1 .. Len(data) /\ u + t = n
      BY <1>4, <2>2
    <3>2. buf[n] = data[u] /\ bad[n] = badData[u]
      <4>1. n \in 1 .. Len(badType) + Len(badData) /\ n > Len(badType) /\ u = n - Len(badType)
        BY <1>2, <1>3, <1>4, <2>2
      <4>2. bad[n] = badData[u]
        BY <1>2, <1>3, <4>1
      <4>3. n \in 1 .. Len(type) + Len(data) /\ n > Len(type)
        BY <1>4, <2>2
      <4>4. buf[n] = data[u]
        BY <4>3
      <4>5. QED BY <4>2, <4>4
    <3> HIDE DEF u
    <3>3. badData[u] = SymDiff(data[u], Hit(burst, p, u + t))
      BY <1>1, <3>1
    <3>4. QED BY <3>1, <3>2, <3>3
  <2>3. QED BY <2>1, <2>2
<1>6. \A b \in burst : p + b < 8 * Len(buf)
  OBVIOUS
<1> HIDE DEF bad, buf
<1>7. crc_of(bad) # crc_of(buf)
  BY <1>4, <1>5, <1>6, BurstShows
<1>8. QED BY <1>7 DEF bad, buf, badType, badData

ChunkRecord == [type : Seq(Byte8), data : Seq(Byte8), crc : SUBSET Int]

LEMMA DamagedChunk ==
  ASSUME NEW c \in ChunkRecord, c.crc = crc_of(Covered(c)),
         NEW burst \in SUBSET Ones, burst # {}, NEW p \in Nat,
         \A b \in burst : p + b < 8 * Len(Covered(c))
  PROVE  Damage(c, p, burst).crc # expected_CRC(Damage(c, p, burst))
<1> DEFINE type == c.type
           data == c.data
<1>0. type \in Seq(Byte8) /\ data \in Seq(Byte8) /\ DOMAIN c = {"type", "data", "crc"}
  BY DEF ChunkRecord
<1> DEFINE d == Damage(c, p, burst)
<1>1. /\ d.type = [n \in DOMAIN type |-> SymDiff(type[n], Hit(burst, p, n))]
      /\ d.data = [n \in DOMAIN data |-> SymDiff(data[n], Hit(burst, p, n + Len(type)))]
      /\ d.crc = c.crc
  BY <1>0 DEF Damage, Hit, ChunkRecord
<1>7. Covered(c) = type \o data
  BY DEF Covered
<1> HIDE DEF d, type, data
<1>2. DOMAIN type = 1 .. Len(type) /\ DOMAIN data = 1 .. Len(data)
  BY <1>0
<1>3. d.type = Spoilt(type, 0, burst, p)
  <2>1. \A n \in 1 .. Len(type) : n + 0 = n
    OBVIOUS
  <2>2. QED BY <1>1, <1>2, <2>1 DEF Spoilt
<1>4. d.data = Spoilt(data, Len(type), burst, p)
  BY <1>1, <1>2 DEF Spoilt
<1>5. crc_of(d.type \o d.data) # crc_of(type \o data)
  <2>1. \A b \in burst : p + b < 8 * Len(type \o data)
    BY <1>7
  <2>2. QED BY <1>0, <1>3, <1>4, <2>1, DamagedMessage
<1>6. QED BY <1>1, <1>5, <1>7 DEF expected_CRC, Covered, d

LEMMA CrcTyped ==
  ASSUME NEW a \in Seq(Byte8), NEW b \in Seq(Byte8)
  PROVE  crc_of(a \o b) \in SUBSET Int
<1>1. a \o b \in Seq(Byte8) /\ Len(a \o b) \in Nat
  OBVIOUS
<1> DEFINE buf == a \o b
<1> HIDE DEF buf
<1>2. crc_of(buf) = SymDiff(After(buf, Len(buf)), Ones) /\ After(buf, Len(buf)) \in Bits
  <2>1. buf \in Seq(Byte8) /\ Len(buf) \in 0 .. Len(buf)
    BY <1>1 DEF buf
  <2>2. QED BY <2>1, ByteByByte
<1>3. crc_of(buf) \in Bits
  BY <1>2, XorBits, PolynomialBits
<1>4. QED BY <1>3 DEF Bits, buf

LEMMA InfoStarts == InfoInit => InfoInv
<1> SUFFICES ASSUME InfoInit PROVE InfoInv
  OBVIOUS
<1>1. PICK data \in ChunkData :
        LET sound == [c \in ChunkNames |-> Written(c, data[c])]
        IN  \/ chunk = sound /\ damaged = {}
            \/ file_kind = "png" /\ \E c \in ChunkNames, burst \in Bursts :
                 \/ \E p \in 0 .. 8 * Len(Covered(sound[c])) - 1 :
                      /\ \A b \in burst : p + b < 8 * Len(Covered(sound[c]))
                      /\ chunk = [sound EXCEPT ![c] = Damage(@, p, burst)]
                      /\ damaged = {c}
                 \/ chunk = [sound EXCEPT ![c].crc = SymDiff(@, burst)] /\ damaged = {c}
  BY DEF InfoInit
<1> DEFINE sound == [c \in ChunkNames |-> Written(c, data[c])]
           message(c) == Types[c] \o data[c]
<1>2. ASSUME NEW c \in ChunkNames
      PROVE  /\ sound[c] = [type |-> Types[c], data |-> data[c], crc |-> crc_of(message(c))]
             /\ Covered(sound[c]) = message(c)
             /\ sound[c].crc = crc_of(message(c)) /\ expected_CRC(sound[c]) = crc_of(message(c))
  <2>1. /\ Types[c] \in Seq(Byte8) /\ data[c] \in Seq(Byte8)
        /\ Len(Types[c]) + Len(data[c]) <= MaxBytes /\ MaxBytes \in Nat
    BY ChunkAssumption
  <2>2. message(c) \in Seq(Byte8) /\ Len(message(c)) <= MaxBytes
    <3>1. \A a, b \in Seq(Byte8) : a \o b \in Seq(Byte8) /\ Len(a \o b) = Len(a) + Len(b)
      OBVIOUS
    <3>2. QED BY <2>1, <3>1
  <2>3. sound[c] = Written(c, data[c])
    OBVIOUS
  <2>4. CrcByDefinition(message(c)) = crc_of(message(c))
    <3> HIDE DEF message
    <3>1. QED BY <2>1, <2>2, TableComputesCrc
  <2>5. QED BY <2>3, <2>4 DEF Written, Covered, expected_CRC
<1>3. reported = {} /\ Looked = {}
  BY DEF InfoInit, Looked
<1>4. CASE chunk = sound /\ damaged = {}
  <2> HIDE DEF sound, message
  <2>1. QED BY <1>2, <1>3, <1>4 DEF InfoInv
<1>5. ASSUME NEW c \in ChunkNames, NEW burst \in Bursts, NEW p \in 0 .. 8 * Len(Covered(sound[c])) - 1,
             \A b \in burst : p + b < 8 * Len(Covered(sound[c])),
             chunk = [sound EXCEPT ![c] = Damage(@, p, burst)], damaged = {c}
      PROVE  InfoInv
  <2>1. burst # {} /\ burst \in SUBSET Ones /\ p \in Nat
    <3>1. \A u : \A q \in 0 .. u - 1 : q \in Nat
      OBVIOUS
    <3> HIDE DEF sound
    <3>2. p \in Nat
      BY <3>1
    <3>3. QED BY <3>2, BurstAssumption DEF Ones
  <2>2. Types[c] \in Seq(Byte8) /\ data[c] \in Seq(Byte8)
    BY ChunkAssumption
  <2>3. chunk[c] = Damage(sound[c], p, burst) /\ \A e \in ChunkNames : e # c => chunk[e] = sound[e]
    BY <1>5
  <2>4. \A b \in burst : p + b < 8 * Len(Types[c] \o data[c])
    BY <1>2, <1>5
  <2> HIDE DEF sound
  <2>5. chunk[c].crc # expected_CRC(chunk[c])
    <3>1. crc_of(message(c)) \in SUBSET Int
      BY <2>2, CrcTyped
    <3>2. sound[c] \in ChunkRecord
      <4> DEFINE crc == crc_of(message(c))
      <4>1. sound[c] = [type |-> Types[c], data |-> data[c], crc |-> crc] /\ crc \in SUBSET Int
        BY <1>2, <3>1
      <4> HIDE DEF crc
      <4>2. QED BY <2>2, <4>1 DEF ChunkRecord
    <3>3. sound[c].crc = crc_of(Covered(sound[c]))
      BY <1>2
    <3>4. \A b \in burst : p + b < 8 * Len(Covered(sound[c]))
      BY <1>5
    <3>5. Damage(sound[c], p, burst).crc # expected_CRC(Damage(sound[c], p, burst))
      BY <2>1, <3>2, <3>3, <3>4, DamagedChunk
    <3>6. QED BY <2>3, <3>5
  <2> HIDE DEF message
  <2>6. QED BY <1>2, <1>3, <1>5, <2>3, <2>5 DEF InfoInv
<1>6. ASSUME NEW c \in ChunkNames, NEW burst \in Bursts,
             chunk = [sound EXCEPT ![c].crc = SymDiff(@, burst)], damaged = {c}
      PROVE  InfoInv
  <2>1. burst # {}
    BY BurstAssumption
  <2>2. chunk[c] = [sound[c] EXCEPT !.crc = SymDiff(@, burst)] /\ \A e \in ChunkNames : e # c => chunk[e] = sound[e]
    BY <1>6
  <2>3. chunk[c].crc = SymDiff(crc_of(message(c)), burst) /\ Covered(chunk[c]) = message(c)
    <3> HIDE DEF sound
    <3>1. QED BY <1>2, <2>2 DEF Covered
  <2>4. chunk[c].crc # expected_CRC(chunk[c])
    <3>1. SymDiff(crc_of(message(c)), burst) # crc_of(message(c))
      BY <2>1 DEF SymDiff
    <3>2. QED BY <2>3, <3>1 DEF expected_CRC
  <2> HIDE DEF sound, message
  <2>5. \A e \in ChunkNames : chunk[e].crc # expected_CRC(chunk[e]) <=> e = c
    <3>1. \A e \in ChunkNames : e # c => chunk[e] = sound[e]
      BY <2>2
    <3>2. \A e \in ChunkNames : sound[e].crc = expected_CRC(sound[e])
      BY <1>2
    <3>3. QED BY <2>4, <3>1, <3>2
  <2>6. QED BY <1>3, <1>6, <2>5 DEF InfoInv
<1>7. QED BY <1>1, <1>4, <1>5, <1>6

LEMMA InfoKeeps == InfoInv /\ [InfoNext]_info_vars => InfoInv'
<1> SUFFICES ASSUME InfoInv, [InfoNext]_info_vars PROVE InfoInv'
  OBVIOUS
<1>1. CASE UNCHANGED info_vars
  BY <1>1 DEF info_vars, InfoInv, Looked
<1>2. CASE OpenCrashes \/ NotAPng \/ IsPng \/ ShortFile
  <2>1. /\ step_of = "open" /\ step_of' \notin {"IDAT", "IEND", "done"}
        /\ UNCHANGED <<chunk, damaged, reported>>
    BY <1>2 DEF OpenCrashes, NotAPng, IsPng, ShortFile, To
  <2>2. Looked = {} /\ Looked' = {}
    BY <2>1 DEF Looked
  <2>3. QED BY <2>1, <2>2 DEF InfoInv
<1>3. ASSUME NEW name \in ChunkNames, NEW next, CheckChunk(name, next),
             Looked' = Looked \cup {name}
      PROVE  InfoInv'
  <2>1. /\ UNCHANGED <<chunk, damaged>>
        /\ reported' = IF chunk[name].crc # expected_CRC(chunk[name]) THEN reported \cup {name} ELSE reported
    BY <1>3 DEF CheckChunk
  <2>2. reported' = damaged \cap (Looked \cup {name})
    BY <2>1 DEF InfoInv
  <2>3. QED BY <1>3, <2>1, <2>2 DEF InfoInv
<1>4. CASE CheckChunk("IHDR", "IDAT")
  BY <1>3, <1>4 DEF CheckChunk, To, Looked, ChunkNames
<1>5. CASE CheckChunk("IDAT", "IEND")
  BY <1>3, <1>5 DEF CheckChunk, To, Looked, ChunkNames
<1>6. CASE CheckChunk("IEND", "done")
  BY <1>3, <1>6 DEF CheckChunk, To, Looked, ChunkNames
<1>7. QED BY <1>1, <1>2, <1>4, <1>5, <1>6 DEF InfoNext

(* Whatever the file holds, pnginfo reports a chunk if and only if it has   *)
(* been damaged: a burst of at most 32 bits never goes unnoticed, and a     *)
(* sound chunk is never reported.                                           *)
THEOREM FindsTheDamage == InfoSpec => []ReportsTheDamage
<1>1. InfoInv => ReportsTheDamage
  BY DEF InfoInv, ReportsTheDamage, Looked
<1>2. QED BY <1>1, InfoStarts, InfoKeeps, PTL DEF InfoSpec

-----------------------------------------------------------------------------
(* The walk of findpng.                                                     *)

(* FlattenSeq is what Flattens says, of the whole sequence. *)
LEMMA FlattenOf ==
  ASSUME NEW ss, Len(ss) \in Nat \ {0}
  PROVE  \E g : Flattens(ss, Len(ss), g) /\ FlattenSeq(ss) = g[Len(ss)]
<1> DEFINE g == CHOOSE h : Flattens(ss, Len(ss), h)
<1>1. Flattens(ss, Len(ss), g)
  BY FlattenExists
<1>2. FlattenSeq(ss) = g[Len(ss)]
  BY DEF FlattenSeq, Flattens
<1>3. QED BY <1>1, <1>2

LEMMA FlattenEmpty ==
  ASSUME NEW ss, NEW S, ss \in Seq(S), Len(ss) = 0
  PROVE  FlattenSeq(ss) = <<>>
BY DEF FlattenSeq

(* One more sequence at the end. *)
LEMMA FlattenAppend ==
  ASSUME NEW S, NEW ss \in Seq(Seq(S)), NEW s \in Seq(S)
  PROVE  FlattenSeq(Append(ss, s)) = FlattenSeq(ss) \o s
<1> DEFINE rr == Append(ss, s)
<1>1. rr \in Seq(Seq(S)) /\ Len(rr) = Len(ss) + 1 /\ Len(ss) \in Nat
      /\ (\A i \in 1 .. Len(ss) : rr[i] = ss[i]) /\ rr[Len(ss) + 1] = s
  OBVIOUS
<1> HIDE DEF rr
<1>2. PICK g : Flattens(rr, Len(rr), g) /\ FlattenSeq(rr) = g[Len(rr)]
  BY <1>1, FlattenOf
<1>3. CASE Len(ss) = 0
  <2>1. FlattenSeq(ss) = <<>>
    BY <1>3, FlattenEmpty
  <2>2. g[1] = rr[1]
    <3>1. 1 \in 1 .. Len(rr)
      BY <1>1
    <3>2. QED BY <1>2, <3>1 DEF Flattens
  <2>3. <<>> \o s = s
    OBVIOUS
  <2>4. Len(rr) = 1 /\ rr[1] = s
    BY <1>1, <1>3
  <2>5. QED BY <1>2, <2>1, <2>2, <2>3, <2>4 DEF rr
<1>4. CASE Len(ss) # 0
  <2>1. PICK f : Flattens(ss, Len(ss), f) /\ FlattenSeq(ss) = f[Len(ss)]
    BY <1>1, <1>4, FlattenOf
  <2>2. \A i \in 1 .. Len(ss) : g[i] = f[i]
    <3> DEFINE T == {i \in Nat : i >= 1 /\ i <= Len(ss) => g[i] = f[i]}
    <3>1. 0 \in T
      OBVIOUS
    <3>2. ASSUME NEW i \in T PROVE i + 1 \in T
      <4>1. ASSUME i + 1 <= Len(ss) PROVE g[i + 1] = f[i + 1]
        <5>1. i \in Nat /\ i + 1 \in 1 .. Len(rr) /\ i + 1 \in 1 .. Len(ss) /\ (i + 1) - 1 = i
          BY <1>1, <4>1
        <5>2. i # 0 => g[i] = f[i]
          BY <1>1, <4>1
        <5> HIDE DEF T
        <5>3. rr[i + 1] = ss[i + 1]
          BY <1>1, <5>1
        <5>4. /\ g[i + 1] = IF i + 1 = 1 THEN rr[i + 1] ELSE g[(i + 1) - 1] \o rr[i + 1]
              /\ f[i + 1] = IF i + 1 = 1 THEN ss[i + 1] ELSE f[(i + 1) - 1] \o ss[i + 1]
          BY <1>2, <2>1, <5>1 DEF Flattens
        <5>5. i + 1 # 1 => i # 0
          BY <5>1
        <5>6. QED BY <5>1, <5>2, <5>3, <5>4, <5>5
      <4>2. QED BY <4>1
    <3>3. T \in SUBSET Nat
      OBVIOUS
    <3>4. \A i \in 1 .. Len(ss) : i \in Nat /\ (i \in T => g[i] = f[i])
      BY <1>1
    <3> HIDE DEF T
    <3>5. T = Nat
      BY <3>1, <3>2, <3>3, SetInduction
    <3>6. QED BY <3>4, <3>5
  <2>3. g[Len(rr)] = g[Len(ss)] \o s
    <3>1. Len(rr) \in 1 .. Len(rr) /\ Len(rr) # 1 /\ Len(rr) - 1 = Len(ss)
      BY <1>1, <1>4
    <3>2. rr[Len(rr)] = s
      BY <1>1
    <3>3. g[Len(rr)] = g[Len(rr) - 1] \o rr[Len(rr)]
      BY <1>2, <3>1 DEF Flattens
    <3>4. QED BY <3>1, <3>2, <3>3
  <2>4. g[Len(ss)] = f[Len(ss)]
    <3>1. Len(ss) \in 1 .. Len(ss)
      BY <1>1, <1>4
    <3>2. QED BY <2>2, <3>1
  <2>5. QED BY <1>2, <2>1, <2>3, <2>4 DEF rr
<1>5. QED BY <1>3, <1>4

LEMMA FlattenTyped ==
  ASSUME NEW S, NEW ss \in Seq(Seq(S))
  PROVE  FlattenSeq(ss) \in Seq(S)
<1>0. Len(ss) \in Nat /\ \A i \in 1 .. Len(ss) : ss[i] \in Seq(S)
  OBVIOUS
<1>1. CASE Len(ss) = 0
  <2>1. FlattenSeq(ss) = <<>>
    BY <1>1, FlattenEmpty
  <2>2. <<>> \in Seq(S)
    OBVIOUS
  <2>3. QED BY <2>1, <2>2
<1>2. CASE Len(ss) # 0
  <2>1. PICK g : Flattens(ss, Len(ss), g) /\ FlattenSeq(ss) = g[Len(ss)]
    BY <1>0, <1>2, FlattenOf
  <2> DEFINE T == {i \in Nat : i >= 1 /\ i <= Len(ss) => g[i] \in Seq(S)}
  <2>2. 0 \in T
    OBVIOUS
  <2>3. ASSUME NEW i \in T PROVE i + 1 \in T
    <3>1. ASSUME i + 1 <= Len(ss) PROVE g[i + 1] \in Seq(S)
      <4>1. i \in Nat /\ i + 1 \in 1 .. Len(ss) /\ (i + 1) - 1 = i
        BY <1>0, <3>1
      <4>2. ss[i + 1] \in Seq(S)
        BY <4>1
      <4>3. i # 0 => g[i] \in Seq(S)
        BY <1>0, <3>1
      <4>4. g[i + 1] = IF i + 1 = 1 THEN ss[i + 1] ELSE g[i] \o ss[i + 1]
        BY <2>1, <4>1 DEF Flattens
      <4> HIDE DEF T
      <4>5. i + 1 # 1 => i # 0
        BY <4>1
      <4>6. \A x, y \in Seq(S) : x \o y \in Seq(S)
        OBVIOUS
      <4>7. QED BY <4>2, <4>3, <4>4, <4>5, <4>6
    <3>2. QED BY <3>1
  <2>4. T \in SUBSET Nat
    OBVIOUS
  <2>5. T = Nat => g[Len(ss)] \in Seq(S)
    BY <1>0, <1>2
  <2> HIDE DEF T
  <2>6. QED BY <2>1, <2>2, <2>3, <2>4, <2>5, SetInduction
<1>3. QED BY <1>1, <1>2

(* What Append does, for sequences of any type. *)
LEMMA AppendFacts ==
  ASSUME NEW S, NEW s \in Seq(S), NEW x \in S
  PROVE  /\ Append(s, x) \in Seq(S) /\ Len(Append(s, x)) = Len(s) + 1
         /\ Append(s, x)[Len(s) + 1] = x /\ \A i \in 1 .. Len(s) : Append(s, x)[i] = s[i]
OBVIOUS

-----------------------------------------------------------------------------
(* The tree of directories.                                                 *)

(* How far each directory is from the root. *)
IsDepth(depth) ==
  /\ depth \in [Dirs -> 1 .. Cardinality(Dirs)]
  /\ depth[Root] = 1
  /\ \A d \in Dirs : \A i \in 1 .. Len(Listing[d]) :
       Listing[d][i] \in Dirs => depth[Listing[d][i]] = depth[d] + 1

LEMMA TreeFacts ==
  /\ Root \in Dirs /\ MaxOpen \in Nat /\ Cardinality(Dirs) \in Nat
  /\ \A e \in Dirs : e \notin Dots
  /\ \A d \in Dirs : Len(Listing[d]) \in Nat
  /\ \A d \in Dirs : \A i \in 1 .. Len(Listing[d]) :
       Listing[d][i] \in Dirs \cup Dots \cup Files
<1>1. Root \in Dirs /\ MaxOpen \in Nat /\ Cardinality(Dirs) \in Nat
  BY TreeAssumption, FS_CardinalityType
<1>2. \A e \in Dirs : e \notin Dots
  BY TreeAssumption
<1>3. ASSUME NEW d \in Dirs
      PROVE  /\ Len(Listing[d]) \in Nat
             /\ \A i \in 1 .. Len(Listing[d]) : Listing[d][i] \in Dirs \cup Dots \cup Files
  <2>1. Listing[d] \in Seq(Range(Listing[d]))
    BY TreeAssumption
  <2>2. Len(Listing[d]) \in Nat /\ \A i \in 1 .. Len(Listing[d]) : Listing[d][i] \in Range(Listing[d])
    BY <2>1
  <2>3. ASSUME NEW e \in Range(Listing[d]), e \notin Dirs, e \notin Dots PROVE e \in Files
    <3>1. Range(Listing[d]) \in {Range(Listing[x]) : x \in Dirs}
      OBVIOUS
    <3>2. e \in UNION {Range(Listing[x]) : x \in Dirs}
      BY <3>1, Zenon
    <3>3. QED BY <2>3, <3>2, Zenon DEF Files
  <2>4. QED BY <2>2, <2>3
<1>4. QED BY <1>1, <1>2, <1>3

LEMMA Listed ==
  ASSUME NEW d \in Dirs, NEW i \in 1 .. Len(Listing[d])
  PROVE  Listing[d][i] \in Range(Listing[d]) /\ i \in DOMAIN Listing[d]
<1>1. Listing[d] \in Seq(Range(Listing[d]))
  BY TreeAssumption
<1>2. QED BY <1>1

LEMMA DepthExists == \E depth : IsDepth(depth)
<1>1. PICK depth \in [Dirs -> 1 .. Cardinality(Dirs)] :
       /\ depth[Root] = 1
       /\ \A d \in Dirs : \A e \in Range(Listing[d]) \cap Dirs : depth[e] = depth[d] + 1
  BY TreeAssumption
<1>2. ASSUME NEW d \in Dirs, NEW i \in 1 .. Len(Listing[d]), Listing[d][i] \in Dirs
      PROVE  depth[Listing[d][i]] = depth[d] + 1
  <2>1. Listing[d][i] \in Range(Listing[d]) \cap Dirs
    BY <1>2, Listed
  <2>2. QED BY <1>1, <2>1
<1>3. QED BY <1>1, <1>2 DEF IsDepth

(* An entry that is a directory is in one place, and it is not the root. *)
LEMMA OnePlace ==
  ASSUME NEW d \in Dirs, NEW i \in 1 .. Len(Listing[d]), NEW e \in Dirs,
         NEW j \in 1 .. Len(Listing[e]), Listing[d][i] \in Dirs, Listing[d][i] = Listing[e][j]
  PROVE  d = e /\ i = j
<1>1. i \in DOMAIN Listing[d] /\ j \in DOMAIN Listing[e]
  BY Listed
<1>2. QED BY <1>1, TreeAssumption

LEMMA NotRoot ==
  ASSUME NEW d \in Dirs, NEW i \in 1 .. Len(Listing[d]), Listing[d][i] \in Dirs
  PROVE  Listing[d][i] # Root
<1>1. PICK depth : IsDepth(depth)
  BY DepthExists
<1>2. depth[Listing[d][i]] = depth[d] + 1 /\ depth[d] \in Nat \ {0} /\ depth[Root] = 1
  <2>1. depth[d] \in 1 .. Cardinality(Dirs)
    BY <1>1 DEF IsDepth
  <2>2. depth[d] \in Nat \ {0}
    BY <2>1, TreeFacts
  <2>3. QED BY <1>1, <2>2 DEF IsDepth
<1>3. QED BY <1>2

(* DepthOf is defined and is the depth. *)
LEMMA DepthOfIs ==
  ASSUME NEW depth, IsDepth(depth)
  PROVE  \A d \in Dirs : DepthOf[d] = depth[d]
<1> DEFINE parent(d) == CHOOSE p \in Dirs : d \in Range(Listing[p])
           Eq(g) == g = [d \in Dirs |-> IF d = Root THEN 1 ELSE 1 + g[parent(d)]]
<1>0. \A d \in Dirs : depth[d] \in Nat \ {0}
  <2>1. \A d \in Dirs : depth[d] \in 1 .. Cardinality(Dirs)
    BY DEF IsDepth
  <2>2. QED BY <2>1, TreeFacts
<1>1. ASSUME NEW d \in Dirs, d # Root
      PROVE  parent(d) \in Dirs /\ depth[d] = depth[parent(d)] + 1
  <2>1. \E p \in Dirs : d \in Range(Listing[p])
    BY <1>1, TreeAssumption
  <2>2. parent(d) \in Dirs /\ d \in Range(Listing[parent(d)])
    BY <2>1
  <2> HIDE DEF parent
  <2>3. Listing[parent(d)] \in Seq(Range(Listing[parent(d)]))
    BY <2>2, TreeAssumption
  <2>4. PICK i \in 1 .. Len(Listing[parent(d)]) : Listing[parent(d)][i] = d
    <3>1. \E i \in DOMAIN Listing[parent(d)] : Listing[parent(d)][i] = d
      BY <2>2 DEF Range
    <3>2. DOMAIN Listing[parent(d)] = 1 .. Len(Listing[parent(d)])
      BY <2>3
    <3>3. QED BY <3>1, <3>2
  <2>5. QED BY <2>2, <2>4 DEF IsDepth
<1> HIDE DEF parent
<1>2. Eq(depth)
  <2>1. \A d \in Dirs : depth[d] = IF d = Root THEN 1 ELSE 1 + depth[parent(d)]
    BY <1>0, <1>1 DEF IsDepth
  <2>2. depth = [d \in Dirs |-> depth[d]]
    BY DEF IsDepth
  <2>3. QED BY <2>1, <2>2
<1>3. Eq(DepthOf)
  <2>1. DepthOf = CHOOSE g : Eq(g)
    BY DEF DepthOf, parent
  <2> HIDE DEF Eq
  <2>2. QED BY <1>2, <2>1
<1>4. \A d \in Dirs : DepthOf[d] = IF d = Root THEN 1 ELSE 1 + DepthOf[parent(d)]
  BY <1>3
<1> HIDE DEF Eq
<1> DEFINE T == {n \in Nat : \A d \in Dirs : depth[d] <= n => DepthOf[d] = depth[d]}
<1>5. 0 \in T
  BY <1>0
<1>6. ASSUME NEW n \in T PROVE n + 1 \in T
  <2>1. ASSUME NEW d \in Dirs, depth[d] <= n + 1 PROVE DepthOf[d] = depth[d]
    <3>1. CASE d = Root
      BY <1>4, <3>1 DEF IsDepth
    <3>2. CASE d # Root
      <4>1. parent(d) \in Dirs /\ depth[d] = depth[parent(d)] + 1
        BY <1>1, <3>2
      <4>2. depth[parent(d)] <= n
        BY <1>0, <2>1, <4>1
      <4>3. DepthOf[parent(d)] = depth[parent(d)]
        BY <4>1, <4>2
      <4>4. DepthOf[d] = 1 + DepthOf[parent(d)]
        BY <1>4, <3>2
      <4>5. QED BY <1>0, <4>1, <4>3, <4>4
    <3>3. QED BY <3>1, <3>2
  <2>2. n + 1 \in Nat
    OBVIOUS
  <2>3. QED BY <2>1, <2>2
<1>7. \A d \in Dirs : depth[d] \in T => DepthOf[d] = depth[d]
  BY <1>0
<1>8. T \in SUBSET Nat
  OBVIOUS
<1> HIDE DEF T
<1>9. T = Nat
  BY <1>5, <1>6, <1>8, SetInduction
<1>10. QED BY <1>0, <1>7, <1>9

LEMMA DepthFacts ==
  /\ DepthOf[Root] = 1
  /\ \A d \in Dirs : DepthOf[d] \in Nat
  /\ \A d \in Dirs : \A i \in 1 .. Len(Listing[d]) :
       Listing[d][i] \in Dirs => DepthOf[Listing[d][i]] = DepthOf[d] + 1
<1>1. PICK depth : IsDepth(depth)
  BY DepthExists
<1>2. \A d \in Dirs : DepthOf[d] = depth[d]
  BY <1>1, DepthOfIs
<1>3. \A d \in Dirs : depth[d] \in Nat
  <2>1. \A d \in Dirs : depth[d] \in 1 .. Cardinality(Dirs)
    BY <1>1 DEF IsDepth
  <2>2. QED BY <2>1, TreeFacts
<1>4. QED BY <1>1, <1>2, <1>3, TreeFacts DEF IsDepth

-----------------------------------------------------------------------------
(* What a walk prints of a directory.                                       *)

(* How many entries of directory d are read, given the history ct. *)
CountIn(ct, d) == IF d \notin DOMAIN ct THEN Len(Listing[d]) ELSE IF ct[d] < 0 THEN 0 ELSE ct[d]

CutTyped(ct) ==
  /\ DOMAIN ct \subseteq Dirs
  /\ \A d \in DOMAIN ct : ct[d] \in Int /\ -1 <= ct[d] /\ ct[d] <= Len(Listing[d])

(* What entry e contributes, when out is what the directories contribute    *)
(* and sg what the files do; and the first n entries of directory d.        *)
PartOf(sg, out, e) == IF e \in Dirs THEN out[e] ELSE IF e \in Dots THEN <<>> ELSE sg[e]

PartsOf(sg, out, d, n) == [i \in 1 .. n |-> PartOf(sg, out, Listing[d][i])]

Upto(sg, out, d, n) == FlattenSeq(PartsOf(sg, out, d, n))

(* Of the first n entries of d, the directories have their output. *)
Covers(out, d, n) == \A i \in 1 .. n : Listing[d][i] \in Dirs => Listing[d][i] \in DOMAIN out

Outputs == UNION {[D -> Seq(Files)] : D \in SUBSET Dirs}

LEMMA OutputsAre ==
  ASSUME NEW out \in Outputs
  PROVE  DOMAIN out \subseteq Dirs /\ \A d \in DOMAIN out : out[d] \in Seq(Files)
BY DEF Outputs

LEMMA CountTyped ==
  ASSUME NEW ct, CutTyped(ct), NEW d \in Dirs
  PROVE  CountIn(ct, d) \in Nat /\ CountIn(ct, d) <= Len(Listing[d])
<1>1. Len(Listing[d]) \in Nat
  BY TreeFacts
<1>2. CASE d \notin DOMAIN ct
  BY <1>1, <1>2 DEF CountIn
<1>3. CASE d \in DOMAIN ct
  <2>1. ct[d] \in Int /\ ct[d] <= Len(Listing[d])
    BY <1>3 DEF CutTyped
  <2>2. QED BY <1>1, <1>3, <2>1 DEF CountIn
<1>4. QED BY <1>2, <1>3

LEMMA PartTyped ==
  ASSUME NEW sg \in [Files -> Seq(Files)], NEW out \in Outputs, NEW d \in Dirs,
         NEW i \in 1 .. Len(Listing[d]), Listing[d][i] \in Dirs => Listing[d][i] \in DOMAIN out
  PROVE  PartOf(sg, out, Listing[d][i]) \in Seq(Files)
<1>1. Listing[d][i] \in Dirs \cup Dots \cup Files
  BY TreeFacts
<1>2. <<>> \in Seq(Files)
  OBVIOUS
<1> DEFINE e == Listing[d][i]
<1>3. e \in Dirs \cup Dots \cup Files /\ (e \in Dirs => e \in DOMAIN out)
  BY <1>1
<1>4. e \in DOMAIN out => out[e] \in Seq(Files)
  BY OutputsAre
<1>5. e \in Files => sg[e] \in Seq(Files)
  OBVIOUS
<1> HIDE DEF e
<1>6. PartOf(sg, out, e) \in Seq(Files)
  BY <1>2, <1>3, <1>4, <1>5 DEF PartOf
<1>7. QED BY <1>6 DEF e

LEMMA PartsTyped ==
  ASSUME NEW sg \in [Files -> Seq(Files)], NEW out \in Outputs, NEW d \in Dirs,
         NEW n \in Nat, n <= Len(Listing[d]), Covers(out, d, n)
  PROVE  PartsOf(sg, out, d, n) \in Seq(Seq(Files)) /\ Len(PartsOf(sg, out, d, n)) = n
<1>1. ASSUME NEW i \in 1 .. n PROVE PartOf(sg, out, Listing[d][i]) \in Seq(Files)
  <2>1. i \in 1 .. Len(Listing[d])
    BY TreeFacts
  <2>2. Listing[d][i] \in Dirs => Listing[d][i] \in DOMAIN out
    BY DEF Covers
  <2>3. QED BY <2>1, <2>2, PartTyped
<1>2. QED BY <1>1 DEF PartsOf

LEMMA UptoTyped ==
  ASSUME NEW sg \in [Files -> Seq(Files)], NEW out \in Outputs, NEW d \in Dirs,
         NEW n \in Nat, n <= Len(Listing[d]), Covers(out, d, n)
  PROVE  Upto(sg, out, d, n) \in Seq(Files)
BY PartsTyped, FlattenTyped DEF Upto

LEMMA UptoZero ==
  ASSUME NEW sg, NEW out, NEW d
  PROVE  Upto(sg, out, d, 0) = <<>>
<1>1. PartsOf(sg, out, d, 0) \in Seq({}) /\ Len(PartsOf(sg, out, d, 0)) = 0
  BY DEF PartsOf
<1>2. QED BY <1>1, FlattenEmpty DEF Upto

LEMMA UptoStep ==
  ASSUME NEW sg \in [Files -> Seq(Files)], NEW out \in Outputs, NEW d \in Dirs,
         NEW n \in Nat, n + 1 <= Len(Listing[d]), Covers(out, d, n + 1)
  PROVE  Upto(sg, out, d, n + 1) = Upto(sg, out, d, n) \o PartOf(sg, out, Listing[d][n + 1])
<1> DEFINE ss == PartsOf(sg, out, d, n)
           rr == PartsOf(sg, out, d, n + 1)
           s  == PartOf(sg, out, Listing[d][n + 1])
<1>0. n <= Len(Listing[d]) /\ Covers(out, d, n) /\ n + 1 \in Nat /\ n + 1 \in 1 .. n + 1
      /\ n + 1 \in 1 .. Len(Listing[d])
  <2>1. Len(Listing[d]) \in Nat
    BY TreeFacts
  <2>2. QED BY <2>1 DEF Covers
<1>1. ss \in Seq(Seq(Files)) /\ Len(ss) = n
  BY <1>0, PartsTyped
<1>2. rr \in Seq(Seq(Files)) /\ Len(rr) = n + 1
  BY <1>0, PartsTyped
<1>3. s \in Seq(Files)
  <2>1. Listing[d][n + 1] \in Dirs => Listing[d][n + 1] \in DOMAIN out
    BY <1>0 DEF Covers
  <2>2. QED BY <1>0, <2>1, PartTyped
<1>4. (\A i \in 1 .. n : ss[i] = rr[i]) /\ rr[n + 1] = s
  BY <1>0 DEF PartsOf
<1> HIDE DEF ss, rr, s
<1>5. rr = Append(ss, s)
  <2>1. Append(ss, s) \in Seq(Seq(Files)) /\ Len(Append(ss, s)) = n + 1
        /\ (\A i \in 1 .. n : Append(ss, s)[i] = ss[i]) /\ Append(ss, s)[n + 1] = s
    BY <1>1, <1>3
  <2>2. \A i \in 1 .. n + 1 : Append(ss, s)[i] = rr[i]
    <3>1. \A i \in 1 .. n + 1 : i \in 1 .. n \/ i = n + 1
      OBVIOUS
    <3>2. QED BY <1>4, <2>1, <3>1
  <2>3. QED BY <1>2, <2>1, <2>2
<1>6. FlattenSeq(rr) = FlattenSeq(ss) \o s
  BY <1>1, <1>3, <1>5, FlattenAppend
<1>7. QED BY <1>6 DEF Upto, ss, rr, s

(* Only the directories among the entries matter. *)
LEMMA UptoSame ==
  ASSUME NEW sg, NEW out, NEW oot, NEW d, NEW n,
         \A i \in 1 .. n : Listing[d][i] \in Dirs => out[Listing[d][i]] = oot[Listing[d][i]]
  PROVE  Upto(sg, out, d, n) = Upto(sg, oot, d, n)
<1>1. \A i \in 1 .. n : PartOf(sg, out, Listing[d][i]) = PartOf(sg, oot, Listing[d][i])
  BY DEF PartOf
<1>2. PartsOf(sg, out, d, n) = PartsOf(sg, oot, d, n)
  BY <1>1 DEF PartsOf
<1>3. QED BY <1>2 DEF Upto

(* The directories with at most n levels below them. *)
Deep(depth, n) == {d \in Dirs : depth[d] + n > Cardinality(Dirs)}

LEMMA DeepFacts ==
  ASSUME NEW depth, IsDepth(depth)
  PROVE  /\ Deep(depth, 0) = {}
         /\ Deep(depth, Cardinality(Dirs)) = Dirs
         /\ \A n \in Nat : Deep(depth, n) \subseteq Deep(depth, n + 1)
         /\ \A n \in Nat : \A d \in Deep(depth, n + 1) : \A i \in 1 .. Len(Listing[d]) :
              Listing[d][i] \in Dirs => Listing[d][i] \in Deep(depth, n)
<1>1. \A d \in Dirs : depth[d] \in 1 .. Cardinality(Dirs)
  BY DEF IsDepth
<1> DEFINE N == Cardinality(Dirs)
<1>2. N \in Nat
  BY TreeFacts
<1>3. \A d \in Dirs : depth[d] \in Nat /\ depth[d] <= N /\ depth[d] >= 1
  BY <1>1, <1>2
<1>4. \A d \in Dirs : \A i \in 1 .. Len(Listing[d]) :
       Listing[d][i] \in Dirs => depth[Listing[d][i]] = depth[d] + 1
  BY DEF IsDepth
<1>5. \A n : Deep(depth, n) = {d \in Dirs : depth[d] + n > N}
  BY DEF Deep
<1> HIDE DEF N
<1>6. Deep(depth, 0) = {}
  <2>1. \A d \in Dirs : ~(depth[d] + 0 > N)
    BY <1>2, <1>3
  <2>2. QED BY <1>5, <2>1
<1>7. Deep(depth, N) = Dirs
  <2>1. \A d \in Dirs : depth[d] + N > N
    BY <1>2, <1>3
  <2>2. QED BY <1>5, <2>1
<1>8. ASSUME NEW n \in Nat PROVE Deep(depth, n) \subseteq Deep(depth, n + 1)
  BY <1>2, <1>3, <1>5
<1>9. ASSUME NEW n \in Nat, NEW d \in Deep(depth, n + 1), NEW i \in 1 .. Len(Listing[d]),
             Listing[d][i] \in Dirs
      PROVE  Listing[d][i] \in Deep(depth, n)
  <2>1. d \in Dirs /\ depth[d] + (n + 1) > N
    BY <1>5
  <2>2. depth[Listing[d][i]] = depth[d] + 1
    BY <1>4, <1>9, <2>1
  <2>3. depth[Listing[d][i]] + n > N
    BY <1>2, <1>3, <2>1, <2>2
  <2>4. QED BY <1>5, <1>9, <2>3
<1>10. QED BY <1>6, <1>7, <1>8, <1>9 DEF N

(* What the directories of D contribute, from what they contain. *)
Solves(sg, ct, D, g) == g = [d \in D |-> Upto(sg, g, d, CountIn(ct, d))]

LEMMA BelowExists ==
  ASSUME NEW sg, NEW ct, CutTyped(ct)
  PROVE  \E g : Solves(sg, ct, Dirs, g)
<1>1. PICK depth : IsDepth(depth)
  BY DepthExists
<1> DEFINE D(n) == Deep(depth, n)
           T == {n \in Nat : \E g : Solves(sg, ct, D(n), g)}
<1>2. D(0) = {} /\ D(Cardinality(Dirs)) = Dirs /\ Cardinality(Dirs) \in Nat
  BY <1>1, DeepFacts, TreeFacts
<1>3. 0 \in T
  <2>1. Solves(sg, ct, D(0), [d \in {} |-> {}])
    <3>1. [d \in {} |-> {}] = [d \in {} |-> Upto(sg, [e \in {} |-> {}], d, CountIn(ct, d))]
      OBVIOUS
    <3>2. QED BY <1>2, <3>1 DEF Solves
  <2>2. QED BY <2>1
<1>4. ASSUME NEW n \in T PROVE n + 1 \in T
  <2>1. n \in Nat
    OBVIOUS
  <2>2. PICK g : Solves(sg, ct, D(n), g)
    OBVIOUS
  <2>3. /\ D(n) \subseteq D(n + 1) /\ D(n + 1) \subseteq Dirs
        /\ \A d \in D(n + 1) : \A i \in 1 .. Len(Listing[d]) :
             Listing[d][i] \in Dirs => Listing[d][i] \in D(n)
    <3>1. D(n + 1) \subseteq Dirs
      BY DEF Deep
    <3>2. QED BY <1>1, <2>1, <3>1, DeepFacts
  <2> DEFINE h == [d \in D(n + 1) |-> Upto(sg, g, d, CountIn(ct, d))]
  <2> HIDE DEF D
  <2>4. \A d \in D(n) : h[d] = g[d]
    <3>1. \A d \in D(n) : g[d] = Upto(sg, g, d, CountIn(ct, d))
      BY <2>2 DEF Solves
    <3>2. QED BY <2>3, <3>1
  <2>5. ASSUME NEW d \in D(n + 1)
        PROVE  Upto(sg, g, d, CountIn(ct, d)) = Upto(sg, h, d, CountIn(ct, d))
    <3> DEFINE m == CountIn(ct, d)
    <3>1. d \in Dirs /\ m \in Nat /\ m <= Len(Listing[d]) /\ Len(Listing[d]) \in Nat
      BY <2>3, CountTyped, TreeFacts
    <3> HIDE DEF m, h
    <3>2. ASSUME NEW i \in 1 .. m, Listing[d][i] \in Dirs
          PROVE  g[Listing[d][i]] = h[Listing[d][i]]
      <4>1. i \in 1 .. Len(Listing[d])
        BY <3>1
      <4>2. Listing[d][i] \in D(n)
        BY <2>3, <3>2, <4>1
      <4>3. QED BY <2>4, <4>2
    <3>3. Upto(sg, g, d, m) = Upto(sg, h, d, m)
      BY <3>2, UptoSame
    <3>4. QED BY <3>3 DEF m
  <2>6. Solves(sg, ct, D(n + 1), h)
    <3>1. h = [d \in D(n + 1) |-> Upto(sg, g, d, CountIn(ct, d))]
      OBVIOUS
    <3> HIDE DEF h
    <3>2. QED BY <2>5, <3>1 DEF Solves
  <2>7. QED BY <2>1, <2>6
<1>5. T \in SUBSET Nat
  OBVIOUS
<1>6. \A n \in T : \E g : Solves(sg, ct, D(n), g)
  OBVIOUS
<1> HIDE DEF T, D
<1>7. T = Nat
  BY <1>3, <1>4, <1>5, SetInduction
<1>8. QED BY <1>2, <1>6, <1>7

(* Outputs that are right for what was read are what Solves says. *)
LEMMA OutputIsSolution ==
  ASSUME NEW sg, NEW ct, CutTyped(ct), NEW g, Solves(sg, ct, Dirs, g), NEW out, NEW F \in SUBSET Dirs,
         \A d \in F : out[d] = Upto(sg, out, d, CountIn(ct, d)),
         \A d \in F : \A i \in 1 .. CountIn(ct, d) : Listing[d][i] \in Dirs => Listing[d][i] \in F
  PROVE  \A d \in F : out[d] = g[d]
<1>1. PICK depth : IsDepth(depth)
  BY DepthExists
<1> DEFINE D(n) == Deep(depth, n)
           T == {n \in Nat : \A d \in D(n) : d \in F => out[d] = g[d]}
<1>2. D(0) = {} /\ D(Cardinality(Dirs)) = Dirs /\ Cardinality(Dirs) \in Nat
  BY <1>1, DeepFacts, TreeFacts
<1>3. 0 \in T
  BY <1>2
<1>4. ASSUME NEW n \in T PROVE n + 1 \in T
  <2>1. n \in Nat /\ \A d \in D(n) : d \in F => out[d] = g[d]
    OBVIOUS
  <2>2. \A d \in D(n + 1) : \A i \in 1 .. Len(Listing[d]) :
          Listing[d][i] \in Dirs => Listing[d][i] \in D(n)
    BY <1>1, <2>1, DeepFacts
  <2> HIDE DEF D
  <2>3. ASSUME NEW d \in D(n + 1), d \in F PROVE out[d] = g[d]
    <3> DEFINE m == CountIn(ct, d)
    <3>1. d \in Dirs /\ m \in Nat /\ m <= Len(Listing[d]) /\ Len(Listing[d]) \in Nat
      BY <2>3, CountTyped, TreeFacts
    <3>2. out[d] = Upto(sg, out, d, m) /\ g[d] = Upto(sg, g, d, m)
      BY <2>3, <3>1 DEF Solves
    <3>3. \A i \in 1 .. m : Listing[d][i] \in Dirs => Listing[d][i] \in F
      BY <2>3
    <3> HIDE DEF m
    <3>4. ASSUME NEW i \in 1 .. m, Listing[d][i] \in Dirs
          PROVE  out[Listing[d][i]] = g[Listing[d][i]]
      <4>1. i \in 1 .. Len(Listing[d])
        BY <3>1
      <4>2. Listing[d][i] \in D(n) /\ Listing[d][i] \in F
        BY <2>2, <3>3, <3>4, <4>1
      <4>3. QED BY <2>1, <4>2
    <3>5. Upto(sg, out, d, m) = Upto(sg, g, d, m)
      BY <3>4, UptoSame
    <3>6. QED BY <3>2, <3>5
  <2>4. QED BY <2>1, <2>3
<1>5. T \in SUBSET Nat
  OBVIOUS
<1>6. \A n \in T : \A d \in D(n) : d \in F => out[d] = g[d]
  OBVIOUS
<1> HIDE DEF T, D
<1>7. T = Nat
  BY <1>3, <1>4, <1>5, SetInduction
<1>8. QED BY <1>2, <1>6, <1>7

(* What each file contributes. *)
Signeds == [f \in Files |-> Signed(f)]

LEMMA SignedsTyped == Signeds \in [Files -> Seq(Files)]
<1>1. ASSUME NEW f \in Files PROVE Signed(f) \in Seq(Files)
  <2>1. <<f>> \in Seq(Files) /\ <<>> \in Seq(Files)
    OBVIOUS
  <2>2. QED BY <2>1 DEF Signed
<1>2. QED BY <1>1 DEF Signeds

(* PngsBelow, in these terms. *)
LEMMA PngsBelowIs ==
  ASSUME CutTyped(cut)
  PROVE  Solves(Signeds, cut, Dirs, PngsBelow)
<1> DEFINE es(d)   == EntriesRead(d)
           of(g,e) == IF e \in Dirs THEN g[e] ELSE IF e \in Dots THEN <<>> ELSE Signed(e)
           body(g,d) == FlattenSeq([i \in 1 .. Len(es(d)) |-> of(g, es(d)[i])])
           Eq(g) == g = [d \in Dirs |-> body(g, d)]
<1>1. ASSUME NEW d \in Dirs
      PROVE  /\ Len(es(d)) = CountIn(cut, d)
             /\ \A i \in 1 .. CountIn(cut, d) : es(d)[i] = Listing[d][i]
  <2>1. Listing[d] \in Seq(Range(Listing[d])) /\ Len(Listing[d]) \in Nat
    BY TreeAssumption, TreeFacts
  <2>2. CASE d \notin DOMAIN cut
    BY <2>2 DEF EntriesRead, CountIn
  <2>3. CASE d \in DOMAIN cut
    <3>1. cut[d] \in Int /\ -1 <= cut[d] /\ cut[d] <= Len(Listing[d])
      BY <2>3 DEF CutTyped
    <3>2. es(d) = SubSeq(Listing[d], 1, cut[d])
      BY <2>3 DEF EntriesRead
    <3>3. \A i \in 1 .. cut[d] : Listing[d][i] \in Range(Listing[d])
      BY <2>1, <3>1
    <3> DEFINE c == cut[d]
               s == Listing[d]
               R == Range(Listing[d])
    <3>4. c \in Int /\ \A i \in 1 .. c : s[i] \in R
      BY <3>1, <3>3
    <3>5. CountIn(cut, d) = IF c < 0 THEN 0 ELSE c
      BY <2>3 DEF CountIn
    <3> HIDE DEF c, s, R
    <3>6. /\ Len(SubSeq(s, 1, c)) = IF 1 <= c THEN c - 1 + 1 ELSE 0
          /\ \A i \in 1 .. c - 1 + 1 : SubSeq(s, 1, c)[i] = s[1 + i - 1]
      BY <3>4, SubSeqProperties
    <3>7. /\ Len(SubSeq(s, 1, c)) = IF c < 0 THEN 0 ELSE c
          /\ \A i \in 1 .. (IF c < 0 THEN 0 ELSE c) : SubSeq(s, 1, c)[i] = s[i]
      BY <3>4, <3>6
    <3>8. QED BY <3>2, <3>5, <3>7 DEF c, s
  <2>4. QED BY <2>2, <2>3
<1>2. ASSUME NEW d \in Dirs, NEW i \in 1 .. CountIn(cut, d)
      PROVE  Listing[d][i] \in Dirs \cup Dots \cup Files
  <2>1. i \in 1 .. Len(Listing[d])
    BY CountTyped, TreeFacts
  <2>2. QED BY <2>1, TreeFacts
<1> HIDE DEF es
<1>3. ASSUME NEW g, NEW d \in Dirs
      PROVE  body(g, d) = Upto(Signeds, g, d, CountIn(cut, d))
  <2>1. ASSUME NEW i \in 1 .. CountIn(cut, d)
        PROVE  of(g, es(d)[i]) = PartOf(Signeds, g, Listing[d][i])
    <3>1. es(d)[i] = Listing[d][i] /\ Listing[d][i] \in Dirs \cup Dots \cup Files
      BY <1>1, <1>2
    <3>2. Listing[d][i] \in Files => Signeds[Listing[d][i]] = Signed(Listing[d][i])
      BY DEF Signeds
    <3>3. QED BY <3>1, <3>2 DEF PartOf
  <2>2. [i \in 1 .. Len(es(d)) |-> of(g, es(d)[i])] = PartsOf(Signeds, g, d, CountIn(cut, d))
    BY <1>1, <2>1 DEF PartsOf
  <2>3. QED BY <2>2 DEF Upto
<1>4. PngsBelow = CHOOSE g : Eq(g)
  BY DEF PngsBelow, es
<1> HIDE DEF body
<1>5. \A g : Eq(g) <=> Solves(Signeds, cut, Dirs, g)
  BY <1>3 DEF Solves
<1>6. \E g : Eq(g)
  BY <1>5, BelowExists
<1> HIDE DEF Eq
<1>7. QED BY <1>4, <1>5, <1>6

-----------------------------------------------------------------------------
(* The calls that have not returned.                                        *)

Frame == [dir : Dirs, read : Nat]

(* The entries of the j-th call that are dealt with: all it has read, but   *)
(* the one whose call is the next.                                          *)
Finished(fr, j) == IF j = Len(fr) THEN fr[j].read ELSE fr[j].read - 1

(* Each call is about an entry of the one before. *)
Linked(fr) ==
  /\ fr \in Seq(Frame)
  /\ \A j \in 1 .. Len(fr) :
       /\ fr[j].read <= Len(Listing[fr[j].dir])
       /\ DepthOf[fr[j].dir] = j
       /\ j = 1 => fr[j].dir = Root
       /\ j < Len(fr) => fr[j].read >= 1 /\ Listing[fr[j].dir][fr[j].read] = fr[j + 1].dir

LEMMA LinkedFacts ==
  ASSUME NEW fr, Linked(fr), NEW j \in 1 .. Len(fr)
  PROVE  /\ fr[j].dir \in Dirs /\ fr[j].read \in Nat /\ fr[j].read <= Len(Listing[fr[j].dir])
         /\ Finished(fr, j) \in Nat /\ Finished(fr, j) <= Len(Listing[fr[j].dir])
         /\ DepthOf[fr[j].dir] = j
         /\ Len(fr) \in Nat /\ j \in Nat
<1>1. fr[j] \in Frame /\ Len(fr) \in Nat /\ j \in Nat
  BY DEF Linked
<1>2. fr[j].dir \in Dirs /\ fr[j].read \in Nat
  BY <1>1 DEF Frame
<1>3. Len(Listing[fr[j].dir]) \in Nat
  BY <1>2, TreeFacts
<1>4. /\ fr[j].read <= Len(Listing[fr[j].dir])
      /\ DepthOf[fr[j].dir] = j
      /\ j < Len(fr) => fr[j].read >= 1
  BY DEF Linked
<1>5. j < Len(fr) \/ j = Len(fr)
  BY <1>1
<1> DEFINE r == fr[j].read
           m == Len(Listing[fr[j].dir])
<1>6. Finished(fr, j) \in Nat /\ Finished(fr, j) <= m
  <2>1. Finished(fr, j) = IF j = Len(fr) THEN r ELSE r - 1
    BY DEF Finished
  <2>2. r \in Nat /\ m \in Nat /\ r <= m /\ (j < Len(fr) => r >= 1)
    BY <1>2, <1>3, <1>4
  <2> HIDE DEF r, m
  <2>3. QED BY <1>5, <2>1, <2>2
<1>7. QED BY <1>1, <1>2, <1>4, <1>6

(* What the first n calls have printed before the call of their last entry. *)
Before(sg, out, fr, n) == FlattenSeq([j \in 1 .. n |-> Upto(sg, out, fr[j].dir, fr[j].read - 1)])

LEMMA BeforeZero ==
  ASSUME NEW sg, NEW out, NEW fr
  PROVE  Before(sg, out, fr, 0) = <<>>
<1> DEFINE ss == [j \in 1 .. 0 |-> Upto(sg, out, fr[j].dir, fr[j].read - 1)]
<1>1. ss \in Seq({}) /\ Len(ss) = 0
  OBVIOUS
<1> HIDE DEF ss
<1>2. FlattenSeq(ss) = <<>>
  BY <1>1, FlattenEmpty
<1>3. QED BY <1>2 DEF Before, ss

CallsTyped(sg, out, fr, n) ==
  \A j \in 1 .. n : Upto(sg, out, fr[j].dir, fr[j].read - 1) \in Seq(Files)

LEMMA BeforeStep ==
  ASSUME NEW sg, NEW out, NEW fr, NEW n \in Nat, CallsTyped(sg, out, fr, n + 1)
  PROVE  /\ Before(sg, out, fr, n) \in Seq(Files)
         /\ Before(sg, out, fr, n + 1)
              = Before(sg, out, fr, n) \o Upto(sg, out, fr[n + 1].dir, fr[n + 1].read - 1)
<1> DEFINE f(j) == Upto(sg, out, fr[j].dir, fr[j].read - 1)
           ss == [j \in 1 .. n |-> f(j)]
           rr == [j \in 1 .. n + 1 |-> f(j)]
<1>1. \A j \in 1 .. n + 1 : f(j) \in Seq(Files)
  BY DEF CallsTyped
<1> HIDE DEF f
<1>2. \A j \in 1 .. n : j \in 1 .. n + 1
  OBVIOUS
<1>3. ss \in Seq(Seq(Files)) /\ Len(ss) = n /\ \A j \in 1 .. n : ss[j] = f(j)
  BY <1>1, <1>2
<1>4. rr \in Seq(Seq(Files)) /\ Len(rr) = n + 1 /\ \A j \in 1 .. n + 1 : rr[j] = f(j)
  BY <1>1
<1>5. n + 1 \in 1 .. n + 1
  OBVIOUS
<1>6. f(n + 1) \in Seq(Files)
  BY <1>1, <1>5
<1>7. Before(sg, out, fr, n) = FlattenSeq(ss) /\ Before(sg, out, fr, n + 1) = FlattenSeq(rr)
  BY DEF Before, f
<1> HIDE DEF ss, rr
<1>8. rr = Append(ss, f(n + 1))
  <2> DEFINE s == f(n + 1)
  <2>1. s \in Seq(Files)
    BY <1>6
  <2>2. Append(ss, s) \in Seq(Seq(Files)) /\ Len(Append(ss, s)) = n + 1
        /\ (\A i \in 1 .. n : Append(ss, s)[i] = ss[i]) /\ Append(ss, s)[n + 1] = s
    <3> HIDE DEF s
    <3>1. QED BY <1>3, <2>1, AppendFacts
  <2>3. \A i \in 1 .. n + 1 : Append(ss, s)[i] = rr[i]
    <3>1. \A i \in 1 .. n + 1 : i \in 1 .. n \/ i = n + 1
      OBVIOUS
    <3> HIDE DEF s
    <3>2. rr[n + 1] = s
      BY <1>4, <1>5 DEF s
    <3>3. \A i \in 1 .. n : ss[i] = rr[i]
      BY <1>2, <1>3, <1>4
    <3>4. QED BY <2>2, <3>1, <3>2, <3>3
  <2> HIDE DEF s
  <2>4. \A x, y \in Seq(Seq(Files)) :
          Len(x) = Len(y) /\ (\A i \in 1 .. Len(x) : x[i] = y[i]) => x = y
    BY SeqEqual
  <2>5. rr = Append(ss, s)
    BY <1>4, <2>2, <2>3, <2>4
  <2>6. QED BY <2>5 DEF s
<1>9. FlattenSeq(rr) = FlattenSeq(ss) \o f(n + 1)
  BY <1>3, <1>6, <1>8, FlattenAppend
<1>10. FlattenSeq(ss) \in Seq(Files)
  BY <1>3, FlattenTyped
<1>11. QED BY <1>7, <1>9, <1>10 DEF f

LEMMA BeforeSame ==
  ASSUME NEW sg, NEW out, NEW oot, NEW fr, NEW gr, NEW n,
         \A j \in 1 .. n : Upto(sg, out, fr[j].dir, fr[j].read - 1)
                             = Upto(sg, oot, gr[j].dir, gr[j].read - 1)
  PROVE  Before(sg, out, fr, n) = Before(sg, oot, gr, n)
<1>1. [j \in 1 .. n |-> Upto(sg, out, fr[j].dir, fr[j].read - 1)]
        = [j \in 1 .. n |-> Upto(sg, oot, gr[j].dir, gr[j].read - 1)]
  OBVIOUS
<1>2. QED BY <1>1 DEF Before

(* What the calls have printed. *)
Output(sg, out, fr) ==
  IF fr = <<>> THEN out[Root]
  ELSE Before(sg, out, fr, Len(fr) - 1) \o Upto(sg, out, fr[Len(fr)].dir, fr[Len(fr)].read)

(* q is printed, and out is what the directories whose calls have returned  *)
(* contributed to it.                                                       *)
Explains(sg, out, fr, ct, q) ==
  /\ out \in Outputs
  /\ DOMAIN ct \subseteq DOMAIN out
  /\ \A d \in DOMAIN out :
       Covers(out, d, CountIn(ct, d)) /\ out[d] = Upto(sg, out, d, CountIn(ct, d))
  /\ \A j \in 1 .. Len(fr) :
       fr[j].dir \notin DOMAIN out /\ Covers(out, fr[j].dir, Finished(fr, j))
  /\ \A e \in DOMAIN out \ {Root} :
       \/ \E d \in DOMAIN out : \E i \in 1 .. Len(Listing[d]) : Listing[d][i] = e
       \/ \E j \in 1 .. Len(fr) : \E i \in 1 .. Finished(fr, j) : Listing[fr[j].dir][i] = e
  /\ fr = <<>> => Root \in DOMAIN out
  /\ q = Output(sg, out, fr)

(* The innermost of the n calls is about directory d, and entry i is next.  *)
NextIs(fr, n, d, i) ==
  n = Len(fr) /\ fr[n].dir = d /\ fr[n].read = i - 1 /\ i <= Len(Listing[d])

(* The next entry, if it is a directory, was not visited before. *)
LEMMA EntryFresh ==
  ASSUME NEW sg, NEW out, NEW fr, NEW ct, NEW q, Explains(sg, out, fr, ct, q), Linked(fr),
         NEW n \in Nat \ {0}, NEW d \in Dirs, NEW i \in Nat \ {0}, NextIs(fr, n, d, i),
         Listing[d][i] \in Dirs
  PROVE  /\ Listing[d][i] \notin DOMAIN out
         /\ DepthOf[Listing[d][i]] = n + 1
         /\ \A j \in 1 .. n : Listing[d][i] # fr[j].dir
<1> DEFINE e == Listing[d][i]
<1>0. n = Len(fr) /\ n \in 1 .. Len(fr) /\ 1 .. n = 1 .. Len(fr)
      /\ fr[n].dir = d /\ fr[n].read = i - 1
  BY DEF NextIs
<1>1. i \in 1 .. Len(Listing[d]) /\ DepthOf[d] = n /\ e \in Dirs
  <2>1. DepthOf[fr[n].dir] = n
    BY <1>0, LinkedFacts
  <2>2. Len(Listing[d]) \in Nat
    BY TreeFacts
  <2>3. QED BY <1>0, <2>1, <2>2 DEF NextIs
<1>2. DepthOf[e] = n + 1
  <2>1. DepthOf[e] = DepthOf[d] + 1
    BY <1>1, DepthFacts
  <2>2. QED BY <1>1, <2>1
<1> HIDE DEF e
<1>3. \A j \in 1 .. n : e # fr[j].dir
  <2>1. \A j \in 1 .. n : DepthOf[fr[j].dir] = j
    BY <1>0, LinkedFacts
  <2>2. QED BY <1>0, <1>2, <2>1
<1>4. e # Root
  BY <1>0, <1>2, DepthFacts
<1>5. ASSUME e \in DOMAIN out PROVE FALSE
  <2>1. d \notin DOMAIN out
    BY <1>0 DEF Explains
  <2>2. DOMAIN out \subseteq Dirs
    BY OutputsAre DEF Explains
  <2>3. CASE \E c \in DOMAIN out : \E h \in 1 .. Len(Listing[c]) : Listing[c][h] = e
    <3>1. PICK c \in DOMAIN out : \E h \in 1 .. Len(Listing[c]) : Listing[c][h] = e
      BY <2>3
    <3>2. PICK h \in 1 .. Len(Listing[c]) : Listing[c][h] = e
      BY <3>1
    <3>3. c \in Dirs /\ Listing[c][h] = Listing[d][i] /\ Listing[c][h] \in Dirs
      BY <2>2, <3>2 DEF e
    <3>4. c = d
      BY <1>1, <3>3, OnePlace
    <3>5. QED BY <2>1, <3>4
  <2>4. CASE \E j \in 1 .. Len(fr) : \E h \in 1 .. Finished(fr, j) : Listing[fr[j].dir][h] = e
    <3>1. PICK j \in 1 .. Len(fr) : \E h \in 1 .. Finished(fr, j) : Listing[fr[j].dir][h] = e
      BY <2>4
    <3>2. PICK h \in 1 .. Finished(fr, j) : Listing[fr[j].dir][h] = e
      BY <3>1
    <3> DEFINE c == fr[j].dir
    <3>3. c \in Dirs /\ Finished(fr, j) \in Nat /\ Finished(fr, j) <= Len(Listing[c]) /\ DepthOf[c] = j
      BY LinkedFacts
    <3>4. Len(Listing[c]) \in Nat
      BY <3>3, TreeFacts
    <3>5. h \in 1 .. Len(Listing[c]) /\ Listing[c][h] = Listing[d][i] /\ Listing[c][h] \in Dirs
      BY <3>2, <3>3, <3>4 DEF e
    <3>6. c = d /\ h = i
      <4>1. c \in Dirs /\ d \in Dirs /\ h \in 1 .. Len(Listing[c]) /\ i \in 1 .. Len(Listing[d])
        BY <1>1, <3>3, <3>5
      <4> HIDE DEF c
      <4>2. QED BY <3>5, <4>1, OnePlace
    <3>7. j = n
      BY <1>1, <3>3, <3>6
    <3>8. Finished(fr, j) = fr[n].read
      BY <1>0, <3>7 DEF Finished
    <3>9. fr[n].read \in Nat
      BY <1>0, LinkedFacts
    <3>10. h <= Finished(fr, j)
      <4> DEFINE m == Finished(fr, j)
      <4>1. h \in 1 .. m /\ m \in Nat
        BY <3>3
      <4> HIDE DEF m
      <4>2. h <= m
        BY <4>1
      <4>3. QED BY <4>2 DEF m
    <3>11. h = fr[n].read + 1
      BY <1>0, <3>6
    <3>12. QED BY <3>8, <3>9, <3>10, <3>11
  <2>5. QED BY <1>4, <1>5, <2>3, <2>4 DEF Explains
<1>6. QED BY <1>2, <1>3, <1>5 DEF e

(* What is explained stays so when directories are added. *)
Grows(out, oot) == DOMAIN out \subseteq DOMAIN oot /\ \A d \in DOMAIN out : oot[d] = out[d]

LEMMA GrowsCovers ==
  ASSUME NEW out, NEW oot, Grows(out, oot), NEW d, NEW n, Covers(out, d, n)
  PROVE  Covers(oot, d, n)
BY DEF Grows, Covers

LEMMA GrowsUpto ==
  ASSUME NEW sg, NEW out, NEW oot, Grows(out, oot), NEW d, NEW n, Covers(out, d, n)
  PROVE  Upto(sg, oot, d, n) = Upto(sg, out, d, n)
<1>1. \A i \in 1 .. n : Listing[d][i] \in Dirs => oot[Listing[d][i]] = out[Listing[d][i]]
  BY DEF Grows, Covers
<1>2. QED BY <1>1, UptoSame

(* The types of what the calls have printed. *)
LEMMA Associates == \A x, y, z \in Seq(Files) : (x \o y) \o z = x \o (y \o z)
<1>1. ASSUME NEW x \in Seq(Files), NEW y \in Seq(Files), NEW z \in Seq(Files)
      PROVE  (x \o y) \o z = x \o (y \o z)
  BY ConcatAssociative
<1>2. QED BY <1>1

LEMMA PrintedTyped ==
  ASSUME NEW sg \in [Files -> Seq(Files)], NEW out, NEW fr, NEW ct, NEW q,
         Explains(sg, out, fr, ct, q), Linked(fr), NEW n \in Nat \ {0}, n = Len(fr)
  PROVE  /\ CallsTyped(sg, out, fr, n - 1)
         /\ Upto(sg, out, fr[n].dir, fr[n].read) \in Seq(Files)
         /\ Before(sg, out, fr, n - 1) \in Seq(Files)
<1>1. ASSUME NEW j \in 1 .. Len(fr)
      PROVE  Upto(sg, out, fr[j].dir, Finished(fr, j)) \in Seq(Files)
  <2>1. /\ fr[j].dir \in Dirs
        /\ Finished(fr, j) \in Nat /\ Finished(fr, j) <= Len(Listing[fr[j].dir])
    BY LinkedFacts
  <2>2. out \in Outputs /\ Covers(out, fr[j].dir, Finished(fr, j))
    BY DEF Explains
  <2>3. QED BY <2>1, <2>2, UptoTyped
<1>2. \A j \in 1 .. n - 1 : j \in 1 .. Len(fr) /\ Finished(fr, j) = fr[j].read - 1
  BY DEF Finished
<1>3. n \in 1 .. Len(fr) /\ Finished(fr, n) = fr[n].read
  BY DEF Finished
<1>4. CallsTyped(sg, out, fr, n - 1)
  BY <1>1, <1>2 DEF CallsTyped
<1>5. Before(sg, out, fr, n - 1) \in Seq(Files)
  <2>1. CASE n = 1
    <3>1. n - 1 = 0
      BY <2>1
    <3>2. Before(sg, out, fr, n - 1) = <<>>
      BY <3>1, BeforeZero
    <3>3. <<>> \in Seq(Files)
      OBVIOUS
    <3>4. QED BY <3>2, <3>3
  <2>2. CASE n # 1
    <3>0. n - 2 \in Nat /\ (n - 2) + 1 = n - 1
      BY <2>2
    <3>1. PICK m \in Nat : m + 1 = n - 1
      BY <3>0
    <3>2. CallsTyped(sg, out, fr, m + 1)
      BY <1>4, <3>1
    <3>3. Before(sg, out, fr, m) \in Seq(Files)
      BY <3>2, BeforeStep
    <3>4. Before(sg, out, fr, m + 1)
            = Before(sg, out, fr, m) \o Upto(sg, out, fr[m + 1].dir, fr[m + 1].read - 1)
      BY <3>2, BeforeStep
    <3>5. Upto(sg, out, fr[m + 1].dir, fr[m + 1].read - 1) \in Seq(Files)
      BY <3>2 DEF CallsTyped
    <3>6. \A x, y \in Seq(Files) : x \o y \in Seq(Files)
      OBVIOUS
    <3>7. Before(sg, out, fr, m + 1) \in Seq(Files)
      BY <3>3, <3>4, <3>5, <3>6
    <3>8. QED BY <3>1, <3>7
  <2>3. QED BY <2>1, <2>2
<1>6. QED BY <1>1, <1>3, <1>4, <1>5

(* In gr the innermost of n calls has read one more than in fr.             *)
Advances(fr, gr, n, d, i) ==
  Len(gr) = n /\ (\A j \in 1 .. n - 1 : gr[j] = fr[j]) /\ gr[n].dir = d /\ gr[n].read = i

(* Directory e, if it is one, is added, with nothing read.                  *)
Adds(out, oot, e) ==
  /\ oot \in Outputs
  /\ DOMAIN oot = DOMAIN out \cup ({e} \cap Dirs)
  /\ \A c \in DOMAIN out : oot[c] = out[c]
  /\ e \in Dirs => oot[e] = <<>>

Refuses(ct, dt, e) ==
  /\ DOMAIN dt = DOMAIN ct \cup ({e} \cap Dirs)
  /\ \A c \in DOMAIN ct : e # c => dt[c] = ct[c]
  /\ e \in Dirs => dt[e] = -1

(* The innermost call is past entry e, which is no directory, or one that   *)
(* was not opened.                                                          *)
LEMMA AdvanceExplains ==
  ASSUME NEW sg \in [Files -> Seq(Files)], NEW out, NEW fr, NEW ct, NEW q,
         Explains(sg, out, fr, ct, q), Linked(fr),
         NEW n \in Nat \ {0}, NEW d \in Dirs, NEW i \in Nat \ {0}, NextIs(fr, n, d, i),
         NEW e, e = Listing[d][i], NEW gr, Advances(fr, gr, n, d, i),
         NEW oot, Adds(out, oot, e), NEW dt, Refuses(ct, dt, e)
  PROVE  Explains(sg, oot, gr, dt, q \o PartOf(sg, oot, e))
<1>0. n = Len(fr) /\ n \in 1 .. n /\ n \in 1 .. Len(fr) /\ 1 .. n = 1 .. Len(fr)
  BY DEF NextIs
<1>a. \A j \in 1 .. n : j = n \/ j \in 1 .. n - 1
  OBVIOUS
<1>1. /\ i \in 1 .. Len(Listing[d]) /\ Len(Listing[d]) \in Nat
      /\ fr[n].read = i - 1 /\ fr[n].dir = d /\ i - 1 \in Nat
  <2>1. Len(Listing[d]) \in Nat
    BY TreeFacts
  <2>2. QED BY <2>1 DEF NextIs
<1>2. e \in Dirs => e \notin DOMAIN out /\ \A j \in 1 .. n : e # fr[j].dir
  BY EntryFresh
<1>3. Grows(out, oot) /\ DOMAIN out \subseteq DOMAIN oot /\ DOMAIN dt \subseteq DOMAIN oot
  BY DEF Explains, Adds, Refuses, Grows
<1>4. Len(gr) = n /\ \A j \in 1 .. n : gr[j].dir = fr[j].dir
  BY <1>1, <1>a DEF Advances
<1>5. /\ \A j \in 1 .. n - 1 : Finished(gr, j) = Finished(fr, j) /\ Finished(fr, j) = fr[j].read - 1
                               /\ gr[j].read = fr[j].read
      /\ Finished(gr, n) = i /\ Finished(fr, n) = i - 1
  <2>1. \A j \in 1 .. n - 1 : j # n /\ gr[j] = fr[j]
    BY DEF Advances
  <2>2. Len(gr) = n /\ Len(fr) = n /\ gr[n].read = i /\ fr[n].read = i - 1
    BY <1>0, <1>1 DEF Advances
  <2>3. QED BY <2>1, <2>2 DEF Finished
<1>6. ASSUME NEW j \in 1 .. n
      PROVE  /\ Covers(oot, fr[j].dir, Finished(fr, j))
             /\ Upto(sg, oot, fr[j].dir, Finished(fr, j)) = Upto(sg, out, fr[j].dir, Finished(fr, j))
  <2>1. Covers(out, fr[j].dir, Finished(fr, j))
    BY <1>0 DEF Explains
  <2>2. QED BY <1>3, <2>1, GrowsCovers, GrowsUpto
<1>7. Covers(oot, d, i)
  <2>1. Covers(oot, fr[n].dir, Finished(fr, n))
    BY <1>0, <1>6
  <2>2. \A h \in 1 .. i : h = i \/ h \in 1 .. i - 1
    BY <1>1
  <2>3. Covers(oot, d, i - 1)
    BY <1>1, <1>5, <2>1
  <2>4. Listing[d][i] \in Dirs => Listing[d][i] \in DOMAIN oot
    BY DEF Adds
  <2>5. QED BY <2>2, <2>3, <2>4 DEF Covers
<1>8. ASSUME NEW c \in DOMAIN oot
      PROVE  Covers(oot, c, CountIn(dt, c)) /\ oot[c] = Upto(sg, oot, c, CountIn(dt, c))
  <2>1. CASE c \in DOMAIN out
    <3>1. c # e
      BY <1>2, <2>1, OutputsAre DEF Explains
    <3>2. CountIn(dt, c) = CountIn(ct, c)
      BY <3>1 DEF CountIn, Refuses
    <3>3. Covers(out, c, CountIn(ct, c)) /\ out[c] = Upto(sg, out, c, CountIn(ct, c))
      BY <2>1 DEF Explains
    <3>4. Covers(oot, c, CountIn(ct, c))
      BY <1>3, <3>3, GrowsCovers
    <3>5. Upto(sg, oot, c, CountIn(ct, c)) = Upto(sg, out, c, CountIn(ct, c))
      BY <1>3, <3>3, GrowsUpto
    <3>6. oot[c] = out[c]
      BY <1>3, <2>1 DEF Grows
    <3>7. QED BY <3>2, <3>3, <3>4, <3>5, <3>6
  <2>2. CASE c \notin DOMAIN out
    <3>1. c = e /\ e \in Dirs /\ oot[e] = <<>>
      BY <2>2 DEF Adds
    <3>2. CountIn(dt, c) = 0
      BY <3>1 DEF CountIn, Refuses
    <3>3. Covers(oot, c, 0)
      BY DEF Covers
    <3>4. QED BY <3>1, <3>2, <3>3, UptoZero
  <2>3. QED BY <2>1, <2>2
<1>9. ASSUME NEW j \in 1 .. Len(gr)
      PROVE  gr[j].dir \notin DOMAIN oot /\ Covers(oot, gr[j].dir, Finished(gr, j))
  <2>1. j \in 1 .. n /\ gr[j].dir = fr[j].dir
    BY <1>4
  <2>2. fr[j].dir \notin DOMAIN out
    BY <1>0, <2>1 DEF Explains
  <2>3. fr[j].dir \notin DOMAIN oot
    BY <1>2, <2>1, <2>2 DEF Adds
  <2>4. Covers(oot, fr[j].dir, Finished(gr, j))
    BY <1>1, <1>5, <1>6, <1>7, <1>a, <2>1
  <2>5. QED BY <2>1, <2>3, <2>4
<1>10. ASSUME NEW c \in DOMAIN oot \ {Root}
       PROVE  \/ \E b \in DOMAIN oot : \E h \in 1 .. Len(Listing[b]) : Listing[b][h] = c
              \/ \E j \in 1 .. Len(gr) : \E h \in 1 .. Finished(gr, j) : Listing[gr[j].dir][h] = c
  <2>1. CASE c \in DOMAIN out
    <3>1. CASE \E b \in DOMAIN out : \E h \in 1 .. Len(Listing[b]) : Listing[b][h] = c
      BY <1>3, <3>1
    <3>2. CASE \E j \in 1 .. Len(fr) : \E h \in 1 .. Finished(fr, j) : Listing[fr[j].dir][h] = c
      <4>1. PICK j \in 1 .. Len(fr) : \E h \in 1 .. Finished(fr, j) : Listing[fr[j].dir][h] = c
        BY <3>2
      <4>2. PICK h \in 1 .. Finished(fr, j) : Listing[fr[j].dir][h] = c
        BY <4>1
      <4>3. j \in 1 .. Len(gr) /\ gr[j].dir = fr[j].dir
        BY <1>0, <1>4
      <4>4. h \in 1 .. Finished(gr, j)
        <5>1. CASE j \in 1 .. n - 1
          BY <1>5, <5>1
        <5>2. CASE j = n
          <6>1. h \in 1 .. i - 1
            BY <1>5, <5>2
          <6>2. h \in 1 .. i
            BY <1>1, <6>1
          <6>3. QED BY <1>5, <5>2, <6>2
        <5>3. QED BY <1>0, <1>a, <5>1, <5>2
      <4>5. QED BY <4>2, <4>3, <4>4
    <3>3. QED BY <2>1, <3>1, <3>2 DEF Explains
  <2>2. CASE c \notin DOMAIN out
    <3>1. c = e /\ n \in 1 .. Len(gr) /\ i \in 1 .. Finished(gr, n) /\ Listing[gr[n].dir][i] = c
      <4>1. c = e
        BY <2>2 DEF Adds
      <4>2. n \in 1 .. Len(gr) /\ gr[n].dir = d
        BY <1>0, <1>1, <1>4
      <4>3. i \in 1 .. i
        OBVIOUS
      <4>4. QED BY <1>5, <4>1, <4>2, <4>3
    <3>2. QED BY <3>1
  <2>3. QED BY <2>1, <2>2
<1>11. q \o PartOf(sg, oot, e) = Output(sg, oot, gr)
  <2> DEFINE b == Before(sg, out, fr, n - 1)
             s == Upto(sg, out, d, i - 1)
             p == PartOf(sg, oot, e)
  <2>1. q = b \o s
    <3>1. fr # <<>>
      BY <1>0
    <3>2. q = Output(sg, out, fr)
      BY DEF Explains
    <3>3. QED BY <1>0, <1>1, <3>1, <3>2 DEF Output
  <2>2. b \in Seq(Files)
    BY <1>0, PrintedTyped
  <2>3. s \in Seq(Files)
    <3>1. Upto(sg, out, fr[n].dir, fr[n].read) \in Seq(Files)
      BY <1>0, PrintedTyped
    <3>2. QED BY <1>1, <3>1
  <2>4. p \in Seq(Files)
    <3>1. oot \in Outputs /\ (e \in Dirs => e \in DOMAIN oot)
      BY DEF Adds
    <3>2. PartOf(sg, oot, Listing[d][i]) \in Seq(Files)
      BY <1>1, <3>1, PartTyped
    <3>3. QED BY <3>2
  <2>5. Before(sg, oot, gr, n - 1) = b
    <3>1. \A j \in 1 .. n - 1 : Upto(sg, out, fr[j].dir, fr[j].read - 1)
                                  = Upto(sg, oot, gr[j].dir, gr[j].read - 1)
      <4>1. \A j \in 1 .. n - 1 : j \in 1 .. n
        OBVIOUS
      <4>2. QED BY <1>4, <1>5, <1>6, <4>1
    <3>2. QED BY <3>1, BeforeSame
  <2>6. Upto(sg, oot, d, i) = s \o p
    <3>1. Upto(sg, oot, d, i - 1) = s
      <4>1. Upto(sg, oot, fr[n].dir, Finished(fr, n)) = Upto(sg, out, fr[n].dir, Finished(fr, n))
        BY <1>0, <1>6
      <4>2. QED BY <1>1, <1>5, <4>1
    <3>2. i - 1 \in Nat /\ (i - 1) + 1 = i
      BY <1>1
    <3> DEFINE m == i - 1
    <3>3. m \in Nat /\ m + 1 = i /\ m + 1 <= Len(Listing[d]) /\ Covers(oot, d, m + 1)
      BY <1>1, <1>7, <3>2
    <3>4. oot \in Outputs
      BY DEF Adds
    <3>5. Upto(sg, oot, d, m) = s
      BY <3>1
    <3> HIDE DEF m, s
    <3>6. Upto(sg, oot, d, m + 1) = Upto(sg, oot, d, m) \o PartOf(sg, oot, Listing[d][m + 1])
      BY <3>3, <3>4, UptoStep
    <3>7. QED BY <3>3, <3>5, <3>6
  <2>7. Output(sg, oot, gr) = b \o (s \o p)
    <3>1. gr # <<>> /\ Len(gr) = n /\ gr[n].dir = d /\ gr[n].read = i
      BY <1>4 DEF Advances
    <3>2. QED BY <2>5, <2>6, <3>1 DEF Output
  <2> HIDE DEF b, s, p
  <2>8. (b \o s) \o p = b \o (s \o p)
    BY <2>2, <2>3, <2>4, Associates
  <2>9. QED BY <2>1, <2>7, <2>8 DEF p
<1>12. gr # <<>> /\ oot \in Outputs
  BY <1>4 DEF Adds
<1>13. QED BY <1>3, <1>8, <1>9, <1>10, <1>11, <1>12 DEF Explains

(* In gr the innermost of n calls has read one more than in fr, and has     *)
(* called for that entry, directory e.                                      *)
Pushes(fr, gr, n, d, i, e) ==
  /\ Len(gr) = n + 1
  /\ \A j \in 1 .. n - 1 : gr[j] = fr[j]
  /\ gr[n].dir = d /\ gr[n].read = i
  /\ gr[n + 1].dir = e /\ gr[n + 1].read = 0

LEMMA PushExplains ==
  ASSUME NEW sg \in [Files -> Seq(Files)], NEW out, NEW fr, NEW ct, NEW q,
         Explains(sg, out, fr, ct, q), Linked(fr),
         NEW n \in Nat \ {0}, NEW d \in Dirs, NEW i \in Nat \ {0}, NextIs(fr, n, d, i),
         NEW e \in Dirs, e = Listing[d][i], NEW gr, Pushes(fr, gr, n, d, i, e)
  PROVE  Explains(sg, out, gr, ct, q)
<1>0. n = Len(fr) /\ n \in 1 .. n /\ n \in 1 .. Len(fr) /\ 1 .. n = 1 .. Len(fr)
  BY DEF NextIs
<1>a. /\ \A j \in 1 .. n + 1 : j = n + 1 \/ j \in 1 .. n
      /\ \A j \in 1 .. n : j = n \/ j \in 1 .. n - 1
  OBVIOUS
<1>1. fr[n].read = i - 1 /\ fr[n].dir = d /\ i - 1 \in Nat
  BY DEF NextIs
<1>2. e \notin DOMAIN out
  BY EntryFresh
<1>4. Len(gr) = n + 1 /\ gr[n + 1].dir = e /\ \A j \in 1 .. n : gr[j].dir = fr[j].dir
  BY <1>1, <1>a DEF Pushes
<1>5. /\ \A j \in 1 .. n - 1 : Finished(gr, j) = Finished(fr, j) /\ Finished(fr, j) = fr[j].read - 1
                               /\ gr[j].read = fr[j].read
      /\ Finished(gr, n) = i - 1 /\ Finished(fr, n) = i - 1 /\ Finished(gr, n + 1) = 0
  <2>1. \A j \in 1 .. n - 1 : j # n /\ j # n + 1 /\ gr[j] = fr[j]
    BY DEF Pushes
  <2>2. /\ Len(gr) = n + 1 /\ Len(fr) = n /\ n # n + 1
        /\ gr[n].read = i /\ fr[n].read = i - 1 /\ gr[n + 1].read = 0
    BY <1>0, <1>1 DEF Pushes
  <2>3. QED BY <2>1, <2>2 DEF Finished
<1>6. \A j \in 1 .. n : Finished(gr, j) = Finished(fr, j)
  BY <1>a, <1>5
<1>9. ASSUME NEW j \in 1 .. Len(gr)
      PROVE  gr[j].dir \notin DOMAIN out /\ Covers(out, gr[j].dir, Finished(gr, j))
  <2>1. CASE j \in 1 .. n
    <3>1. fr[j].dir \notin DOMAIN out /\ Covers(out, fr[j].dir, Finished(fr, j))
      BY <1>0, <2>1 DEF Explains
    <3>2. QED BY <1>4, <1>6, <2>1, <3>1
  <2>2. CASE j = n + 1
    <3>1. Covers(out, e, 0)
      BY DEF Covers
    <3>2. QED BY <1>2, <1>4, <1>5, <2>2, <3>1
  <2>3. QED BY <1>4, <1>a, <2>1, <2>2
<1>10. ASSUME NEW c \in DOMAIN out \ {Root}
       PROVE  \/ \E b \in DOMAIN out : \E h \in 1 .. Len(Listing[b]) : Listing[b][h] = c
              \/ \E j \in 1 .. Len(gr) : \E h \in 1 .. Finished(gr, j) : Listing[gr[j].dir][h] = c
  <2>1. CASE \E j \in 1 .. Len(fr) : \E h \in 1 .. Finished(fr, j) : Listing[fr[j].dir][h] = c
    <3>1. PICK j \in 1 .. Len(fr) : \E h \in 1 .. Finished(fr, j) : Listing[fr[j].dir][h] = c
      BY <2>1
    <3>2. j \in 1 .. n /\ j \in 1 .. Len(gr)
      BY <1>0, <1>4
    <3>3. gr[j].dir = fr[j].dir /\ Finished(gr, j) = Finished(fr, j)
      BY <1>4, <1>6, <3>2
    <3>4. QED BY <3>1, <3>2, <3>3
  <2>2. QED BY <2>1 DEF Explains
<1>11. q = Output(sg, out, gr)
  <2> DEFINE b == Before(sg, out, fr, n - 1)
             s == Upto(sg, out, d, i - 1)
  <2>1. q = b \o s
    <3>1. fr # <<>>
      BY <1>0
    <3>2. q = Output(sg, out, fr)
      BY DEF Explains
    <3>3. QED BY <1>0, <1>1, <3>1, <3>2 DEF Output
  <2>2. b \in Seq(Files)
    BY <1>0, PrintedTyped
  <2>3. s \in Seq(Files)
    <3>1. Upto(sg, out, fr[n].dir, fr[n].read) \in Seq(Files)
      BY <1>0, PrintedTyped
    <3>2. QED BY <1>1, <3>1
  <2>4. Before(sg, out, gr, n - 1) = b
    <3>1. \A j \in 1 .. n - 1 : Upto(sg, out, gr[j].dir, gr[j].read - 1)
                                  = Upto(sg, out, fr[j].dir, fr[j].read - 1)
      <4>1. \A j \in 1 .. n - 1 : j \in 1 .. n
        OBVIOUS
      <4>2. QED BY <1>4, <1>5, <4>1
    <3>2. QED BY <3>1, BeforeSame
  <2>5. Upto(sg, out, gr[n].dir, gr[n].read - 1) = s
    BY DEF Pushes
  <2>6. CallsTyped(sg, out, gr, n)
    <3>1. CallsTyped(sg, out, fr, n - 1)
      BY <1>0, PrintedTyped
    <3>2. ASSUME NEW j \in 1 .. n PROVE Upto(sg, out, gr[j].dir, gr[j].read - 1) \in Seq(Files)
      <4>1. CASE j = n
        BY <2>3, <2>5, <4>1
      <4>2. CASE j \in 1 .. n - 1
        BY <1>4, <1>5, <3>1, <4>2 DEF CallsTyped
      <4>3. QED BY <1>a, <4>1, <4>2
    <3>3. QED BY <3>2 DEF CallsTyped
  <2>7. Before(sg, out, gr, n) = b \o s
    <3>1. PICK m \in Nat : m + 1 = n /\ n - 1 = m
      <4>1. n - 1 \in Nat /\ (n - 1) + 1 = n
        OBVIOUS
      <4>2. QED BY <4>1
    <3>2. CallsTyped(sg, out, gr, m + 1)
      BY <2>6, <3>1
    <3>3. Before(sg, out, gr, m + 1)
            = Before(sg, out, gr, m) \o Upto(sg, out, gr[m + 1].dir, gr[m + 1].read - 1)
      BY <3>2, BeforeStep
    <3> HIDE DEF b, s
    <3>4. QED BY <2>4, <2>5, <3>1, <3>3
  <2>8. Output(sg, out, gr) = (b \o s) \o <<>>
    <3>1. gr # <<>> /\ Len(gr) = n + 1 /\ gr[n + 1].dir = e /\ gr[n + 1].read = 0 /\ (n + 1) - 1 = n
      BY <1>4 DEF Pushes
    <3>2. Upto(sg, out, e, 0) = <<>>
      BY UptoZero
    <3> HIDE DEF b, s
    <3>3. QED BY <2>7, <3>1, <3>2 DEF Output
  <2> HIDE DEF b, s
  <2>9. \A x, y \in Seq(Files) : x \o y \in Seq(Files) /\ x \o <<>> = x
    OBVIOUS
  <2>10. b \o s \in Seq(Files)
    BY <2>2, <2>3, <2>9
  <2>11. (b \o s) \o <<>> = b \o s
    BY <2>9, <2>10
  <2>12. QED BY <2>1, <2>8, <2>11
<1>12. gr # <<>> /\ out \in Outputs /\ DOMAIN ct \subseteq DOMAIN out
  BY <1>4 DEF Explains
<1>13. \A c \in DOMAIN out :
         Covers(out, c, CountIn(ct, c)) /\ out[c] = Upto(sg, out, c, CountIn(ct, c))
  BY DEF Explains
<1>14. QED BY <1>9, <1>10, <1>11, <1>12, <1>13 DEF Explains

LEMMA BeforeNext ==
  ASSUME NEW sg, NEW out, NEW fr, NEW m \in Nat, NEW t, t = m + 1, CallsTyped(sg, out, fr, t)
  PROVE  Before(sg, out, fr, t) = Before(sg, out, fr, m) \o Upto(sg, out, fr[t].dir, fr[t].read - 1)
BY BeforeStep

LEMMA UptoNext ==
  ASSUME NEW sg \in [Files -> Seq(Files)], NEW out \in Outputs, NEW d \in Dirs,
         NEW m \in Nat, NEW t, t = m + 1, t <= Len(Listing[d]), Covers(out, d, t)
  PROVE  Upto(sg, out, d, t) = Upto(sg, out, d, m) \o PartOf(sg, out, Listing[d][t])
BY UptoStep

(* The same of any entry. *)
LEMMA UptoLast ==
  ASSUME NEW sg \in [Files -> Seq(Files)], NEW out \in Outputs, NEW d \in Dirs,
         NEW t \in Nat \ {0}, t <= Len(Listing[d]), Covers(out, d, t)
  PROVE  Upto(sg, out, d, t) = Upto(sg, out, d, t - 1) \o PartOf(sg, out, Listing[d][t])
<1>1. PICK m \in Nat : t = m + 1
  <2>1. t - 1 \in Nat /\ t = (t - 1) + 1
    OBVIOUS
  <2>2. QED BY <2>1
<1>2. Upto(sg, out, d, t) = Upto(sg, out, d, m) \o PartOf(sg, out, Listing[d][t])
  BY <1>1, UptoNext
<1>3. t - 1 = m
  BY <1>1
<1>4. QED BY <1>2, <1>3

(* The innermost of the n calls has read r entries of directory d. *)
Innermost(fr, n, d, r) == n = Len(fr) /\ fr[n].dir = d /\ fr[n].read = r

(* In gr the innermost of n calls has returned. *)
Pops(fr, gr, n) == gr \in Seq(Frame) /\ Len(gr) = n - 1 /\ \A j \in 1 .. n - 1 : gr[j] = fr[j]

(* Directory d is added, of which r entries were read. *)
Leaves(out, oot, sg, d, r) ==
  /\ oot \in Outputs
  /\ DOMAIN oot = DOMAIN out \cup {d}
  /\ \A c \in DOMAIN out : oot[c] = out[c]
  /\ oot[d] = Upto(sg, out, d, r)

Cuts(ct, dt, d, r) ==
  /\ DOMAIN ct \subseteq DOMAIN dt /\ DOMAIN dt \subseteq DOMAIN ct \cup {d}
  /\ \A c \in DOMAIN ct : c # d => dt[c] = ct[c]
  /\ CountIn(dt, d) = r

LEMMA PopExplains ==
  ASSUME NEW sg \in [Files -> Seq(Files)], NEW out, NEW fr, NEW ct, NEW q,
         Explains(sg, out, fr, ct, q), Linked(fr),
         NEW n \in Nat \ {0}, NEW d \in Dirs, NEW r \in Nat, Innermost(fr, n, d, r),
         NEW gr, Pops(fr, gr, n),
         NEW oot, Leaves(out, oot, sg, d, r), NEW dt, Cuts(ct, dt, d, r)
  PROVE  Explains(sg, oot, gr, dt, q)
<1>0. n = Len(fr) /\ n \in 1 .. n /\ n \in 1 .. Len(fr) /\ 1 .. n = 1 .. Len(fr)
      /\ fr[n].dir = d /\ fr[n].read = r
  BY DEF Innermost
<1>a. \A j \in 1 .. n : j = n \/ j \in 1 .. n - 1
  OBVIOUS
<1>b. \A j \in 1 .. n - 1 : j \in 1 .. n /\ j # n /\ j \in 1 .. Len(fr)
  BY <1>0
<1>1. /\ DepthOf[d] = n /\ r <= Len(Listing[d]) /\ Len(Listing[d]) \in Nat
      /\ Finished(fr, n) = r /\ d \notin DOMAIN out /\ Covers(out, d, r)
  <2>1. DepthOf[d] = n /\ r <= Len(Listing[d])
    BY <1>0, LinkedFacts
  <2>2. Len(Listing[d]) \in Nat
    BY TreeFacts
  <2>3. Finished(fr, n) = r
    BY <1>0 DEF Finished
  <2>4. fr[n].dir \notin DOMAIN out /\ Covers(out, fr[n].dir, Finished(fr, n))
    BY <1>0 DEF Explains
  <2>5. QED BY <1>0, <2>1, <2>2, <2>3, <2>4
<1>3. Grows(out, oot) /\ DOMAIN out \subseteq DOMAIN oot /\ DOMAIN dt \subseteq DOMAIN oot
  BY DEF Explains, Leaves, Cuts, Grows
<1>4. Len(gr) = n - 1 /\ \A j \in 1 .. n - 1 : gr[j] = fr[j]
  BY DEF Pops
<1>c. ASSUME NEW j \in 1 .. n - 1
      PROVE  /\ fr[j].dir # d /\ fr[j].read \in Nat /\ fr[j].read >= 1
             /\ Listing[fr[j].dir][fr[j].read] = fr[j + 1].dir
             /\ Finished(fr, j) = fr[j].read - 1
             /\ fr[j].dir \in Dirs /\ fr[j].read <= Len(Listing[fr[j].dir])
  <2>1. j \in 1 .. Len(fr) /\ j < Len(fr) /\ j # n
    BY <1>0
  <2>2. DepthOf[fr[j].dir] = j /\ fr[j].read \in Nat /\ fr[j].dir \in Dirs
        /\ fr[j].read <= Len(Listing[fr[j].dir])
    BY <2>1, LinkedFacts
  <2>3. fr[j].read >= 1 /\ Listing[fr[j].dir][fr[j].read] = fr[j + 1].dir
    BY <2>1 DEF Linked
  <2>4. Finished(fr, j) = fr[j].read - 1
    BY <2>1 DEF Finished
  <2>5. QED BY <1>1, <2>1, <2>2, <2>3, <2>4
<1>5. ASSUME NEW j \in 1 .. n - 1
      PROVE  /\ j # n - 1 => Finished(gr, j) = Finished(fr, j)
             /\ j = n - 1 => Finished(gr, j) = fr[j].read
  BY <1>0, <1>4, <1>b, <1>c DEF Finished
<1>6. ASSUME NEW j \in 1 .. n - 1
      PROVE  /\ Covers(oot, fr[j].dir, Finished(fr, j))
             /\ Upto(sg, oot, fr[j].dir, Finished(fr, j)) = Upto(sg, out, fr[j].dir, Finished(fr, j))
  <2>1. Covers(out, fr[j].dir, Finished(fr, j))
    BY <1>b DEF Explains
  <2>2. QED BY <1>3, <2>1, GrowsCovers, GrowsUpto
<1>7. ASSUME NEW j \in 1 .. n - 1, j = n - 1
      PROVE  Covers(oot, fr[j].dir, fr[j].read) /\ Listing[fr[j].dir][fr[j].read] = d
  <2>1. Covers(oot, fr[j].dir, fr[j].read - 1)
    BY <1>6, <1>c
  <2>2. Listing[fr[j].dir][fr[j].read] = d
    <3>1. j + 1 = n
      BY <1>7
    <3>2. QED BY <1>0, <1>c, <3>1
  <2>3. d \in DOMAIN oot
    BY DEF Leaves
  <2> DEFINE m == fr[j].read
  <2>4. m \in Nat
    BY <1>c
  <2>5. Covers(oot, fr[j].dir, m - 1) /\ Listing[fr[j].dir][m] = d
    BY <2>1, <2>2
  <2> HIDE DEF m
  <2>6. \A h \in 1 .. m : h = m \/ h \in 1 .. m - 1
    BY <2>4
  <2>7. Covers(oot, fr[j].dir, m)
    BY <2>3, <2>5, <2>6 DEF Covers
  <2>8. QED BY <2>2, <2>7 DEF m
<1>8. ASSUME NEW c \in DOMAIN oot
      PROVE  Covers(oot, c, CountIn(dt, c)) /\ oot[c] = Upto(sg, oot, c, CountIn(dt, c))
  <2>1. CASE c \in DOMAIN out
    <3>1. c # d
      BY <1>1, <2>1
    <3>2. CountIn(dt, c) = CountIn(ct, c)
      BY <3>1 DEF CountIn, Cuts
    <3>3. Covers(out, c, CountIn(ct, c)) /\ out[c] = Upto(sg, out, c, CountIn(ct, c))
      BY <2>1 DEF Explains
    <3>4. Covers(oot, c, CountIn(ct, c))
      BY <1>3, <3>3, GrowsCovers
    <3>5. Upto(sg, oot, c, CountIn(ct, c)) = Upto(sg, out, c, CountIn(ct, c))
      BY <1>3, <3>3, GrowsUpto
    <3>6. oot[c] = out[c]
      BY <1>3, <2>1 DEF Grows
    <3>7. QED BY <3>2, <3>3, <3>4, <3>5, <3>6
  <2>2. CASE c \notin DOMAIN out
    <3>1. c = d /\ oot[d] = Upto(sg, out, d, r)
      BY <2>2 DEF Leaves
    <3>2. CountIn(dt, d) = r
      BY DEF Cuts
    <3>3. Covers(oot, d, r)
      BY <1>1, <1>3, GrowsCovers
    <3>4. Upto(sg, oot, d, r) = Upto(sg, out, d, r)
      BY <1>1, <1>3, GrowsUpto
    <3>5. QED BY <3>1, <3>2, <3>3, <3>4
  <2>3. QED BY <2>1, <2>2
<1>9. ASSUME NEW j \in 1 .. Len(gr)
      PROVE  gr[j].dir \notin DOMAIN oot /\ Covers(oot, gr[j].dir, Finished(gr, j))
  <2>1. j \in 1 .. n - 1 /\ gr[j].dir = fr[j].dir
    BY <1>4
  <2>2. fr[j].dir \notin DOMAIN out
    BY <1>b, <2>1 DEF Explains
  <2>3. fr[j].dir \notin DOMAIN oot
    BY <1>c, <2>1, <2>2 DEF Leaves
  <2>4. Covers(oot, fr[j].dir, Finished(gr, j))
    BY <1>5, <1>6, <1>7, <2>1
  <2>5. QED BY <2>1, <2>3, <2>4
<1>10. ASSUME NEW c \in DOMAIN oot \ {Root}
       PROVE  \/ \E b \in DOMAIN oot : \E h \in 1 .. Len(Listing[b]) : Listing[b][h] = c
              \/ \E j \in 1 .. Len(gr) : \E h \in 1 .. Finished(gr, j) : Listing[gr[j].dir][h] = c
  <2>1. CASE c \in DOMAIN out
    <3>1. CASE \E b \in DOMAIN out : \E h \in 1 .. Len(Listing[b]) : Listing[b][h] = c
      BY <1>3, <3>1
    <3>2. CASE \E j \in 1 .. Len(fr) : \E h \in 1 .. Finished(fr, j) : Listing[fr[j].dir][h] = c
      <4>1. PICK j \in 1 .. Len(fr) : \E h \in 1 .. Finished(fr, j) : Listing[fr[j].dir][h] = c
        BY <3>2
      <4>2. PICK h \in 1 .. Finished(fr, j) : Listing[fr[j].dir][h] = c
        BY <4>1
      <4>3. CASE j = n
        <5>1. h \in 1 .. r /\ Listing[d][h] = c
          BY <1>0, <1>1, <4>2, <4>3
        <5>2. h \in 1 .. Len(Listing[d])
          BY <1>1, <5>1
        <5>3. d \in DOMAIN oot
          BY DEF Leaves
        <5>4. QED BY <5>1, <5>2, <5>3
      <4>4. CASE j # n
        <5>1. j \in 1 .. n - 1 /\ j \in 1 .. Len(gr) /\ gr[j] = fr[j]
          BY <1>0, <1>4, <1>a, <4>4
        <5>2. h \in 1 .. Finished(gr, j)
          <6>1. CASE j # n - 1
            BY <1>5, <5>1, <6>1
          <6>2. CASE j = n - 1
            <7>1. h \in 1 .. fr[j].read - 1 /\ fr[j].read \in Nat
              BY <1>c, <5>1
            <7>2. h \in 1 .. fr[j].read
              BY <7>1
            <7>3. QED BY <1>5, <5>1, <6>2, <7>2
          <6>3. QED BY <6>1, <6>2
        <5>3. QED BY <4>2, <5>1, <5>2
      <4>5. QED BY <4>3, <4>4
    <3>3. QED BY <2>1, <3>1, <3>2 DEF Explains
  <2>2. CASE c \notin DOMAIN out
    <3>1. c = d
      BY <2>2 DEF Leaves
    <3>2. n # 1
      BY <1>0, <3>1 DEF Linked
    <3>3. PICK j \in 1 .. n - 1 : j = n - 1
      BY <3>2
    <3>4. Listing[fr[j].dir][fr[j].read] = d /\ fr[j].read \in 1 .. fr[j].read
      BY <1>7, <1>c, <3>3
    <3>5. j \in 1 .. Len(gr) /\ gr[j].dir = fr[j].dir /\ Finished(gr, j) = fr[j].read
      BY <1>4, <1>5, <3>3
    <3>6. QED BY <3>1, <3>4, <3>5
  <2>3. QED BY <2>1, <2>2
<1>11. gr = <<>> => Root \in DOMAIN oot /\ q = Output(sg, oot, gr)
  <2>1. ASSUME gr = <<>> PROVE Root \in DOMAIN oot /\ q = Output(sg, oot, gr)
    <3>1. n = 1
      <4>1. Len(gr) = 0
        BY <2>1
      <4>2. QED BY <1>4, <4>1
    <3>2. d = Root
      BY <1>0, <3>1 DEF Linked
    <3>3. Root \in DOMAIN oot /\ oot[Root] = Upto(sg, out, d, r)
      <4>1. d \in DOMAIN oot /\ oot[d] = Upto(sg, out, d, r)
        BY DEF Leaves
      <4>2. QED BY <3>2, <4>1
    <3>4. fr # <<>> /\ Len(fr) - 1 = 0
      <4>1. Len(fr) = 1
        BY <1>0, <3>1
      <4>2. fr # <<>>
        BY <1>0
      <4>3. Len(fr) - 1 = 0
        BY <4>1
      <4>4. QED BY <4>2, <4>3
    <3>5. q = Before(sg, out, fr, 0) \o Upto(sg, out, d, r)
      BY <1>0, <3>4 DEF Explains, Output
    <3>6. Upto(sg, out, d, r) \in Seq(Files)
      BY <1>0, PrintedTyped
    <3> DEFINE s == Upto(sg, out, d, r)
    <3> HIDE DEF s
    <3>7. s \in Seq(Files) => <<>> \o s = s
      OBVIOUS
    <3>8. q = Upto(sg, out, d, r)
      BY <3>5, <3>6, <3>7, BeforeZero DEF s
    <3>9. QED BY <2>1, <3>3, <3>8 DEF Output
  <2>2. QED BY <2>1
<1>12. gr # <<>> => q = Output(sg, oot, gr)
  <2>0. SUFFICES ASSUME gr # <<>> PROVE q = Output(sg, oot, gr)
    OBVIOUS
  <2>a. n - 1 \in Nat \ {0}
    <3>1. gr \in Seq(Frame)
      BY DEF Pops
    <3>2. QED BY <1>4, <2>0, <3>1
  <2>b. PICK m \in Nat : m + 1 = n - 1
    <3>1. (n - 1) - 1 \in Nat /\ ((n - 1) - 1) + 1 = n - 1
      BY <2>a
    <3>2. QED BY <3>1
  <2> DEFINE t == m + 1
             b == Before(sg, out, fr, m)
             a == fr[t].dir
             v == fr[t].read
             s == Upto(sg, out, a, v - 1)
             p == Upto(sg, out, d, r)
  <2>c. t \in 1 .. n - 1 /\ t = n - 1 /\ t \in Nat /\ t - 1 = m
    BY <2>b
  <2>1. q = (b \o s) \o p
    <3>1. fr # <<>>
      BY <1>0
    <3>2. q = Output(sg, out, fr)
      BY DEF Explains
    <3>3. q = Before(sg, out, fr, t) \o Upto(sg, out, d, r)
      BY <1>0, <2>c, <3>1, <3>2 DEF Output
    <3>4. CallsTyped(sg, out, fr, t)
      <4>1. CallsTyped(sg, out, fr, n - 1)
        BY <1>0, PrintedTyped
      <4>2. QED BY <2>c, <4>1
    <3>5. t = m + 1
      OBVIOUS
    <3> HIDE DEF t
    <3>6. Before(sg, out, fr, t) = Before(sg, out, fr, m) \o Upto(sg, out, fr[t].dir, fr[t].read - 1)
      BY <3>4, <3>5, BeforeNext
    <3>7. QED BY <3>3, <3>6
  <2>2. b \in Seq(Files) /\ s \in Seq(Files)
    <3>1. CallsTyped(sg, out, fr, n - 1)
      BY <1>0, PrintedTyped
    <3>2. CallsTyped(sg, out, fr, m + 1)
      BY <2>b, <3>1
    <3>3. Before(sg, out, fr, m) \in Seq(Files)
      BY <3>2, BeforeStep
    <3>4. s \in Seq(Files)
      BY <2>c, <3>1 DEF CallsTyped
    <3>5. QED BY <3>3, <3>4
  <2>3. p \in Seq(Files)
    BY <1>0, PrintedTyped
  <2>4. Before(sg, oot, gr, m) = b
    <3>1. \A j \in 1 .. m : Upto(sg, oot, gr[j].dir, gr[j].read - 1)
                              = Upto(sg, out, fr[j].dir, fr[j].read - 1)
      <4>1. ASSUME NEW j \in 1 .. m
            PROVE  Upto(sg, oot, gr[j].dir, gr[j].read - 1)
                     = Upto(sg, out, fr[j].dir, fr[j].read - 1)
        <5>1. j \in 1 .. n - 1
          BY <2>b
        <5>2. gr[j] = fr[j] /\ Finished(fr, j) = fr[j].read - 1
          BY <1>4, <1>c, <5>1
        <5>3. Upto(sg, oot, fr[j].dir, Finished(fr, j)) = Upto(sg, out, fr[j].dir, Finished(fr, j))
          BY <1>6, <5>1
        <5>4. QED BY <5>2, <5>3
      <4>2. QED BY <4>1
    <3>2. QED BY <3>1, BeforeSame
  <2>5. Upto(sg, oot, a, v) = s \o p
    <3>1. /\ a \in Dirs /\ v \in Nat /\ v >= 1 /\ v <= Len(Listing[a])
          /\ Covers(oot, a, v) /\ Listing[a][v] = d
      BY <1>7, <1>c, <2>c
    <3>3. oot \in Outputs
      BY DEF Leaves
    <3>4. Upto(sg, oot, a, v - 1) = s
      <4>1. Upto(sg, oot, fr[t].dir, Finished(fr, t)) = Upto(sg, out, fr[t].dir, Finished(fr, t))
        BY <1>6, <2>c
      <4>2. Finished(fr, t) = v - 1
        BY <1>c, <2>c
      <4>3. QED BY <4>1, <4>2
    <3>5. PartOf(sg, oot, d) = p
      BY DEF PartOf, Leaves
    <3> HIDE DEF s, p, a, v, t
    <3>6. Upto(sg, oot, a, v) = Upto(sg, oot, a, v - 1) \o PartOf(sg, oot, Listing[a][v])
      <4>1. a \in Dirs /\ v \in Nat \ {0} /\ v <= Len(Listing[a]) /\ Covers(oot, a, v)
        BY <3>1
      <4>2. QED BY <3>3, <4>1, UptoLast
    <3>7. QED BY <3>1, <3>4, <3>5, <3>6
  <2>6. Output(sg, oot, gr) = b \o (s \o p)
    <3>1. Len(gr) = t /\ gr[t] = fr[t] /\ t - 1 = m
      BY <1>4, <2>c
    <3> HIDE DEF b, s, p, t
    <3>2. Output(sg, oot, gr) = Before(sg, oot, gr, m) \o Upto(sg, oot, a, v)
      BY <2>0, <3>1 DEF Output
    <3>3. QED BY <2>4, <2>5, <3>2
  <2> HIDE DEF b, s, p
  <2>7. (b \o s) \o p = b \o (s \o p)
    BY <2>2, <2>3, Associates
  <2>8. QED BY <2>1, <2>6, <2>7
<1>13. oot \in Outputs /\ DOMAIN dt \subseteq DOMAIN oot
  BY <1>3 DEF Leaves
<1>14. QED BY <1>8, <1>9, <1>10, <1>11, <1>12, <1>13 DEF Explains

(* What is asked of the j-th call. *)
Link(fr, j) ==
  /\ fr[j].read <= Len(Listing[fr[j].dir])
  /\ DepthOf[fr[j].dir] = j
  /\ j = 1 => fr[j].dir = Root
  /\ j < Len(fr) => fr[j].read >= 1 /\ Listing[fr[j].dir][fr[j].read] = fr[j + 1].dir

LEMMA LinkedIs ==
  ASSUME NEW fr
  PROVE  Linked(fr) <=> fr \in Seq(Frame) /\ \A j \in 1 .. Len(fr) : Link(fr, j)
BY DEF Linked, Link

(* The calls stay linked when the innermost reads an entry. *)
LEMMA AdvanceLinked ==
  ASSUME NEW fr, Linked(fr), NEW n \in Nat \ {0}, NEW d \in Dirs, NEW i \in Nat \ {0},
         NextIs(fr, n, d, i), NEW gr \in Seq(Frame), Advances(fr, gr, n, d, i)
  PROVE  Linked(gr)
<1>1. n = Len(fr) /\ Len(gr) = n /\ fr[n].dir = d /\ i <= Len(Listing[d])
  BY DEF NextIs, Advances
<1>2. /\ \A j \in 1 .. n - 1 : gr[j] = fr[j]
      /\ gr[n].dir = d /\ gr[n].read = i
  BY DEF Advances
<1>3. \A j \in 1 .. n : gr[j].dir = fr[j].dir
  <2>1. \A j \in 1 .. n : j = n \/ j \in 1 .. n - 1
    OBVIOUS
  <2>2. QED BY <1>1, <1>2, <2>1
<1>4. ASSUME NEW j \in 1 .. n PROVE Link(fr, j)
  <2>1. j \in 1 .. Len(fr)
    BY <1>1
  <2>2. QED BY <2>1, LinkedIs
<1>5. ASSUME NEW j \in 1 .. n PROVE Link(gr, j)
  <2>1. CASE j = n
    <3>1. DepthOf[fr[j].dir] = j /\ (j = 1 => fr[j].dir = Root)
      BY <1>4 DEF Link
    <3>2. gr[j].read <= Len(Listing[gr[j].dir]) /\ ~(j < Len(gr))
      BY <1>1, <1>2, <2>1
    <3>3. gr[j].dir = fr[j].dir
      BY <1>3
    <3>4. QED BY <3>1, <3>2, <3>3 DEF Link
  <2>2. CASE j # n
    <3>1. j \in 1 .. n - 1 /\ j + 1 \in 1 .. n /\ j < Len(fr)
      BY <1>1, <2>2
    <3>2. gr[j] = fr[j] /\ gr[j + 1].dir = fr[j + 1].dir
      BY <1>2, <1>3, <3>1
    <3>3. QED BY <1>4, <3>1, <3>2 DEF Link
  <2>3. QED BY <2>1, <2>2
<1>6. QED BY <1>1, <1>5, LinkedIs

(* ... when it calls for that entry ... *)
LEMMA PushLinked ==
  ASSUME NEW fr, Linked(fr), NEW n \in Nat \ {0}, NEW d \in Dirs, NEW i \in Nat \ {0},
         NextIs(fr, n, d, i), NEW e \in Dirs, e = Listing[d][i], DepthOf[e] = n + 1,
         NEW gr \in Seq(Frame), Pushes(fr, gr, n, d, i, e)
  PROVE  Linked(gr)
<1>1. n = Len(fr) /\ Len(gr) = n + 1 /\ fr[n].dir = d /\ i <= Len(Listing[d])
  BY DEF NextIs, Pushes
<1>2. /\ \A j \in 1 .. n - 1 : gr[j] = fr[j]
      /\ gr[n].dir = d /\ gr[n].read = i
      /\ gr[n + 1].dir = e /\ gr[n + 1].read = 0
  BY DEF Pushes
<1>3. \A j \in 1 .. n : gr[j].dir = fr[j].dir
  <2>1. \A j \in 1 .. n : j = n \/ j \in 1 .. n - 1
    OBVIOUS
  <2>2. QED BY <1>1, <1>2, <2>1
<1>4. ASSUME NEW j \in 1 .. n PROVE Link(fr, j)
  <2>1. j \in 1 .. Len(fr)
    BY <1>1
  <2>2. QED BY <2>1, LinkedIs
<1>5. ASSUME NEW j \in 1 .. n + 1 PROVE Link(gr, j)
  <2>1. CASE j = n + 1
    <3>1. Len(Listing[e]) \in Nat
      BY TreeFacts
    <3>2. gr[j].dir = e /\ gr[j].read = 0
      BY <1>2, <2>1
    <3>3. gr[j].read <= Len(Listing[gr[j].dir])
      BY <3>1, <3>2
    <3>4. DepthOf[gr[j].dir] = j /\ j # 1 /\ ~(j < Len(gr))
      BY <1>1, <2>1, <3>2
    <3>5. QED BY <3>3, <3>4 DEF Link
  <2>2. CASE j = n
    <3>1. DepthOf[fr[n].dir] = n /\ (n = 1 => fr[n].dir = Root)
      BY <1>4 DEF Link
    <3>2. gr[n].dir = fr[n].dir
      BY <1>1, <1>2
    <3>3. gr[n].read <= Len(Listing[gr[n].dir]) /\ gr[n].read >= 1
      BY <1>1, <1>2
    <3>4. Listing[gr[n].dir][gr[n].read] = gr[n + 1].dir
      BY <1>2
    <3>5. Link(gr, n)
      BY <3>1, <3>2, <3>3, <3>4 DEF Link
    <3>6. QED BY <2>2, <3>5
  <2>3. CASE j \in 1 .. n - 1
    <3>1. j + 1 \in 1 .. n /\ j < Len(fr) /\ j \in 1 .. n
      BY <1>1, <2>3
    <3>2. gr[j] = fr[j] /\ gr[j + 1].dir = fr[j + 1].dir
      BY <1>2, <1>3, <2>3, <3>1
    <3>3. QED BY <1>4, <3>1, <3>2 DEF Link
  <2>4. QED BY <2>1, <2>2, <2>3
<1>6. QED BY <1>1, <1>5, LinkedIs

(* ... and when it returns. *)
LEMMA PopLinked ==
  ASSUME NEW fr, Linked(fr), NEW n \in Nat \ {0}, n = Len(fr), NEW gr, Pops(fr, gr, n)
  PROVE  Linked(gr)
<1>1. gr \in Seq(Frame) /\ Len(gr) = n - 1 /\ \A j \in 1 .. n - 1 : gr[j] = fr[j]
  BY DEF Pops
<1>2. ASSUME NEW j \in 1 .. n - 1 PROVE Link(gr, j)
  <2>1. j \in 1 .. Len(fr) /\ j < Len(fr)
    OBVIOUS
  <2>2. Link(fr, j)
    BY <2>1, LinkedIs
  <2>3. gr[j] = fr[j]
    BY <1>1
  <2>4. j < Len(gr) => j + 1 \in 1 .. n - 1
    BY <1>1
  <2>5. j < Len(gr) => gr[j + 1] = fr[j + 1]
    BY <1>1, <2>4
  <2>6. QED BY <2>1, <2>2, <2>3, <2>5 DEF Link
<1>3. QED BY <1>1, <1>2, LinkedIs

(* The first call. *)
LEMMA StartLinked ==
  /\ Linked(<<>>)
  /\ \A fr \in Seq(Frame) :
       Len(fr) = 1 /\ fr[1].dir = Root /\ fr[1].read = 0 => Linked(fr)
<1>1. Linked(<<>>)
  <2>1. <<>> \in Seq(Frame) /\ 1 .. Len(<<>>) = {}
    OBVIOUS
  <2>2. \A j \in 1 .. Len(<<>>) : Link(<<>>, j)
    BY <2>1
  <2>3. QED BY <2>1, <2>2 DEF Linked, Link
<1>2. ASSUME NEW fr \in Seq(Frame), Len(fr) = 1, fr[1].dir = Root, fr[1].read = 0
      PROVE  Linked(fr)
  <2>1. Len(Listing[Root]) \in Nat /\ DepthOf[Root] = 1
    BY TreeFacts, DepthFacts
  <2>2. Link(fr, 1)
    BY <1>2, <2>1 DEF Link
  <2>3. ASSUME NEW j \in 1 .. Len(fr) PROVE Link(fr, j)
    <3>1. j = 1
      BY <1>2
    <3>2. QED BY <2>2, <3>1
  <2>4. QED BY <2>3, LinkedIs
<1>3. QED BY <1>1, <1>2

(* Before the first entry, nothing is printed, whether the root is open ... *)
LEMMA StartExplains ==
  ASSUME NEW sg, NEW fr, Len(fr) = 1, fr[1].dir = Root, fr[1].read = 0, fr # <<>>,
         NEW ct, DOMAIN ct = {}
  PROVE  \E out : Explains(sg, out, fr, ct, <<>>)
<1> DEFINE out == [d \in {} |-> <<>>]
<1>1. DOMAIN out = {} /\ out \in Outputs
  BY DEF Outputs
<1>2. ASSUME NEW j \in 1 .. Len(fr)
      PROVE  fr[j].dir \notin DOMAIN out /\ Covers(out, fr[j].dir, Finished(fr, j))
  <2>1. j = 1
    OBVIOUS
  <2>2. Finished(fr, j) = 0
    BY <2>1 DEF Finished
  <2>3. QED BY <1>1, <2>2 DEF Covers
<1>3. Output(sg, out, fr) = <<>>
  <2>1. Output(sg, out, fr) = Before(sg, out, fr, 0) \o Upto(sg, out, fr[1].dir, 0)
    BY DEF Output
  <2>2. Before(sg, out, fr, 0) = <<>> /\ Upto(sg, out, fr[1].dir, 0) = <<>>
    BY BeforeZero, UptoZero
  <2>3. <<>> \o <<>> = <<>>
    OBVIOUS
  <2>4. QED BY <2>1, <2>2, <2>3
<1> HIDE DEF out
<1>4. Explains(sg, out, fr, ct, <<>>)
  BY <1>1, <1>2, <1>3 DEF Explains
<1>5. QED BY <1>4

(* ... or could not be opened. *)
LEMMA RefusedExplains ==
  ASSUME NEW sg, NEW ct, DOMAIN ct = {Root}, ct[Root] = -1
  PROVE  \E out : Explains(sg, out, <<>>, ct, <<>>)
<1> DEFINE out == [d \in {Root} |-> <<>>]
<1>1. DOMAIN out = {Root} /\ out[Root] = <<>> /\ out \in Outputs
  <2>1. <<>> \in Seq(Files) /\ {Root} \in SUBSET Dirs
    BY TreeFacts
  <2>2. out \in [{Root} -> Seq(Files)]
    BY <2>1
  <2>3. QED BY <2>1, <2>2 DEF Outputs
<1>2. CountIn(ct, Root) = 0
  BY DEF CountIn
<1>3. Covers(out, Root, 0) /\ Upto(sg, out, Root, 0) = <<>>
  BY UptoZero DEF Covers
<1>4. Output(sg, out, <<>>) = <<>>
  BY <1>1 DEF Output
<1>5. Len(<<>>) = 0
  OBVIOUS
<1> HIDE DEF out
<1>6. ASSUME NEW d \in DOMAIN out
      PROVE  Covers(out, d, CountIn(ct, d)) /\ out[d] = Upto(sg, out, d, CountIn(ct, d))
  <2>1. d = Root
    BY <1>1
  <2>2. QED BY <1>1, <1>2, <1>3, <2>1
<1>7. DOMAIN out \ {Root} = {} /\ 1 .. 0 = {}
  BY <1>1
<1>8. Explains(sg, out, <<>>, ct, <<>>)
  BY <1>1, <1>4, <1>5, <1>6, <1>7 DEF Explains
<1>9. QED BY <1>8

-----------------------------------------------------------------------------
(* What each step of the walk does to the calls and to what explains them.  *)

(* An entry is left to read: the calls after it is read. *)
LEMMA ReadsNext ==
  ASSUME Linked(frames), frames # <<>>, ~AtEnd
  PROVE  \E n \in Nat \ {0}, d \in Dirs, i \in Nat \ {0} :
           /\ NextIs(frames, n, d, i) /\ Entry = Listing[d][i] /\ n = Len(frames)
           /\ d = Here.dir /\ i \in 1 .. Len(Listing[d])
           /\ Advanced \in Seq(Frame) /\ Advances(frames, Advanced, n, d, i)
<1> DEFINE n == Len(frames)
           d == frames[n].dir
           i == frames[n].read + 1
<1>1. frames \in Seq(Frame) /\ n \in Nat \ {0} /\ n \in 1 .. Len(frames)
  BY DEF Linked
<1>2. Here = frames[n] /\ Here \in Frame
  BY <1>1 DEF Here, Last
<1>3. d \in Dirs /\ frames[n].read \in Nat /\ frames[n].read <= Len(Listing[d])
      /\ Len(Listing[d]) \in Nat
  <2>1. d \in Dirs /\ frames[n].read \in Nat /\ frames[n].read <= Len(Listing[d])
    BY <1>1, LinkedFacts
  <2>2. QED BY <2>1, TreeFacts
<1>4. frames[n].read # Len(Listing[d]) /\ Entry = Listing[d][i] /\ d = Here.dir
  BY <1>2 DEF AtEnd, Entry
<1>5. i \in Nat \ {0} /\ i \in 1 .. Len(Listing[d])
  BY <1>3, <1>4
<1>6. NextIs(frames, n, d, i)
  <2>1. frames[n].read = i - 1 /\ i <= Len(Listing[d])
    BY <1>3, <1>5
  <2>2. QED BY <2>1 DEF NextIs
<1>7. Advanced \in Seq(Frame) /\ Advances(frames, Advanced, n, d, i)
  <2>1. Advanced = [frames EXCEPT ![n] = [frames[n] EXCEPT !.read = i]]
    BY DEF Advanced
  <2>2. [frames[n] EXCEPT !.read = i] \in Frame
        /\ [frames[n] EXCEPT !.read = i].dir = d /\ [frames[n] EXCEPT !.read = i].read = i
    <3>1. frames[n] \in [dir : Dirs, read : Nat]
      BY <1>2 DEF Frame
    <3>2. QED BY <1>5, <3>1 DEF Frame
  <2> DEFINE b == [frames[n] EXCEPT !.read = i]
  <2>3. b \in Frame /\ b.dir = d /\ b.read = i /\ Advanced = [frames EXCEPT ![n] = b]
    BY <2>1, <2>2
  <2> HIDE DEF b
  <2>4. Advanced \in Seq(Frame) /\ Len(Advanced) = n /\ Advanced[n] = b
        /\ \A j \in 1 .. n - 1 : Advanced[j] = frames[j]
    BY <1>1, <2>3
  <2>5. QED BY <2>3, <2>4 DEF Advances
<1> HIDE DEF n, d, i
<1>8. n = Len(frames)
  BY DEF n
<1>9. QED BY <1>1, <1>3, <1>4, <1>5, <1>6, <1>7, <1>8

(* The entry is no directory. *)
LEMMA PassExplains ==
  ASSUME NEW sg \in [Files -> Seq(Files)], NEW out, NEW ct, NEW q,
         Explains(sg, out, frames, ct, q), Linked(frames), frames # <<>>, ~AtEnd,
         Entry \notin Dirs
  PROVE  /\ Linked(Advanced)
         /\ Explains(sg, out, Advanced, ct, q \o PartOf(sg, out, Entry))
<1>1. PICK n \in Nat \ {0}, d \in Dirs, i \in Nat \ {0} :
           /\ NextIs(frames, n, d, i) /\ Entry = Listing[d][i]
           /\ Advanced \in Seq(Frame) /\ Advances(frames, Advanced, n, d, i)
  BY ReadsNext
<1>2. out \in Outputs
  BY DEF Explains
<1>3. {Entry} \cap Dirs = {}
  OBVIOUS
<1>4. Adds(out, out, Entry)
  BY <1>2, <1>3 DEF Adds
<1>5. Refuses(ct, ct, Entry)
  BY <1>3 DEF Refuses
<1>6. Linked(Advanced)
  BY <1>1, AdvanceLinked
<1> DEFINE e == Entry
           gr == Advanced
<1>7. e = Listing[d][i] /\ Advances(frames, gr, n, d, i) /\ Adds(out, out, e) /\ Refuses(ct, ct, e)
  BY <1>1, <1>4, <1>5
<1> HIDE DEF e, gr
<1>8. Explains(sg, out, gr, ct, q \o PartOf(sg, out, e))
  BY <1>1, <1>7, AdvanceExplains
<1>9. QED BY <1>6, <1>8 DEF e, gr

(* What is printed is a sequence of files. *)
LEMMA ExplainedTyped ==
  ASSUME NEW sg \in [Files -> Seq(Files)], NEW out, NEW fr, NEW ct, NEW q,
         Explains(sg, out, fr, ct, q), Linked(fr)
  PROVE  q \in Seq(Files)
<1>1. q = Output(sg, out, fr) /\ out \in Outputs /\ (fr = <<>> => Root \in DOMAIN out)
  BY DEF Explains
<1>2. CASE fr = <<>>
  <2>1. out[Root] \in Seq(Files)
    BY <1>1, <1>2, OutputsAre
  <2>2. QED BY <1>1, <1>2, <2>1 DEF Output
<1>3. CASE fr # <<>>
  <2> DEFINE n == Len(fr)
  <2>1. n \in Nat \ {0} /\ n = Len(fr)
    BY <1>3 DEF Linked
  <2> HIDE DEF n
  <2>2. Before(sg, out, fr, n - 1) \in Seq(Files) /\ Upto(sg, out, fr[n].dir, fr[n].read) \in Seq(Files)
    BY <2>1, PrintedTyped
  <2>3. q = Before(sg, out, fr, n - 1) \o Upto(sg, out, fr[n].dir, fr[n].read)
    BY <1>1, <1>3, <2>1 DEF Output
  <2>4. \A x, y \in Seq(Files) : x \o y \in Seq(Files)
    OBVIOUS
  <2>5. QED BY <2>2, <2>3, <2>4
<1>4. QED BY <1>2, <1>3

(* The entry is a directory that cannot be opened. *)
LEMMA RefuseExplains ==
  ASSUME NEW sg \in [Files -> Seq(Files)], NEW out, NEW ct, NEW dt, NEW q,
         Explains(sg, out, frames, ct, q), Linked(frames), frames # <<>>, ~AtEnd,
         Entry \in Dirs, Refuses(ct, dt, Entry)
  PROVE  /\ Linked(Advanced)
         /\ DepthOf[Entry] = Len(frames) + 1
         /\ \E oot : Explains(sg, oot, Advanced, dt, q)
<1>1. PICK n \in Nat \ {0}, d \in Dirs, i \in Nat \ {0} :
           /\ NextIs(frames, n, d, i) /\ Entry = Listing[d][i] /\ n = Len(frames)
           /\ Advanced \in Seq(Frame) /\ Advances(frames, Advanced, n, d, i)
  BY ReadsNext
<1> DEFINE e == Entry
           gr == Advanced
<1>2. e = Listing[d][i] /\ Advances(frames, gr, n, d, i) /\ Refuses(ct, dt, e) /\ e \in Dirs
  BY <1>1
<1>3. Linked(gr)
  BY <1>1, AdvanceLinked
<1>4. n = Len(frames) /\ NextIs(frames, n, d, i)
  BY <1>1
<1> HIDE DEF e, gr
<1>5. e \notin DOMAIN out /\ DepthOf[e] = n + 1
  <2>1. Listing[d][i] \in Dirs
    BY <1>2
  <2>2. Listing[d][i] \notin DOMAIN out /\ DepthOf[Listing[d][i]] = n + 1
    BY <1>4, <2>1, EntryFresh
  <2>3. QED BY <1>2, <2>2
<1> DEFINE oot == [c \in DOMAIN out \cup {e} |-> IF c = e THEN <<>> ELSE out[c]]
<1>6. Adds(out, oot, e)
  <2>1. out \in Outputs
    BY DEF Explains
  <2>2. DOMAIN out \cup {e} \subseteq Dirs /\ \A c \in DOMAIN out : out[c] \in Seq(Files)
    BY <1>2, <2>1, OutputsAre
  <2>3. <<>> \in Seq(Files)
    OBVIOUS
  <2>4. oot \in [DOMAIN out \cup {e} -> Seq(Files)]
    BY <2>2, <2>3
  <2>5. oot \in Outputs
    BY <2>2, <2>4 DEF Outputs
  <2>6. DOMAIN oot = DOMAIN out \cup ({e} \cap Dirs)
    BY <1>2
  <2>7. QED BY <1>5, <2>5, <2>6 DEF Adds
<1>7. PartOf(sg, oot, e) = <<>>
  BY <1>2 DEF PartOf
<1> HIDE DEF oot
<1>8. Explains(sg, oot, gr, dt, q \o PartOf(sg, oot, e))
  BY <1>2, <1>4, <1>6, AdvanceExplains
<1>9. q \in Seq(Files)
  BY ExplainedTyped
<1>10. q \o <<>> = q
  BY <1>9
<1>11. Explains(sg, oot, gr, dt, q)
  BY <1>7, <1>8, <1>10
<1>12. QED BY <1>3, <1>4, <1>5, <1>11 DEF e, gr

(* The entry is a directory that is opened. *)
LEMMA OpenExplains ==
  ASSUME NEW sg \in [Files -> Seq(Files)], NEW out, NEW ct, NEW q,
         Explains(sg, out, frames, ct, q), Linked(frames), frames # <<>>, ~AtEnd,
         Entry \in Dirs, NEW gr, gr = Append(Advanced, [dir |-> Entry, read |-> 0])
  PROVE  /\ Linked(gr) /\ Len(gr) = Len(frames) + 1
         /\ Explains(sg, out, gr, ct, q)
<1>1. PICK n \in Nat \ {0}, d \in Dirs, i \in Nat \ {0} :
           /\ NextIs(frames, n, d, i) /\ Entry = Listing[d][i] /\ n = Len(frames)
           /\ Advanced \in Seq(Frame) /\ Advances(frames, Advanced, n, d, i)
  BY ReadsNext
<1> DEFINE e == Entry
           ad == Advanced
           b == [dir |-> e, read |-> 0]
<1>2. e = Listing[d][i] /\ Advances(frames, ad, n, d, i) /\ e \in Dirs /\ ad \in Seq(Frame)
  BY <1>1
<1>3. b \in Frame /\ b.dir = e /\ b.read = 0 /\ gr = Append(ad, b)
  BY <1>2 DEF Frame
<1>4. n = Len(frames) /\ NextIs(frames, n, d, i)
  BY <1>1
<1> HIDE DEF e, ad, b
<1>5. DepthOf[e] = n + 1
  <2>1. Listing[d][i] \in Dirs
    BY <1>2
  <2>2. DepthOf[Listing[d][i]] = n + 1
    BY <1>4, <2>1, EntryFresh
  <2>3. QED BY <1>2, <2>2
<1>6. gr \in Seq(Frame) /\ Pushes(frames, gr, n, d, i, e)
  <2>1. Len(ad) = n /\ (\A j \in 1 .. n - 1 : ad[j] = frames[j]) /\ ad[n].dir = d /\ ad[n].read = i
    BY <1>2 DEF Advances
  <2>2. gr \in Seq(Frame) /\ Len(gr) = n + 1 /\ gr[n + 1] = b /\ \A j \in 1 .. n : gr[j] = ad[j]
    <3>1. /\ Append(ad, b) \in Seq(Frame) /\ Len(Append(ad, b)) = Len(ad) + 1
          /\ Append(ad, b)[Len(ad) + 1] = b /\ \A j \in 1 .. Len(ad) : Append(ad, b)[j] = ad[j]
      BY <1>2, <1>3, AppendFacts
    <3>2. gr = Append(ad, b) /\ Len(ad) = n
      BY <1>3, <2>1
    <3>3. QED BY <3>1, <3>2
  <2>3. \A j \in 1 .. n - 1 : gr[j] = frames[j]
    <3>1. \A j \in 1 .. n - 1 : j \in 1 .. n
      OBVIOUS
    <3>2. QED BY <2>1, <2>2, <3>1
  <2>4. gr[n] = ad[n]
    BY <2>2
  <2>5. QED BY <1>3, <2>1, <2>2, <2>3, <2>4 DEF Pushes
<1>7. Linked(gr)
  BY <1>2, <1>4, <1>5, <1>6, PushLinked
<1>8. Explains(sg, out, gr, ct, q)
  BY <1>2, <1>4, <1>6, PushExplains
<1>9. Len(gr) = Len(frames) + 1
  BY <1>4, <1>6 DEF Pushes
<1>10. QED BY <1>7, <1>8, <1>9

(* The innermost call returns. *)
LEMMA ReturnExplains ==
  ASSUME NEW sg \in [Files -> Seq(Files)], NEW out, NEW q,
         Explains(sg, out, frames, cut, q), Linked(frames), frames # <<>>
  PROVE  /\ Linked(Front(frames)) /\ Len(Front(frames)) = Len(frames) - 1
         /\ \E oot : Explains(sg, oot, Front(frames), CutHere, q)
<1> DEFINE n == Len(frames)
           d == frames[n].dir
           r == frames[n].read
           gr == Front(frames)
           dt == CutHere
<1>1. frames \in Seq(Frame) /\ n \in Nat \ {0} /\ n \in 1 .. Len(frames) /\ n = Len(frames)
  BY DEF Linked
<1>2. d \in Dirs /\ r \in Nat /\ r <= Len(Listing[d]) /\ Finished(frames, n) = r
  BY <1>1, LinkedFacts DEF Finished
<1>3. Here.dir = d /\ Here.read = r
  BY DEF Here, Last
<1>4. d \notin DOMAIN out /\ DOMAIN cut \subseteq DOMAIN out /\ out \in Outputs
  BY <1>1 DEF Explains
<1>5. Pops(frames, gr, n)
  <2>1. gr = SubSeq(frames, 1, n - 1)
    BY DEF Front
  <2>2. \A s \in Seq(Frame) : \A m \in 0 .. Len(s) :
          /\ SubSeq(s, 1, m) \in Seq(Frame) /\ Len(SubSeq(s, 1, m)) = m
          /\ \A j \in 1 .. m : SubSeq(s, 1, m)[j] = s[j]
    OBVIOUS
  <2>3. n - 1 \in 0 .. Len(frames)
    BY <1>1
  <2> HIDE DEF n, gr
  <2>4. gr \in Seq(Frame) /\ Len(gr) = n - 1 /\ \A j \in 1 .. n - 1 : gr[j] = frames[j]
    BY <1>1, <2>1, <2>2, <2>3
  <2>5. QED BY <2>4 DEF Pops
<1>6. Innermost(frames, n, d, r)
  BY DEF Innermost
<1>7. Cuts(cut, dt, d, r)
  <2>1. d \notin DOMAIN cut
    BY <1>4
  <2>2. CASE AtEnd
    <3>1. dt = cut /\ r = Len(Listing[d])
      BY <1>3, <2>2 DEF CutHere, AtEnd
    <3>2. CountIn(dt, d) = r
      BY <2>1, <3>1 DEF CountIn
    <3>3. QED BY <3>1, <3>2 DEF Cuts
  <2>3. CASE ~AtEnd
    <3>1. dt = [c \in DOMAIN cut \cup {d} |-> IF c = d THEN r ELSE cut[c]]
      BY <1>3, <2>3 DEF CutHere
    <3> HIDE DEF dt
    <3>2. DOMAIN dt = DOMAIN cut \cup {d} /\ dt[d] = r /\ \A c \in DOMAIN cut : c # d => dt[c] = cut[c]
      BY <3>1
    <3>3. CountIn(dt, d) = r
      <4>1. d \in DOMAIN dt /\ ~(dt[d] < 0)
        BY <1>2, <3>2
      <4>2. QED BY <3>2, <4>1 DEF CountIn
    <3>4. QED BY <3>2, <3>3 DEF Cuts
  <2>4. QED BY <2>2, <2>3
<1> DEFINE u == Upto(sg, out, d, r)
           oot == [c \in DOMAIN out \cup {d} |-> IF c = d THEN u ELSE out[c]]
<1>8. u \in Seq(Files)
  <2> HIDE DEF n
  <2>1. Upto(sg, out, frames[n].dir, frames[n].read) \in Seq(Files)
    BY <1>1, PrintedTyped
  <2>2. QED BY <2>1
<1>9. Leaves(out, oot, sg, d, r)
  <2>1. DOMAIN out \cup {d} \subseteq Dirs /\ \A c \in DOMAIN out : out[c] \in Seq(Files)
    BY <1>2, <1>4, OutputsAre
  <2> HIDE DEF u, d, r
  <2>2. oot \in [DOMAIN out \cup {d} -> Seq(Files)]
    BY <1>8, <2>1
  <2>3. oot \in Outputs
    BY <2>1, <2>2 DEF Outputs
  <2>4. oot[d] = u /\ \A c \in DOMAIN out : oot[c] = out[c]
    BY <1>4
  <2>5. oot[d] = Upto(sg, out, d, r)
    BY <2>4 DEF u
  <2> HIDE DEF oot
  <2>6. DOMAIN oot = DOMAIN out \cup {d}
    BY DEF oot
  <2>7. QED BY <2>3, <2>4, <2>5, <2>6 DEF Leaves
<1> HIDE DEF n, d, r, gr, dt, u, oot
<1>10. Linked(gr)
  BY <1>1, <1>5, PopLinked
<1>11. Explains(sg, oot, gr, dt, q)
  BY <1>1, <1>2, <1>5, <1>6, <1>7, <1>9, PopExplains
<1>12. Len(gr) = Len(frames) - 1
  BY <1>1, <1>5 DEF Pops
<1>13. QED BY <1>10, <1>11, <1>12 DEF gr, dt

(* What the files printed for certain are, and that the walk explains them. *)
Certains(q) == FlattenSeq([i \in 1 .. Len(q) |-> Certain(q[i])])

Explained(fr, ct, q) == \E out : Explains(Signeds, out, fr, ct, Certains(q))

LEMMA CertainsEmpty == Certains(<<>>) = <<>>
<1>1. [i \in 1 .. Len(<<>>) |-> Certain(<<>>[i])] \in Seq(Seq({}))
      /\ Len([i \in 1 .. Len(<<>>) |-> Certain(<<>>[i])]) = 0
  <2>1. 1 .. Len(<<>>) = {}
    OBVIOUS
  <2> DEFINE f(i) == Certain(<<>>[i])
  <2> HIDE DEF f
  <2>2. [i \in 1 .. Len(<<>>) |-> f(i)] = [i \in {} |-> f(i)]
    BY <2>1
  <2>3. [i \in {} |-> f(i)] = <<>>
    OBVIOUS
  <2>4. <<>> \in Seq(Seq({})) /\ Len(<<>>) = 0
    OBVIOUS
  <2>5. QED BY <2>2, <2>3, <2>4 DEF f
<1>2. QED BY <1>1, FlattenEmpty DEF Certains

LEMMA CertainsAppend ==
  ASSUME NEW q \in Seq(Files), NEW f \in Files
  PROVE  Certains(Append(q, f)) = Certains(q) \o Certain(f)
<1> DEFINE m == Len(q)
           ss == [i \in 1 .. m |-> Certain(q[i])]
           p == Append(q, f)
           rr == [i \in 1 .. Len(p) |-> Certain(p[i])]
<1>1. m \in Nat /\ Len(p) = m + 1 /\ p[m + 1] = f /\ \A i \in 1 .. m : p[i] = q[i] /\ q[i] \in Files
  OBVIOUS
<1>2. \A g \in Files : Certain(g) \in Seq(Files)
  BY DEF Certain
<1>3. ss \in Seq(Seq(Files)) /\ Len(ss) = m
  BY <1>1, <1>2
<1> HIDE DEF p, m
<1>4. \A i \in 1 .. m : ss[i] = rr[i]
  <2>1. \A i \in 1 .. m : i \in 1 .. Len(p)
    BY <1>1
  <2>2. QED BY <1>1, <2>1
<1>5. rr[m + 1] = Certain(f) /\ m + 1 \in 1 .. Len(p)
  BY <1>1
<1>6. rr \in Seq(Seq(Files)) /\ Len(rr) = m + 1
  <2>1. \A i \in 1 .. m + 1 : p[i] \in Files
    <3>1. \A i \in 1 .. m + 1 : i = m + 1 \/ i \in 1 .. m
      BY <1>1
    <3>2. QED BY <1>1, <3>1
  <2>2. \A i \in 1 .. m + 1 : Certain(p[i]) \in Seq(Files)
    BY <1>2, <2>1
  <2>3. QED BY <1>1, <2>2
<1> HIDE DEF ss, rr
<1>7. rr = Append(ss, Certain(f))
  <2> DEFINE s == Certain(f)
  <2>0. s \in Seq(Files)
    BY <1>2
  <2> HIDE DEF s
  <2>1. Append(ss, s) \in Seq(Seq(Files)) /\ Len(Append(ss, s)) = m + 1
        /\ (\A i \in 1 .. m : Append(ss, s)[i] = ss[i]) /\ Append(ss, s)[m + 1] = s
    BY <1>3, <2>0, AppendFacts
  <2>2. \A i \in 1 .. m + 1 : rr[i] = Append(ss, s)[i]
    <3>1. \A i \in 1 .. m + 1 : i = m + 1 \/ i \in 1 .. m
      BY <1>1
    <3>2. QED BY <1>4, <1>5, <2>1, <3>1 DEF s
  <2> DEFINE S == Seq(Files)
  <2>3. rr \in Seq(S) /\ Append(ss, s) \in Seq(S)
    BY <1>6, <2>1
  <2> HIDE DEF S
  <2>4. rr = Append(ss, s)
    BY <1>6, <2>1, <2>2, <2>3
  <2>5. QED BY <2>4 DEF s
<1>8. FlattenSeq(Append(ss, Certain(f))) = FlattenSeq(ss) \o Certain(f)
  BY <1>2, <1>3, FlattenAppend
<1>9. QED BY <1>7, <1>8 DEF Certains, ss, rr, p, m

-----------------------------------------------------------------------------
(* The invariant of the walk: what is printed is what the directories whose *)
(* calls have returned contribute, and what the entries before the one each *)
(* open call is at do.  A descriptor is open for each call, and a call's    *)
(* directory is as deep in the tree as the call is.                         *)
WalkTyped ==
  /\ kind \in [Files -> FileKinds]
  /\ Linked(frames)
  /\ descriptors = Len(frames) /\ descriptors <= MaxOpen
  /\ printed \in Seq(Files)
  /\ CutTyped(cut)

WalkRefuses == \A d \in DOMAIN cut : cut[d] = -1 /\ d \notin locked => DepthOf[d] > MaxOpen

WalkCrashes == walk = "crashed" /\ kind[Entry] # "unreadable" => DepthOf[Here.dir] = MaxOpen

WalkExplained ==
  /\ walk = "start" => frames = <<>> /\ printed = <<>> /\ DOMAIN cut = {}
  /\ walk # "start" => Explained(frames, cut, printed)
  /\ walk = "done" => frames = <<>>

WalkInv == WalkTyped /\ WalkRefuses /\ WalkCrashes /\ WalkExplained

(* What is explained depends on the kinds of the files, which do not change.*)
LEMMA StillExplained ==
  ASSUME kind' = kind, Explained(frames', cut', printed')
  PROVE  Explained(frames, cut, printed)'
<1>1. Certains(printed)' = Certains(printed')
  BY DEF Certains, Certain
<1>2. Signeds' = Signeds
  BY DEF Signeds, Signed
<1>3. QED BY <1>1, <1>2 DEF Explained

LEMMA WalkStarts == WalkInit => WalkInv
<1> SUFFICES ASSUME WalkInit PROVE WalkInv
  OBVIOUS
<1>1. /\ frames = <<>> /\ printed = <<>> /\ cut = <<>> /\ walk = "start" /\ descriptors = 0
      /\ kind \in [Files -> FileKinds]
  BY DEF WalkInit
<1>2. Len(<<>>) = 0 /\ <<>> \in Seq(Files) /\ DOMAIN <<>> = {}
  OBVIOUS
<1>3. 0 <= MaxOpen
  BY TreeFacts
<1>4. CutTyped(cut)
  BY <1>1, <1>2 DEF CutTyped
<1>5. WalkTyped
  BY <1>1, <1>2, <1>3, <1>4, StartLinked DEF WalkTyped
<1>6. WalkRefuses /\ WalkCrashes /\ WalkExplained
  BY <1>1, <1>2 DEF WalkRefuses, WalkCrashes, WalkExplained
<1>7. QED BY <1>5, <1>6 DEF WalkInv

LEMMA CertainsTyped ==
  ASSUME NEW q \in Seq(Files)
  PROVE  Certains(q) \in Seq(Files)
<1>1. \A i \in 1 .. Len(q) : Certain(q[i]) \in Seq(Files)
  BY DEF Certain
<1>2. [i \in 1 .. Len(q) |-> Certain(q[i])] \in Seq(Seq(Files))
  BY <1>1
<1>3. QED BY <1>2, FlattenTyped DEF Certains

(* The history of a directory that is refused. *)
LEMMA RefusedCut ==
  ASSUME CutTyped(cut), WalkRefuses, NEW d \in Dirs,
         d \in locked \/ DepthOf[d] > MaxOpen, UNCHANGED locked,
         cut' = [e \in DOMAIN cut \cup {d} |-> IF e = d THEN -1 ELSE cut[e]]
  PROVE  CutTyped(cut)' /\ WalkRefuses' /\ Refuses(cut, cut', d)
<1>1. DOMAIN cut' = DOMAIN cut \cup {d} /\ cut'[d] = -1
      /\ \A e \in DOMAIN cut : e # d => cut'[e] = cut[e]
  OBVIOUS
<1>2. Len(Listing[d]) \in Nat
  BY TreeFacts
<1>3. CutTyped(cut')
  <2>1. DOMAIN cut' \subseteq Dirs
    BY <1>1 DEF CutTyped
  <2>2. ASSUME NEW e \in DOMAIN cut'
        PROVE  cut'[e] \in Int /\ -1 <= cut'[e] /\ cut'[e] <= Len(Listing[e])
    <3>1. CASE e = d
      BY <1>1, <1>2, <3>1
    <3>2. CASE e # d
      BY <1>1, <3>2 DEF CutTyped
    <3>3. QED BY <3>1, <3>2
  <2>3. QED BY <2>1, <2>2 DEF CutTyped
<1>4. WalkRefuses'
  <2>1. ASSUME NEW e \in DOMAIN cut', cut'[e] = -1, e \notin locked'
        PROVE  DepthOf[e] > MaxOpen
    <3>1. CASE e = d
      BY <2>1, <3>1
    <3>2. CASE e # d
      BY <1>1, <2>1, <3>2 DEF WalkRefuses
    <3>3. QED BY <3>1, <3>2
  <2>2. QED BY <2>1 DEF WalkRefuses
<1>5. Refuses(cut, cut', d)
  <2>1. {d} \cap Dirs = {d}
    OBVIOUS
  <2>2. QED BY <1>1, <2>1 DEF Refuses
<1>6. QED BY <1>3, <1>4, <1>5 DEF CutTyped

LEMMA StartWalkStep == WalkInv /\ StartWalk => WalkInv'
<1> SUFFICES ASSUME WalkInv, StartWalk PROVE WalkInv'
  OBVIOUS
<1>1. /\ walk = "start" /\ walk' = "walking" /\ CheckDirectory(Root, <<>>)
      /\ kind' = kind /\ locked' = locked /\ printed' = printed
  BY DEF StartWalk
<1>2. /\ frames = <<>> /\ printed = <<>> /\ DOMAIN cut = {} /\ kind \in [Files -> FileKinds]
      /\ descriptors = 0 /\ CutTyped(cut) /\ WalkRefuses /\ printed \in Seq(Files)
  <2>1. Len(<<>>) = 0
    OBVIOUS
  <2>2. QED BY <1>1, <2>1 DEF WalkInv, WalkTyped, WalkExplained
<1>3. WalkCrashes'
  BY <1>1 DEF WalkCrashes
<1>4. Root \in Dirs /\ MaxOpen \in Nat /\ DepthOf[Root] = 1 /\ Len(<<>>) = 0
  BY TreeFacts, DepthFacts
<1>5. CASE Root \in locked \/ descriptors = MaxOpen
  <2>1. frames' = <<>> /\ descriptors' = 0
        /\ cut' = [e \in DOMAIN cut \cup {Root} |-> IF e = Root THEN -1 ELSE cut[e]]
    BY <1>1, <1>2, <1>5 DEF CheckDirectory
  <2>2. Root \in locked \/ DepthOf[Root] > MaxOpen
    BY <1>2, <1>4, <1>5
  <2>3. CutTyped(cut)' /\ WalkRefuses'
    BY <1>1, <1>2, <1>4, <2>1, <2>2, RefusedCut
  <2>4. DOMAIN cut' = {Root} /\ cut'[Root] = -1
    BY <1>2, <2>1
  <2>5. Explained(frames', cut', printed')
    <3>1. \E out : Explains(Signeds, out, <<>>, cut', <<>>)
      BY <2>4, RefusedExplains
    <3>2. QED BY <1>1, <1>2, <2>1, <3>1, CertainsEmpty DEF Explained
  <2>6. Explained(frames, cut, printed)'
    BY <1>1, <2>5, StillExplained
  <2>7. WalkTyped'
    BY <1>1, <1>2, <1>4, <2>1, <2>3, StartLinked DEF WalkTyped
  <2>8. QED BY <1>1, <1>3, <2>3, <2>6, <2>7 DEF WalkInv, WalkExplained
<1>6. CASE ~(Root \in locked \/ descriptors = MaxOpen)
  <2> DEFINE b == [dir |-> Root, read |-> 0]
  <2>1. frames' = Append(<<>>, b) /\ descriptors' = 1 /\ cut' = cut
    BY <1>1, <1>2, <1>6 DEF CheckDirectory
  <2>2. b \in Frame /\ b.dir = Root /\ b.read = 0
    BY <1>4 DEF Frame
  <2> HIDE DEF b
  <2>3. frames' \in Seq(Frame) /\ Len(frames') = 1 /\ frames'[1] = b /\ frames' # <<>>
    BY <2>1, <2>2
  <2>4. Linked(frames')
    BY <2>2, <2>3, StartLinked
  <2>5. Explained(frames', cut', printed')
    <3>1. DOMAIN cut' = {}
      BY <1>2, <2>1
    <3>2. \E out : Explains(Signeds, out, frames', cut', <<>>)
      <4>1. frames'[1].dir = Root /\ frames'[1].read = 0
        BY <2>2, <2>3
      <4>2. QED BY <2>3, <3>1, <4>1, StartExplains
    <3>3. QED BY <1>1, <1>2, <3>2, CertainsEmpty DEF Explained
  <2>6. Explained(frames, cut, printed)'
    BY <1>1, <2>5, StillExplained
  <2>7. WalkTyped'
    <3>1. 1 <= MaxOpen
      BY <1>2, <1>4, <1>6
    <3>2. QED BY <1>1, <1>2, <2>1, <2>3, <2>4, <3>1 DEF WalkTyped, CutTyped, Linked, Link
  <2>8. WalkRefuses'
    BY <1>1, <1>2, <2>1 DEF WalkRefuses
  <2>9. QED BY <1>1, <1>3, <2>6, <2>7, <2>8 DEF WalkInv, WalkExplained
<1>7. QED BY <1>5, <1>6

(* An entry that is no directory. *)
LEMMA PassStep ==
  ASSUME WalkInv, Walking, ~AtEnd, Entry \notin Dirs, frames' = Advanced,
         kind' = kind, locked' = locked, walk' = walk, descriptors' = descriptors, cut' = cut,
         printed' \in Seq(Files),
         Certains(printed') = Certains(printed) \o PartOf(Signeds, <<>>, Entry)
  PROVE  WalkInv'
<1>1. /\ Linked(frames) /\ frames # <<>> /\ walk = "walking" /\ Explained(frames, cut, printed)
  BY DEF WalkInv, WalkTyped, WalkExplained, Walking
<1>2. PICK out : Explains(Signeds, out, frames, cut, Certains(printed))
  BY <1>1 DEF Explained
<1>3. PartOf(Signeds, out, Entry) = PartOf(Signeds, <<>>, Entry)
  BY DEF PartOf
<1>4. /\ Linked(Advanced)
      /\ Explains(Signeds, out, Advanced, cut, Certains(printed) \o PartOf(Signeds, out, Entry))
  BY <1>1, <1>2, SignedsTyped, PassExplains
<1>5. Explained(frames', cut', printed')
  <2>1. Explains(Signeds, out, frames', cut', Certains(printed'))
    BY <1>3, <1>4
  <2>2. QED BY <2>1 DEF Explained
<1>6. Explained(frames, cut, printed)'
  BY <1>5, StillExplained
<1>7. Len(frames') = Len(frames)
  BY <1>1, ReadsNext DEF Advances
<1>8. WalkTyped'
  BY <1>4, <1>7 DEF WalkInv, WalkTyped, CutTyped, Linked, Link
<1>9. WalkRefuses' /\ WalkCrashes'
  BY <1>1 DEF WalkInv, WalkRefuses, WalkCrashes
<1>10. QED BY <1>1, <1>6, <1>8, <1>9 DEF WalkInv, WalkExplained

LEMMA SkipEntryStep == WalkInv /\ SkipEntry => WalkInv'
<1> SUFFICES ASSUME WalkInv, SkipEntry PROVE WalkInv'
  OBVIOUS
<1>1. /\ Walking /\ ~AtEnd /\ frames' = Advanced
      /\ Entry \in Dots \/ (Entry \in Files /\ kind[Entry] = "special")
      /\ kind' = kind /\ locked' = locked /\ walk' = walk /\ descriptors' = descriptors
      /\ printed' = printed /\ cut' = cut
  BY DEF SkipEntry
<1>2. Entry \notin Dirs /\ printed \in Seq(Files)
  BY <1>1, TreeFacts DEF Files, WalkInv, WalkTyped
<1>3. PartOf(Signeds, <<>>, Entry) = <<>>
  <2>1. CASE Entry \in Dots
    BY <1>2, <2>1 DEF PartOf
  <2>2. CASE Entry \in Files /\ kind[Entry] = "special"
    <3>1. Entry \notin Dots
      BY <2>2 DEF Files
    <3>2. Signeds[Entry] = <<>>
      BY <2>2 DEF Signeds, Signed
    <3>3. QED BY <1>2, <3>1, <3>2 DEF PartOf
  <2>3. QED BY <1>1, <2>1, <2>2
<1>4. Certains(printed) \in Seq(Files)
  BY CertainsTyped, <1>2
<1>5. Certains(printed') = Certains(printed) \o PartOf(Signeds, <<>>, Entry)
  BY <1>1, <1>3, <1>4
<1>6. QED BY <1>1, <1>2, <1>5, PassStep

LEMMA CheckFileStep == WalkInv /\ CheckFile => WalkInv'
<1> SUFFICES ASSUME WalkInv, CheckFile PROVE WalkInv'
  OBVIOUS
<1>1. /\ Walking /\ ~AtEnd /\ frames' = Advanced /\ Entry \in Files
      /\ \/ kind[Entry] \in {"png", "short"} /\ printed' = Append(printed, Entry)
         \/ kind[Entry] # "png" /\ printed' = printed
      /\ kind' = kind /\ locked' = locked /\ walk' = walk /\ descriptors' = descriptors
      /\ cut' = cut
  BY DEF CheckFile
<1>2. Entry \notin Dirs /\ Entry \notin Dots /\ printed \in Seq(Files)
  BY <1>1 DEF Files, WalkInv, WalkTyped
<1>3. PartOf(Signeds, <<>>, Entry) = Signed(Entry)
  BY <1>1, <1>2 DEF PartOf, Signeds
<1>4. Certains(printed) \in Seq(Files)
  BY CertainsTyped, <1>2
<1> DEFINE f == Entry
<1>5. f \in Files
  BY <1>1
<1>6. CASE kind[f] \in {"png", "short"} /\ printed' = Append(printed, f)
  <2>1. Certain(f) = Signed(f)
    BY <1>6 DEF Certain, Signed
  <2> HIDE DEF f
  <2>2. Certains(printed') = Certains(printed) \o Certain(f) /\ printed' \in Seq(Files)
    BY <1>2, <1>5, <1>6, CertainsAppend
  <2>3. QED BY <1>1, <1>2, <1>3, <2>1, <2>2, PassStep DEF f
<1>7. CASE kind[f] # "png" /\ printed' = printed
  <2>1. Signed(f) = <<>>
    BY <1>7 DEF Signed
  <2>2. Certains(printed') = Certains(printed) \o PartOf(Signeds, <<>>, Entry)
    BY <1>3, <1>4, <1>7, <2>1
  <2>3. QED BY <1>1, <1>2, <1>7, <2>2, PassStep
<1>8. QED BY <1>1, <1>6, <1>7

LEMMA EnterDirectoryStep == WalkInv /\ EnterDirectory => WalkInv'
<1> SUFFICES ASSUME WalkInv, EnterDirectory PROVE WalkInv'
  OBVIOUS
<1>1. /\ Walking /\ ~AtEnd /\ Entry \in Dirs /\ CheckDirectory(Entry, Advanced)
      /\ kind' = kind /\ locked' = locked /\ walk' = walk /\ printed' = printed
  BY DEF EnterDirectory
<1>2. /\ Linked(frames) /\ frames # <<>> /\ walk = "walking" /\ Explained(frames, cut, printed)
      /\ descriptors = Len(frames) /\ descriptors <= MaxOpen /\ CutTyped(cut) /\ WalkRefuses
      /\ Len(frames) \in Nat /\ MaxOpen \in Nat
  BY <1>1, TreeFacts DEF WalkInv, WalkTyped, WalkExplained, Walking, Linked
<1>3. PICK out : Explains(Signeds, out, frames, cut, Certains(printed))
  BY <1>2 DEF Explained
<1>4. WalkCrashes'
  BY <1>1, <1>2 DEF WalkCrashes
<1>5. CASE Entry \in locked \/ descriptors = MaxOpen
  <2> DEFINE e == Entry
  <2>1. frames' = Advanced /\ descriptors' = descriptors /\ e \in Dirs
        /\ cut' = [d \in DOMAIN cut \cup {e} |-> IF d = e THEN -1 ELSE cut[d]]
    BY <1>1, <1>5 DEF CheckDirectory
  <2>2. DepthOf[e] = Len(frames) + 1
    <3>1. \E n \in Nat \ {0}, d \in Dirs, i \in Nat \ {0} :
            NextIs(frames, n, d, i) /\ Entry = Listing[d][i] /\ n = Len(frames)
      BY <1>1, <1>2, ReadsNext
    <3>2. QED BY <1>1, <1>2, <1>3, <3>1, EntryFresh
  <2>3. e \in locked \/ DepthOf[e] > MaxOpen
    BY <1>2, <1>5, <2>2
  <2> HIDE DEF e
  <2>4. CutTyped(cut)' /\ WalkRefuses' /\ Refuses(cut, cut', e)
    BY <1>1, <1>2, <2>1, <2>3, RefusedCut
  <2>5. /\ Linked(Advanced)
        /\ \E oot : Explains(Signeds, oot, Advanced, cut', Certains(printed))
    BY <1>1, <1>2, <1>3, <2>4, SignedsTyped, RefuseExplains DEF e
  <2>6. Explained(frames', cut', printed')
    BY <1>1, <2>1, <2>5 DEF Explained
  <2>7. Explained(frames, cut, printed)'
    BY <1>1, <2>6, StillExplained
  <2>8. Len(frames') = Len(frames)
    BY <1>1, <1>2, <2>1, ReadsNext DEF Advances
  <2>9. WalkTyped'
    BY <1>1, <1>2, <2>1, <2>4, <2>5, <2>8 DEF WalkInv, WalkTyped, Linked, Link
  <2>10. QED BY <1>1, <1>2, <1>4, <2>4, <2>7, <2>9 DEF WalkInv, WalkExplained
<1>6. CASE ~(Entry \in locked \/ descriptors = MaxOpen)
  <2>1. frames' = Append(Advanced, [dir |-> Entry, read |-> 0]) /\ descriptors' = descriptors + 1
        /\ cut' = cut
    BY <1>1, <1>6 DEF CheckDirectory
  <2>2. /\ Linked(frames') /\ Len(frames') = Len(frames) + 1
        /\ Explains(Signeds, out, frames', cut, Certains(printed))
    BY <1>1, <1>2, <1>3, <2>1, SignedsTyped, OpenExplains
  <2>3. Explained(frames', cut', printed')
    BY <1>1, <2>1, <2>2 DEF Explained
  <2>4. Explained(frames, cut, printed)'
    BY <1>1, <2>3, StillExplained
  <2>5. descriptors' = Len(frames') /\ descriptors' <= MaxOpen
    BY <1>2, <1>6, <2>1, <2>2
  <2>6. WalkTyped'
    BY <1>1, <1>2, <2>1, <2>2, <2>5 DEF WalkInv, WalkTyped, CutTyped, Linked, Link
  <2>7. WalkRefuses'
    BY <1>1, <1>2, <2>1 DEF WalkRefuses
  <2>8. QED BY <1>1, <1>2, <1>4, <2>4, <2>6, <2>7 DEF WalkInv, WalkExplained
<1>7. QED BY <1>5, <1>6

LEMMA CloseDirectoryStep == WalkInv /\ CloseDirectory => WalkInv'
<1> SUFFICES ASSUME WalkInv, CloseDirectory PROVE WalkInv'
  OBVIOUS
<1>1. /\ Walking /\ cut' = CutHere /\ frames' = Front(frames) /\ descriptors' = descriptors - 1
      /\ kind' = kind /\ locked' = locked /\ walk' = walk /\ printed' = printed
  BY DEF CloseDirectory
<1>2. /\ Linked(frames) /\ frames # <<>> /\ walk = "walking" /\ Explained(frames, cut, printed)
      /\ descriptors = Len(frames) /\ descriptors <= MaxOpen /\ CutTyped(cut) /\ WalkRefuses
      /\ Len(frames) \in Nat \ {0} /\ MaxOpen \in Nat /\ frames \in Seq(Frame)
  BY <1>1, TreeFacts DEF WalkInv, WalkTyped, WalkExplained, Walking, Linked
<1>3. PICK out : Explains(Signeds, out, frames, cut, Certains(printed))
  BY <1>2 DEF Explained
<1>4. /\ Linked(frames') /\ Len(frames') = Len(frames) - 1
      /\ \E oot : Explains(Signeds, oot, frames', cut', Certains(printed))
  BY <1>1, <1>2, <1>3, SignedsTyped, ReturnExplains
<1>5. Explained(frames', cut', printed')
  BY <1>1, <1>4 DEF Explained
<1>6. Explained(frames, cut, printed)'
  BY <1>1, <1>5, StillExplained
<1>7. WalkCrashes'
  BY <1>1, <1>2 DEF WalkCrashes
<1> DEFINE d == Here.dir
           r == Here.read
<1>8. d \in Dirs /\ r \in Nat /\ r <= Len(Listing[d])
  <2>1. Here = frames[Len(frames)]
    BY DEF Here, Last
  <2>2. Len(frames) \in 1 .. Len(frames)
    BY <1>2
  <2>3. QED BY <1>2, <2>1, <2>2, LinkedFacts
<1>9. cut' = cut \/ cut' = [e \in DOMAIN cut \cup {d} |-> IF e = d THEN r ELSE cut[e]]
  BY <1>1 DEF CutHere
<1> HIDE DEF d, r
<1>10. ASSUME NEW e \in DOMAIN cut'
       PROVE  (e \in DOMAIN cut /\ cut'[e] = cut[e]) \/ (e = d /\ cut'[e] = r)
  BY <1>9
<1>11. CutTyped(cut')
  <2>1. ASSUME NEW e \in DOMAIN cut'
        PROVE  e \in Dirs /\ cut'[e] \in Int /\ -1 <= cut'[e] /\ cut'[e] <= Len(Listing[e])
    BY <1>2, <1>8, <1>10 DEF CutTyped
  <2>2. QED BY <2>1 DEF CutTyped
<1>12. WalkRefuses'
  <2>1. ASSUME NEW e \in DOMAIN cut', cut'[e] = -1, e \notin locked
        PROVE  DepthOf[e] > MaxOpen
    BY <1>2, <1>8, <1>10, <2>1 DEF WalkRefuses
  <2>2. QED BY <1>1, <2>1 DEF WalkRefuses
<1>13. WalkTyped'
  <2>1. descriptors' = Len(frames') /\ descriptors' <= MaxOpen
    BY <1>1, <1>2, <1>4
  <2>2. QED BY <1>1, <1>4, <1>11, <2>1 DEF WalkInv, WalkTyped, CutTyped, Linked, Link
<1>14. QED BY <1>1, <1>2, <1>6, <1>7, <1>12, <1>13 DEF WalkInv, WalkExplained

(* The steps that end the program or main's call. *)
LEMMA EndStep ==
  ASSUME WalkInv, walk = "walking", walk' \in {"crashed", "exited", "done"},
         walk' = "done" => frames = <<>>,
         walk' = "crashed" /\ kind[Entry] # "unreadable" => DepthOf[Here.dir] = MaxOpen,
         UNCHANGED <<kind, locked, frames, descriptors, printed, cut>>
  PROVE  WalkInv'
<1>1. kind' = kind /\ locked' = locked /\ frames' = frames /\ descriptors' = descriptors
      /\ printed' = printed /\ cut' = cut
  OBVIOUS
<1>2. Explained(frames', cut', printed')
  BY <1>1 DEF WalkInv, WalkExplained
<1>3. Explained(frames, cut, printed)'
  BY <1>1, <1>2, StillExplained
<1>4. WalkTyped'
  BY <1>1 DEF WalkInv, WalkTyped, CutTyped, Linked, Link
<1>5. WalkRefuses'
  BY <1>1 DEF WalkInv, WalkRefuses
<1>6. WalkCrashes'
  BY <1>1 DEF WalkCrashes, Entry, Here
<1>7. QED BY <1>1, <1>3, <1>4, <1>5, <1>6 DEF WalkInv, WalkExplained

LEMMA CheckFileCrashesStep == WalkInv /\ CheckFileCrashes => WalkInv'
<1> SUFFICES ASSUME WalkInv, CheckFileCrashes PROVE WalkInv'
  OBVIOUS
<1>1. /\ walk = "walking" /\ frames # <<>> /\ walk' = "crashed"
      /\ kind[Entry] = "unreadable" \/ descriptors = MaxOpen
      /\ UNCHANGED <<kind, locked, frames, descriptors, printed, cut>>
  BY DEF CheckFileCrashes, Walking
<1>2. Linked(frames) /\ descriptors = Len(frames)
  BY DEF WalkInv, WalkTyped
<1>3. Here = frames[Len(frames)] /\ Len(frames) \in 1 .. Len(frames)
  BY <1>1, <1>2 DEF Here, Last, Linked
<1>4. DepthOf[Here.dir] = Len(frames)
  BY <1>2, <1>3, LinkedFacts
<1>5. QED BY <1>1, <1>2, <1>4, EndStep

(* Every step keeps the invariant. *)
LEMMA WalkStep == WalkInv /\ [WalkNext]_walk_vars => WalkInv'
<1> SUFFICES ASSUME WalkInv, [WalkNext]_walk_vars PROVE WalkInv'
  OBVIOUS
<1>1. CASE StartWalk
  BY <1>1, StartWalkStep
<1>2. CASE EnterDirectory
  BY <1>2, EnterDirectoryStep
<1>3. CASE SkipEntry
  BY <1>3, SkipEntryStep
<1>4. CASE CheckFile
  BY <1>4, CheckFileStep
<1>5. CASE CheckFileCrashes
  BY <1>5, CheckFileCrashesStep
<1>6. CASE CloseDirectory
  BY <1>6, CloseDirectoryStep
<1>7. CASE CloseFails
  BY <1>7, EndStep DEF CloseFails, Walking
<1>8. CASE EndWalk
  BY <1>8, EndStep DEF EndWalk
<1>9. CASE UNCHANGED walk_vars
  <2>1. kind' = kind /\ locked' = locked /\ frames' = frames /\ descriptors' = descriptors
        /\ printed' = printed /\ cut' = cut /\ walk' = walk
    BY <1>9 DEF walk_vars
  <2>2. walk # "start" => Explained(frames', cut', printed')
    BY <2>1 DEF WalkInv, WalkExplained
  <2>3. walk # "start" => Explained(frames, cut, printed)'
    BY <2>1, <2>2, StillExplained
  <2>4. WalkTyped' /\ WalkRefuses' /\ WalkCrashes'
    BY <2>1 DEF WalkInv, WalkTyped, WalkRefuses, WalkCrashes, CutTyped, Linked, Link, Entry, Here
  <2>5. QED BY <2>1, <2>3, <2>4 DEF WalkInv, WalkExplained
<1>10. QED BY <1>1, <1>2, <1>3, <1>4, <1>5, <1>6, <1>7, <1>8, <1>9 DEF WalkNext

(* A walk that is over has printed what is below the root. *)
LEMMA WalkIsRight == WalkInv => PrintsThePngs
<1> SUFFICES ASSUME WalkInv PROVE PrintsThePngs
  OBVIOUS
<1>1. WalkRefuses /\ WalkCrashes
  BY DEF WalkInv
<1>2. ASSUME walk = "done" PROVE Certains(printed) = PngsBelow[Root]
  <2>1. frames = <<>> /\ Explained(frames, cut, printed) /\ CutTyped(cut)
    BY <1>2 DEF WalkInv, WalkTyped, WalkExplained
  <2>2. PICK out : Explains(Signeds, out, <<>>, cut, Certains(printed))
    BY <2>1 DEF Explained
  <2>3. Root \in DOMAIN out /\ out \in Outputs
        /\ \A d \in DOMAIN out :
             Covers(out, d, CountIn(cut, d)) /\ out[d] = Upto(Signeds, out, d, CountIn(cut, d))
    BY <2>2 DEF Explains
  <2>4. Certains(printed) = out[Root]
    BY <2>2 DEF Explains, Output
  <2>5. Solves(Signeds, cut, Dirs, PngsBelow)
    BY <2>1, PngsBelowIs
  <2> DEFINE F == DOMAIN out
  <2>6. F \in SUBSET Dirs
    BY <2>3, OutputsAre
  <2>7. \A d \in F : out[d] = Upto(Signeds, out, d, CountIn(cut, d))
    BY <2>3
  <2>8. \A d \in F : \A i \in 1 .. CountIn(cut, d) : Listing[d][i] \in Dirs => Listing[d][i] \in F
    BY <2>3 DEF Covers
  <2> HIDE DEF F
  <2>9. \A d \in F : out[d] = PngsBelow[d]
    BY <2>1, <2>5, <2>6, <2>7, <2>8, OutputIsSolution
  <2>10. QED BY <2>3, <2>4, <2>9 DEF F
<1>3. QED BY <1>1, <1>2 DEF PrintsThePngs, WalkRefuses, WalkCrashes, Certains

(* findpng prints the PNG files of all it reads, each once and in the order *)
(* of the tree, and reads all that the limit on descriptors lets it read:   *)
(* PrintsThePngs, for every tree of directories and whatever opendir and    *)
(* readdir refuse.                                                          *)
THEOREM WalkPrintsAll == WalkSpec => []PrintsThePngs
<1>1. WalkSpec => []WalkInv
  BY WalkStarts, WalkStep, PTL DEF WalkSpec
<1>2. QED BY <1>1, WalkIsRight, PTL
=============================================================================
