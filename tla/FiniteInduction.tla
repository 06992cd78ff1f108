-------------------------- MODULE FiniteInduction --------------------------
(***************************************************************************)
(* Induction over finite sets and what follows from it: what the sums of   *)
(* the community modules compute, and that finite sets of integers have a  *)
(* greatest and a least element.  The code sums quantities on loan and     *)
(* hours worked and looks for the last reading before a year; the proofs   *)
(* about its models cite these lemmas.                                     *)
(*                                                                         *)
(* The induction theorems of the library take a predicate as a parameter.  *)
(* Here the predicate is a set, and a smallest counterexample is taken     *)
(* from its complement (WFMin).                                            *)
(***************************************************************************)
EXTENDS Integers, FiniteSetsExt, FiniteSetTheorems, TLAPS

\* A family of sets that holds a subset of a finite set as soon as it holds all
\* its proper subsets holds all of them.
LEMMA SubsetInduction ==
    ASSUME NEW S, IsFiniteSet(S), NEW F,
           \A T \in SUBSET S : (\A U \in SUBSET T : U # T => U \in F) => T \in F
    PROVE  \A T \in SUBSET S : T \in F
<1> DEFINE Bad == (SUBSET S) \ F
<1>1. SUFFICES ASSUME Bad # {}
               PROVE  FALSE
    OBVIOUS
<1>2. Bad \subseteq FiniteSubsetsOf(S)
    BY FS_FiniteSubsetsOfFinite
<1>3. IsWellFoundedOn(StrictSubsetOrdering(S), FiniteSubsetsOf(S))
    BY FS_StrictSubsetOrderingWellFounded
<1>4. \E T \in Bad : \A U \in Bad : ~(<<U, T>> \in StrictSubsetOrdering(S))
    <2> HIDE DEF Bad
    <2> QED BY <1>1, <1>2, <1>3, WFMin
<1>5. PICK T \in Bad : \A U \in Bad : ~(<<U, T>> \in StrictSubsetOrdering(S))
    BY <1>4
<1>6. \A U \in SUBSET T : U # T => U \in F
    BY <1>5 DEF StrictSubsetOrdering
<1>7. QED BY <1>5, <1>6

\* A set that holds 0 and with every number its successor holds all of them.
LEMMA SuccessorInduction ==
    ASSUME NEW F, 0 \in F, \A n \in Nat : n \in F => n + 1 \in F
    PROVE  Nat \subseteq F
<1> DEFINE Bad == Nat \ F
<1> DEFINE Less == {ss \in Nat \X Nat : ss[1] < ss[2]}
<1>1. SUFFICES ASSUME Bad # {}
               PROVE  FALSE
    OBVIOUS
<1>2. IsWellFoundedOn(Less, Nat)
    BY NatLessThanWellFounded DEF OpToRel
<1>3. \E n \in Bad : \A m \in Bad : ~(<<m, n>> \in Less)
    <2>1. Bad \subseteq Nat
        OBVIOUS
    <2> HIDE DEF Bad, Less
    <2> QED BY <1>1, <1>2, <2>1, WFMin
<1>4. PICK n \in Bad : \A m \in Bad : ~(m < n)
    BY <1>3
<1>5. n # 0 /\ n - 1 \in Nat /\ n - 1 < n
    OBVIOUS
<1>6. n - 1 \in F
    BY <1>4, <1>5
<1>7. (n - 1) + 1 \in F
    BY <1>5, <1>6
<1>8. QED BY <1>7

-----------------------------------------------------------------------------
\* The element the sum takes first.
First(s) == CHOOSE x \in s : TRUE

SumEquation(g, f, D) ==
    g = [s \in D |-> IF s = {} THEN 0 ELSE f[First(s)] + g[s \ {First(s)}]]

Upto(S, n) == {s \in SUBSET S : Cardinality(s) <= n}

\* The function the sum is defined by exists: on the sets of at most n elements,
\* for every n.
LEMMA SumExists ==
    ASSUME NEW f, NEW S, IsFiniteSet(S)
    PROVE  \E g : SumEquation(g, f, SUBSET S)
<1> DEFINE F == {n \in Nat : \E g : SumEquation(g, f, Upto(S, n))}
<1>1. 0 \in F
    <2>1. Upto(S, 0) = {{}}
        <3>1. \A s \in SUBSET S : IsFiniteSet(s) /\ Cardinality(s) \in Nat
            BY FS_Subset, FS_CardinalityType
        <3>2. \A s \in SUBSET S : Cardinality(s) <= 0 <=> s = {}
            BY <3>1, FS_EmptySet
        <3>3. QED BY <3>2 DEF Upto
    <2> DEFINE g == [s \in {{}} |-> 0]
    <2>2. SumEquation(g, f, Upto(S, 0))
        BY <2>1 DEF SumEquation
    <2>3. QED BY <2>2
<1>2. ASSUME NEW n \in Nat, n \in F
      PROVE  n + 1 \in F
    <2>1. PICK g : SumEquation(g, f, Upto(S, n))
        BY <1>2
    <2> DEFINE h == [s \in Upto(S, n + 1) |->
                       IF s = {} THEN 0 ELSE f[First(s)] + g[s \ {First(s)}]]
    <2>2. ASSUME NEW s \in Upto(S, n + 1), s # {}
          PROVE  h[s \ {First(s)}] = g[s \ {First(s)}]
        <3> DEFINE t == s \ {First(s)}
        <3>1. First(s) \in s
            BY <2>2 DEF First
        <3>2. IsFiniteSet(s) /\ Cardinality(s) \in Nat /\ Cardinality(s) <= n + 1
            BY FS_Subset, FS_CardinalityType DEF Upto
        <3>3. Cardinality(t) = Cardinality(s) - 1
            BY <3>1, <3>2, FS_RemoveElement
        <3>4. t \in Upto(S, n) /\ t \in Upto(S, n + 1)
            BY <3>2, <3>3 DEF Upto
        <3>5. g[t] = IF t = {} THEN 0 ELSE f[First(t)] + g[t \ {First(t)}]
            BY <2>1, <3>4 DEF SumEquation
        <3>6. h[t] = IF t = {} THEN 0 ELSE f[First(t)] + g[t \ {First(t)}]
            BY <3>4
        <3>7. QED BY <3>5, <3>6
    <2>3. SumEquation(h, f, Upto(S, n + 1))
        BY <2>2 DEF SumEquation
    <2>4. QED BY <2>3
<1>3. Nat \subseteq F
    <2> HIDE DEF F
    <2> QED BY <1>1, <1>2, SuccessorInduction
<1>4. Cardinality(S) \in Nat /\ Upto(S, Cardinality(S)) = SUBSET S
    BY FS_Subset, FS_CardinalityType DEF Upto
<1>5. QED BY <1>3, <1>4

SumFunctionOf(f, S) == CHOOSE g : SumEquation(g, f, SUBSET S)

LEMMA SumUnfold ==
    ASSUME NEW f, NEW S
    PROVE  SumFunctionOnSet(f, S) = SumFunctionOf(f, S)[S]
BY DEF SumFunctionOnSet, FoldFunctionOnSet, MapThenFoldSet, SumEquation, First, SumFunctionOf

LEMMA SumDefined ==
    ASSUME NEW f, NEW S, IsFiniteSet(S), NEW T \in SUBSET S
    PROVE  SumFunctionOf(f, S)[T] =
             IF T = {} THEN 0 ELSE f[First(T)] + SumFunctionOf(f, S)[T \ {First(T)}]
<1>1. SumEquation(SumFunctionOf(f, S), f, SUBSET S)
    BY SumExists DEF SumFunctionOf
<1>2. QED BY <1>1 DEF SumEquation

\* The sum over a subset is the same whichever set it is computed in.
LEMMA SumWithin ==
    ASSUME NEW f, NEW S, IsFiniteSet(S), NEW T \in SUBSET S
    PROVE  SumFunctionOf(f, S)[T] = SumFunctionOnSet(f, T)
<1> DEFINE F == {U \in SUBSET T : SumFunctionOf(f, S)[U] = SumFunctionOf(f, T)[U]}
<1>1. IsFiniteSet(T)
    BY FS_Subset
<1>2. ASSUME NEW U \in SUBSET T, \A V \in SUBSET U : V # U => V \in F
      PROVE  U \in F
    <2>1. CASE U = {}
        BY <1>1, <2>1, SumDefined
    <2>2. CASE U # {}
        <3>1. First(U) \in U
            BY <2>2 DEF First
        <3>2. U \ {First(U)} \in F
            BY <1>2, <3>1
        <3>3. U \in SUBSET S
            OBVIOUS
        <3>4. /\ SumFunctionOf(f, S)[U] = f[First(U)] + SumFunctionOf(f, S)[U \ {First(U)}]
              /\ SumFunctionOf(f, T)[U] = f[First(U)] + SumFunctionOf(f, T)[U \ {First(U)}]
            BY <1>1, <2>2, <3>3, SumDefined
        <3>5. QED BY <3>2, <3>4
    <2>3. QED BY <2>1, <2>2
<1>3. \A U \in SUBSET T : U \in F
    <2> HIDE DEF F
    <2> QED BY <1>1, <1>2, SubsetInduction
<1>4. QED BY <1>3, SumUnfold

\* The sum over no element is 0.
LEMMA SumEmpty ==
    ASSUME NEW f
    PROVE  SumFunctionOnSet(f, {}) = 0
BY FS_EmptySet, SumUnfold, SumDefined

LEMMA SumFirst ==
    ASSUME NEW f, NEW S, IsFiniteSet(S), S # {}
    PROVE  SumFunctionOnSet(f, S) = f[First(S)] + SumFunctionOnSet(f, S \ {First(S)})
<1>1. SumFunctionOf(f, S)[S] = f[First(S)] + SumFunctionOf(f, S)[S \ {First(S)}]
    BY SumDefined
<1>2. QED BY <1>1, SumUnfold, SumWithin

\* A sum of integers is an integer.
LEMMA SumType ==
    ASSUME NEW f, NEW S, IsFiniteSet(S), \A x \in S : f[x] \in Int
    PROVE  SumFunctionOnSet(f, S) \in Int
<1> DEFINE F == {T \in SUBSET S : SumFunctionOnSet(f, T) \in Int}
<1>1. ASSUME NEW T \in SUBSET S, \A U \in SUBSET T : U # T => U \in F
      PROVE  T \in F
    <2>1. CASE T = {}
        BY <2>1, SumEmpty
    <2>2. CASE T # {}
        <3>1. First(T) \in T /\ IsFiniteSet(T)
            BY <2>2, FS_Subset DEF First
        <3>2. T \ {First(T)} \in F
            BY <1>1, <3>1
        <3>3. QED BY <2>2, <3>1, <3>2, SumFirst
    <2>3. QED BY <2>1, <2>2
<1>2. \A T \in SUBSET S : T \in F
    <2> HIDE DEF F
    <2> QED BY <1>1, SubsetInduction
<1>3. QED BY <1>2

\* Any element can be taken first.
LEMMA SumRemove ==
    ASSUME NEW f, NEW S, IsFiniteSet(S), \A x \in S : f[x] \in Int
    PROVE  \A e \in S : SumFunctionOnSet(f, S) = f[e] + SumFunctionOnSet(f, S \ {e})
<1> DEFINE F == {T \in SUBSET S : \A e \in T :
                   SumFunctionOnSet(f, T) = f[e] + SumFunctionOnSet(f, T \ {e})}
<1>1. ASSUME NEW T \in SUBSET S, \A U \in SUBSET T : U # T => U \in F
      PROVE  T \in F
    <2>1. SUFFICES ASSUME NEW e \in T
                   PROVE  SumFunctionOnSet(f, T) = f[e] + SumFunctionOnSet(f, T \ {e})
        OBVIOUS
    <2> DEFINE c == First(T)
    <2>2. c \in T /\ IsFiniteSet(T)
        BY <2>1, FS_Subset DEF First
    <2>3. SumFunctionOnSet(f, T) = f[c] + SumFunctionOnSet(f, T \ {c})
        BY <2>1, <2>2, SumFirst
    <2>4. CASE c = e
        BY <2>3, <2>4
    <2>5. CASE c # e
        <3>1. T \ {c} \in F /\ T \ {e} \in F
            BY <1>1, <2>2
        <3>2. SumFunctionOnSet(f, T \ {c}) = f[e] + SumFunctionOnSet(f, (T \ {c}) \ {e})
            BY <2>5, <3>1
        <3>3. SumFunctionOnSet(f, T \ {e}) = f[c] + SumFunctionOnSet(f, (T \ {e}) \ {c})
            BY <2>2, <2>5, <3>1
        <3>4. (T \ {c}) \ {e} = (T \ {e}) \ {c}
            OBVIOUS
        <3>5. /\ IsFiniteSet((T \ {e}) \ {c})
              /\ \A x \in (T \ {e}) \ {c} : f[x] \in Int
            BY FS_Subset
        <3>6. SumFunctionOnSet(f, (T \ {e}) \ {c}) \in Int
            BY <3>5, SumType
        <3>7. f[c] \in Int /\ f[e] \in Int
            BY <2>2
        <3>8. SumFunctionOnSet(f, T \ {e}) = f[c] + SumFunctionOnSet(f, (T \ {c}) \ {e})
            BY <3>3, <3>4
        <3> DEFINE rest == SumFunctionOnSet(f, (T \ {c}) \ {e})
        <3>9. rest \in Int
            BY <3>4, <3>6
        <3>10. /\ SumFunctionOnSet(f, T) = f[c] + (f[e] + rest)
               /\ SumFunctionOnSet(f, T \ {e}) = f[c] + rest
            BY <2>3, <3>2, <3>8
        <3> HIDE DEF c, rest
        <3>11. QED BY <3>7, <3>9, <3>10
    <2>6. QED BY <2>4, <2>5
<1>2. \A T \in SUBSET S : T \in F
    <2> HIDE DEF F
    <2> QED BY <1>1, SubsetInduction
<1>3. QED BY <1>2

\* Sums of equal numbers are equal.
LEMMA SumEqual ==
    ASSUME NEW f, NEW g, NEW S, IsFiniteSet(S), \A x \in S : f[x] = g[x]
    PROVE  SumFunctionOnSet(f, S) = SumFunctionOnSet(g, S)
<1> DEFINE F == {T \in SUBSET S : SumFunctionOnSet(f, T) = SumFunctionOnSet(g, T)}
<1>1. ASSUME NEW T \in SUBSET S, \A U \in SUBSET T : U # T => U \in F
      PROVE  T \in F
    <2>1. CASE T = {}
        BY <2>1, SumEmpty
    <2>2. CASE T # {}
        <3>1. First(T) \in T /\ IsFiniteSet(T)
            BY <2>2, FS_Subset DEF First
        <3>2. T \ {First(T)} \in F
            BY <1>1, <3>1
        <3>3. QED BY <2>2, <3>1, <3>2, SumFirst
    <2>3. QED BY <2>1, <2>2
<1>2. \A T \in SUBSET S : T \in F
    <2> HIDE DEF F
    <2> QED BY <1>1, SubsetInduction
<1>3. QED BY <1>2

\* A sum of natural numbers is a natural number.
LEMMA SumNatural ==
    ASSUME NEW f, NEW S, IsFiniteSet(S), \A x \in S : f[x] \in Nat
    PROVE  SumFunctionOnSet(f, S) \in Nat
<1> DEFINE F == {T \in SUBSET S : SumFunctionOnSet(f, T) \in Nat}
<1>1. ASSUME NEW T \in SUBSET S, \A U \in SUBSET T : U # T => U \in F
      PROVE  T \in F
    <2>1. CASE T = {}
        BY <2>1, SumEmpty
    <2>2. CASE T # {}
        <3>1. First(T) \in T /\ IsFiniteSet(T)
            BY <2>2, FS_Subset DEF First
        <3>2. T \ {First(T)} \in F
            BY <1>1, <3>1
        <3>3. QED BY <2>2, <3>1, <3>2, SumFirst
    <2>3. QED BY <2>1, <2>2
<1>2. \A T \in SUBSET S : T \in F
    <2> HIDE DEF F
    <2> QED BY <1>1, SubsetInduction
<1>3. QED BY <1>2

\* A new element adds its number.
LEMMA SumAdd ==
    ASSUME NEW f, NEW S, IsFiniteSet(S), NEW e, e \notin S, \A x \in S \cup {e} : f[x] \in Int
    PROVE  SumFunctionOnSet(f, S \cup {e}) = f[e] + SumFunctionOnSet(f, S)
<1>1. IsFiniteSet(S \cup {e}) /\ (S \cup {e}) \ {e} = S
    BY FS_AddElement
<1>2. SumFunctionOnSet(f, S \cup {e}) = f[e] + SumFunctionOnSet(f, (S \cup {e}) \ {e})
    BY <1>1, SumRemove
<1>3. QED BY <1>1, <1>2

\* Adding up sums term by term.
LEMMA SumPlus ==
    ASSUME NEW f, NEW g, NEW h, NEW S, IsFiniteSet(S),
           \A x \in S : f[x] \in Int /\ g[x] \in Int /\ h[x] = f[x] + g[x]
    PROVE  SumFunctionOnSet(h, S) = SumFunctionOnSet(f, S) + SumFunctionOnSet(g, S)
<1> DEFINE F == {T \in SUBSET S :
                   SumFunctionOnSet(h, T) = SumFunctionOnSet(f, T) + SumFunctionOnSet(g, T)}
<1>1. ASSUME NEW T \in SUBSET S, \A U \in SUBSET T : U # T => U \in F
      PROVE  T \in F
    <2>1. CASE T = {}
        BY <2>1, SumEmpty
    <2>2. CASE T # {}
        <3> DEFINE c == First(T)
        <3>1. c \in T /\ IsFiniteSet(T) /\ IsFiniteSet(T \ {c})
            BY <2>2, FS_Subset, FS_RemoveElement DEF First
        <3>2. T \ {c} \in F
            BY <1>1, <3>1
        <3>3. /\ SumFunctionOnSet(f, T) = f[c] + SumFunctionOnSet(f, T \ {c})
              /\ SumFunctionOnSet(g, T) = g[c] + SumFunctionOnSet(g, T \ {c})
              /\ SumFunctionOnSet(h, T) = h[c] + SumFunctionOnSet(h, T \ {c})
            BY <2>2, <3>1, SumFirst
        <3>4. SumFunctionOnSet(f, T \ {c}) \in Int
            BY <3>1, SumType
        <3>5. SumFunctionOnSet(g, T \ {c}) \in Int
            BY <3>1, SumType
        <3>6. SumFunctionOnSet(h, T \ {c}) =
                 SumFunctionOnSet(f, T \ {c}) + SumFunctionOnSet(g, T \ {c})
            BY <3>2
        <3>7. f[c] \in Int /\ g[c] \in Int /\ h[c] = f[c] + g[c]
            BY <3>1
        <3> HIDE DEF c, F
        <3>8. SumFunctionOnSet(h, T) = SumFunctionOnSet(f, T) + SumFunctionOnSet(g, T)
            BY <3>3, <3>4, <3>5, <3>6, <3>7
        <3>9. QED BY <3>8 DEF F
    <2>3. QED BY <2>1, <2>2
<1>2. \A T \in SUBSET S : T \in F
    <2> HIDE DEF F
    <2> QED BY <1>1, SubsetInduction
<1>3. QED BY <1>2

\* A sum of zeros is zero.
LEMMA SumZero ==
    ASSUME NEW f, NEW S, IsFiniteSet(S), \A x \in S : f[x] = 0
    PROVE  SumFunctionOnSet(f, S) = 0
<1> DEFINE F == {T \in SUBSET S : SumFunctionOnSet(f, T) = 0}
<1>1. ASSUME NEW T \in SUBSET S, \A U \in SUBSET T : U # T => U \in F
      PROVE  T \in F
    <2>1. CASE T = {}
        BY <2>1, SumEmpty
    <2>2. CASE T # {}
        <3>1. First(T) \in T /\ IsFiniteSet(T)
            BY <2>2, FS_Subset DEF First
        <3>2. T \ {First(T)} \in F
            BY <1>1, <3>1
        <3>3. QED BY <2>2, <3>1, <3>2, SumFirst
    <2>3. QED BY <2>1, <2>2
<1>2. \A T \in SUBSET S : T \in F
    <2> HIDE DEF F
    <2> QED BY <1>1, SubsetInduction
<1>3. QED BY <1>2

\* The sum over two sets without a common element is the sum of their sums.
LEMMA SumApart ==
    ASSUME NEW f, NEW S, IsFiniteSet(S), NEW T, IsFiniteSet(T), S \cap T = {},
           \A x \in S \cup T : f[x] \in Int
    PROVE  SumFunctionOnSet(f, S \cup T) = SumFunctionOnSet(f, S) + SumFunctionOnSet(f, T)
<1> DEFINE F == {U \in SUBSET T :
                   SumFunctionOnSet(f, S \cup U) = SumFunctionOnSet(f, S) + SumFunctionOnSet(f, U)}
<1>0. SumFunctionOnSet(f, S) \in Int
    BY SumType
<1>1. ASSUME NEW U \in SUBSET T, \A V \in SUBSET U : V # U => V \in F
      PROVE  U \in F
    <2>1. CASE U = {}
        <3>1. S \cup U = S
            BY <2>1
        <3>2. QED BY <1>0, <2>1, <3>1, SumEmpty
    <2>2. CASE U # {}
        <3> DEFINE c == First(U)
                   V == U \ {c}
        <3>1. c \in U
            BY <2>2 DEF First
        <3>2. V \in F
            BY <1>1, <3>1
        <3>3. /\ IsFiniteSet(U) /\ IsFiniteSet(V) /\ IsFiniteSet(S \cup U)
              /\ \A x \in V : f[x] \in Int
              /\ \A x \in S \cup U : f[x] \in Int
            BY FS_Subset, FS_Union
        <3>4. (S \cup U) \ {c} = S \cup V /\ c \in S \cup U
            BY <3>1
        <3>5. SumFunctionOnSet(f, V) \in Int /\ f[c] \in Int
            BY <3>1, <3>3, SumType
        <3>6. SumFunctionOnSet(f, U) = f[c] + SumFunctionOnSet(f, V)
            BY <2>2, <3>3, SumFirst
        <3>7. SumFunctionOnSet(f, S \cup U) = f[c] + SumFunctionOnSet(f, S \cup V)
            <4> HIDE DEF c, V, F
            <4>1. \A e \in S \cup U :
                     SumFunctionOnSet(f, S \cup U) = f[e] + SumFunctionOnSet(f, (S \cup U) \ {e})
                BY ONLY <3>3, SumRemove
            <4>2. QED BY <3>4, <4>1
        <3>8. SumFunctionOnSet(f, S \cup V) = SumFunctionOnSet(f, S) + SumFunctionOnSet(f, V)
            BY <3>2
        <3> HIDE DEF c, V
        <3>9. QED BY <1>0, <3>5, <3>6, <3>7, <3>8
    <2>3. QED BY <2>1, <2>2
<1>2. \A U \in SUBSET T : U \in F
    <2> HIDE DEF F
    <2> QED BY <1>1, SubsetInduction
<1>3. QED BY <1>2
-----------------------------------------------------------------------------
\* A finite set of integers has a greatest element, which Max chooses, and a
\* least one, which Min chooses.
LEMMA Extrema ==
    ASSUME NEW S, IsFiniteSet(S), S \subseteq Int, S # {}
    PROVE  /\ Max(S) \in S /\ \A y \in S : y <= Max(S)
           /\ Min(S) \in S /\ \A y \in S : Min(S) <= y
<1> DEFINE F == {T \in SUBSET S : T # {} => /\ \E x \in T : \A y \in T : x >= y
                                           /\ \E x \in T : \A y \in T : x <= y}
<1>1. ASSUME NEW T \in SUBSET S, \A U \in SUBSET T : U # T => U \in F
      PROVE  T \in F
    <2>1. SUFFICES ASSUME T # {}
                   PROVE  /\ \E x \in T : \A y \in T : x >= y
                          /\ \E x \in T : \A y \in T : x <= y
        OBVIOUS
    <2>2. PICK e \in T : TRUE
        BY <2>1
    <2>3. CASE T \ {e} = {}
        BY <2>2, <2>3
    <2>4. CASE T \ {e} # {}
        <3>1. T \ {e} \in F
            BY <1>1, <2>2
        <3>2. PICK b \in T \ {e} : \A y \in T \ {e} : b >= y
            BY <2>4, <3>1
        <3>3. PICK a \in T \ {e} : \A y \in T \ {e} : a <= y
            BY <2>4, <3>1
        <3>4. e \in Int /\ a \in Int /\ b \in Int /\ T \subseteq Int
            OBVIOUS
        <3>5. \E x \in T : \A y \in T : x >= y
            <4>1. CASE e >= b
                BY <2>2, <3>2, <3>4, <4>1
            <4>2. CASE b >= e
                BY <2>2, <3>2, <3>4, <4>2
            <4>3. QED BY <3>4, <4>1, <4>2
        <3>6. \E x \in T : \A y \in T : x <= y
            <4>1. CASE e <= a
                BY <2>2, <3>3, <3>4, <4>1
            <4>2. CASE a <= e
                BY <2>2, <3>3, <3>4, <4>2
            <4>3. QED BY <3>4, <4>1, <4>2
        <3>7. QED BY <3>5, <3>6
    <2>5. QED BY <2>3, <2>4
<1>2. \A T \in SUBSET S : T \in F
    <2> HIDE DEF F
    <2> QED BY <1>1, SubsetInduction
<1>3. (\E x \in S : \A y \in S : x >= y) /\ (\E x \in S : \A y \in S : x =< y)
    BY <1>2
<1>4. Max(S) \in S /\ \A y \in S : Max(S) >= y
    BY <1>3 DEF Max
<1>5. Min(S) \in S /\ \A y \in S : Min(S) =< y
    BY <1>3 DEF Min
<1>6. QED BY <1>4, <1>5
=============================================================================
