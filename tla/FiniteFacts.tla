---------------------------- MODULE FiniteFacts ----------------------------
(***************************************************************************)
(* Facts about finite sets of integers and about sums, which the proofs    *)
(* about peaks, times, exposures, cash and profits rest on.                *)
(*                                                                         *)
(* The provers cannot use an induction theorem whose parameter is an       *)
(* operator; SubsetInduction is one whose parameter is a set.  From it     *)
(* follow that the recursion in the community modules' folds has a         *)
(* solution, that there is only one, and how a sum changes with its        *)
(* members.                                                                *)
(***************************************************************************)
EXTENDS Integers, FiniteSets, Functions, FiniteSetTheorems, TLAPS

-----------------------------------------------------------------------------
(* The ends of a finite set. *)

(***************************************************************************)
(* A finite, not empty set of integers has a largest and a least.          *)
(***************************************************************************)
LEMMA HasLargest ==
  ASSUME NEW S, S \subseteq Int, IsFiniteSet(S), S # {}
  PROVE  \E m \in S : \A x \in S : x <= m
<1> DEFINE above(x) == {y \in S : y > x}
           R == StrictSubsetOrdering(S)
           T == {above(x) : x \in S}
<1>1. T \subseteq FiniteSubsetsOf(S) /\ T # {}
  <2>1. ASSUME NEW x \in S PROVE above(x) \in FiniteSubsetsOf(S)
    <3>1. above(x) \in SUBSET S
      OBVIOUS
    <3> HIDE DEF above
    <3> QED  BY <3>1, FS_Subset DEF FiniteSubsetsOf
  <2> HIDE DEF above
  <2> QED  BY <2>1
<1>2. PICK A \in T : \A B \in T : <<B, A>> \notin R
  <2> HIDE DEF R, T
  <2> QED  BY <1>1, FS_StrictSubsetOrderingWellFounded, WFMin DEF R
<1>3. PICK m \in S : A = above(m)
  OBVIOUS
<1>4. ASSUME NEW x \in S, ~(x <= m)
      PROVE  FALSE
  <2>1. x \in Int /\ m \in Int /\ x > m
    BY <1>4
  <2>2. x \in A /\ x \notin above(x) /\ above(x) \subseteq A
    <3>1. (\A y \in S : y > x => y > m) /\ ~(x > x)
      BY <2>1
    <3> QED  BY <1>3, <2>1, <3>1
  <2>3. above(x) \in SUBSET S /\ A \in SUBSET S /\ above(x) # A
    BY <1>3, <2>2
  <2>4. <<above(x), A>> \in R
    <3> HIDE DEF above
    <3> QED  BY <2>2, <2>3 DEF StrictSubsetOrdering
  <2> QED  BY <1>2, <2>4
<1> QED  BY <1>4

LEMMA HasLeast ==
  ASSUME NEW S, S \subseteq Int, IsFiniteSet(S), S # {}
  PROVE  \E m \in S : \A x \in S : m <= x
<1> DEFINE N == {-x : x \in S}
           f == [x \in S |-> -x]
<1>1. f \in Surjection(S, N)
  BY DEF Surjection
<1>2. IsFiniteSet(N)
  <2> HIDE DEF f, N
  <2> QED  BY <1>1, FS_Surjection
<1>3. N \subseteq Int /\ N # {}
  OBVIOUS
<1>4. PICK n \in N : \A y \in N : y <= n
  <2> HIDE DEF N
  <2> QED  BY <1>2, <1>3, HasLargest
<1>5. PICK m \in S : n = -m
  OBVIOUS
<1>6. \A x \in S : -x <= -m
  BY <1>4, <1>5
<1>7. \A x \in S : m <= x
  BY <1>6
<1> QED  BY <1>7

-----------------------------------------------------------------------------

(***************************************************************************)
(* Induction over the subsets of a finite set, for a set of them.          *)
(***************************************************************************)
LEMMA SubsetInduction ==
  ASSUME NEW S, IsFiniteSet(S), NEW W,
         {} \in W,
         \A T \in SUBSET S : T # {} /\ (\A x \in T : T \ {x} \in W) => T \in W
  PROVE  \A T \in SUBSET S : T \in W
<1> DEFINE R == StrictSubsetOrdering(S)
           Out == {T \in FiniteSubsetsOf(S) : T \notin W}
<1>1. SUFFICES ASSUME Out # {} PROVE FALSE
  <2>1. \A T \in SUBSET S : T \in FiniteSubsetsOf(S)
    BY FS_Subset DEF FiniteSubsetsOf
  <2> QED  BY <2>1
<1>2. PICK T \in Out : \A V \in Out : <<V, T>> \notin R
  <2>1. Out \subseteq FiniteSubsetsOf(S)
    OBVIOUS
  <2> HIDE DEF R, Out
  <2> QED  BY <1>1, <2>1, FS_StrictSubsetOrderingWellFounded, WFMin DEF R
<1>3. T \in SUBSET S /\ T \notin W
  BY <1>2 DEF FiniteSubsetsOf
<1>4. ASSUME NEW x \in T PROVE T \ {x} \in W
  <2>1. T \ {x} \in SUBSET S /\ T \ {x} # T /\ T \ {x} \subseteq T
    BY <1>3
  <2>2. T \ {x} \in FiniteSubsetsOf(S)
    BY <2>1, FS_Subset DEF FiniteSubsetsOf
  <2>3. <<T \ {x}, T>> \in R
    BY <1>3, <2>1 DEF StrictSubsetOrdering
  <2>4. T \ {x} \notin Out
    <3> HIDE DEF R, Out
    <3> QED  BY <1>2, <2>3
  <2> QED  BY <2>2, <2>4
<1> QED  BY <1>3, <1>4

-----------------------------------------------------------------------------
(* Sums: the recursion a sum is defined by, over the subsets of a set.    *)

OneOf(s) == CHOOSE x \in s : TRUE

IsSumOf(f, S, G) ==
  G = [s \in SUBSET S |-> IF s = {} THEN 0 ELSE f[OneOf(s)] + G[s \ {OneOf(s)}]]

\* Up to sets of n members.
Small(S, n) == {s \in SUBSET S : Cardinality(s) <= n}

IsSumUpTo(f, S, n, G) ==
  G = [s \in Small(S, n) |-> IF s = {} THEN 0 ELSE f[OneOf(s)] + G[s \ {OneOf(s)}]]

LEMMA SmallFacts ==
  ASSUME NEW S, IsFiniteSet(S), NEW n \in Nat, NEW s \in SUBSET S, s # {}
  PROVE  /\ OneOf(s) \in s /\ s \ {OneOf(s)} \in SUBSET S
         /\ s \in Small(S, n + 1) <=> s \ {OneOf(s)} \in Small(S, n)
<1>1. OneOf(s) \in s /\ s \ {OneOf(s)} \in SUBSET S
  BY DEF OneOf
<1>2. IsFiniteSet(s) /\ Cardinality(s) \in Nat
  BY FS_Subset, FS_CardinalityType
<1>3. Cardinality(s \ {OneOf(s)}) = Cardinality(s) - 1
  BY <1>1, <1>2, FS_RemoveElement
<1> QED  BY <1>1, <1>2, <1>3 DEF Small

LEMMA SumUpToGrows ==
  ASSUME NEW S, IsFiniteSet(S), NEW n \in Nat, NEW f, NEW G, IsSumUpTo(f, S, n, G)
  PROVE  \E H : IsSumUpTo(f, S, n + 1, H)
<1> DEFINE H == [s \in Small(S, n + 1) |-> IF s = {} THEN 0 ELSE f[OneOf(s)] + G[s \ {OneOf(s)}]]
<1>1. \A s \in Small(S, n) : H[s] = G[s]
  <2>1. Small(S, n) \subseteq Small(S, n + 1)
    <3>1. \A s \in SUBSET S : Cardinality(s) \in Nat
      BY FS_Subset, FS_CardinalityType
    <3> QED  BY <3>1 DEF Small
  <2> QED  BY <2>1 DEF IsSumUpTo
<1>2. \A s \in Small(S, n + 1) : s # {} => H[s \ {OneOf(s)}] = G[s \ {OneOf(s)}]
  <2>1. \A s \in Small(S, n + 1) : s \in SUBSET S
    BY DEF Small
  <2> HIDE DEF H
  <2> QED  BY <1>1, <2>1, SmallFacts
<1>3. H = [s \in Small(S, n + 1) |-> IF s = {} THEN 0 ELSE f[OneOf(s)] + H[s \ {OneOf(s)}]]
  BY <1>2
<1> HIDE DEF H
<1> QED  BY <1>3 DEF IsSumUpTo

LEMMA SumUpToExists ==
  ASSUME NEW S, IsFiniteSet(S), NEW f
  PROVE  \A T \in SUBSET S : \E G : IsSumUpTo(f, S, Cardinality(T), G)
<1> DEFINE W == {T \in SUBSET S : \E G : IsSumUpTo(f, S, Cardinality(T), G)}
<1>1. {} \in W
  <2> DEFINE G == [s \in Small(S, 0) |-> 0]
  <2>1. \A s \in Small(S, 0) : s = {}
    <3>1. \A s \in SUBSET S : IsFiniteSet(s) /\ Cardinality(s) \in Nat
      BY FS_Subset, FS_CardinalityType
    <3> QED  BY <3>1, FS_EmptySet DEF Small
  <2>2. IsSumUpTo(f, S, 0, G)
    <3>1. G = [s \in Small(S, 0) |-> IF s = {} THEN 0 ELSE f[OneOf(s)] + G[s \ {OneOf(s)}]]
      BY <2>1
    <3> HIDE DEF G
    <3> QED  BY <3>1 DEF IsSumUpTo
  <2> HIDE DEF G
  <2> QED  BY <2>2, FS_EmptySet
<1>2. ASSUME NEW T \in SUBSET S, T # {}, \A x \in T : T \ {x} \in W
      PROVE  T \in W
  <2>0. PICK x : x \in T
    BY <1>2
  <2>1. IsFiniteSet(T) /\ Cardinality(T \ {x}) \in Nat /\ Cardinality(T) = Cardinality(T \ {x}) + 1
    <3>1. IsFiniteSet(T) /\ Cardinality(T) \in Nat
      BY FS_Subset, FS_CardinalityType
    <3>2. IsFiniteSet(T \ {x}) /\ Cardinality(T \ {x}) = Cardinality(T) - 1
      BY <2>0, <3>1, FS_RemoveElement
    <3> QED  BY <3>1, <3>2, FS_CardinalityType
  <2>2. PICK G : IsSumUpTo(f, S, Cardinality(T \ {x}), G)
    BY <1>2, <2>0
  <2> QED  BY <2>1, <2>2, SumUpToGrows
<1>3. \A T \in SUBSET S : T \in W
  <2> HIDE DEF W
  <2> QED  BY <1>1, <1>2, SubsetInduction
<1> QED  BY <1>3

LEMMA SumExists ==
  ASSUME NEW S, IsFiniteSet(S), NEW f
  PROVE  \E G : IsSumOf(f, S, G)
<1>1. PICK G : IsSumUpTo(f, S, Cardinality(S), G)
  BY SumUpToExists
<1>2. Small(S, Cardinality(S)) = SUBSET S
  BY FS_Subset DEF Small
<1> QED  BY <1>1, <1>2 DEF IsSumUpTo, IsSumOf

\* The recursion of the community modules' folds, for sums.
LEMMA SumIsRecursive ==
  ASSUME NEW S, IsFiniteSet(S), NEW f
  PROVE  \E G : IsSumOf(f, S, G) /\ SumFunctionOnSet(f, S) = G[S]
<1>1. SumFunctionOnSet(f, S) = (CHOOSE G : IsSumOf(f, S, G))[S]
  BY DEF SumFunctionOnSet, FoldFunctionOnSet, MapThenFoldSet, OneOf, IsSumOf
<1>2. IsSumOf(f, S, CHOOSE G : IsSumOf(f, S, G))
  BY SumExists
<1> QED  BY <1>1, <1>2

\* A part of a sum is one by the same recursion.
LEMMA SumOfPart ==
  ASSUME NEW S, IsFiniteSet(S), NEW f, NEW G, IsSumOf(f, S, G), NEW T \in SUBSET S
  PROVE  SumFunctionOnSet(f, T) = G[T]
<1>1. IsFiniteSet(T)
  BY FS_Subset
<1>2. PICK H : IsSumOf(f, T, H) /\ SumFunctionOnSet(f, T) = H[T]
  BY <1>1, SumIsRecursive
<1> DEFINE W == {U \in SUBSET T : H[U] = G[U]}
<1>3. {} \in W
  BY <1>2 DEF IsSumOf
<1>4. ASSUME NEW U \in SUBSET T, U # {}, \A x \in U : U \ {x} \in W
      PROVE  U \in W
  <2>1. OneOf(U) \in U
    BY <1>4 DEF OneOf
  <2>2. H[U \ {OneOf(U)}] = G[U \ {OneOf(U)}]
    BY <1>4, <2>1
  <2>3. H[U] = f[OneOf(U)] + H[U \ {OneOf(U)}]
    BY <1>2, <1>4 DEF IsSumOf
  <2>4. G[U] = f[OneOf(U)] + G[U \ {OneOf(U)}]
    BY <1>4 DEF IsSumOf
  <2> QED  BY <2>2, <2>3, <2>4
<1>5. \A U \in SUBSET T : U \in W
  <2> HIDE DEF W
  <2> QED  BY <1>1, <1>3, <1>4, SubsetInduction
<1> QED  BY <1>2, <1>5

LEMMA SumUnfolds ==
  ASSUME NEW S, IsFiniteSet(S), NEW f
  PROVE  /\ SumFunctionOnSet(f, {}) = 0
         /\ S # {} => /\ OneOf(S) \in S
                      /\ SumFunctionOnSet(f, S)
                           = f[OneOf(S)] + SumFunctionOnSet(f, S \ {OneOf(S)})
<1>1. PICK G : IsSumOf(f, S, G) /\ SumFunctionOnSet(f, S) = G[S]
  BY SumIsRecursive
<1>2. \A T \in SUBSET S : SumFunctionOnSet(f, T) = G[T]
  BY <1>1, SumOfPart
<1>3. SumFunctionOnSet(f, {}) = 0
  BY <1>1, <1>2 DEF IsSumOf
<1>4. ASSUME S # {}
      PROVE  OneOf(S) \in S /\ G[S] = f[OneOf(S)] + G[S \ {OneOf(S)}]
  BY <1>1, <1>4 DEF IsSumOf, OneOf
<1> QED  BY <1>2, <1>3, <1>4

\* A sum of integers is one.
LEMMA SumType ==
  ASSUME NEW S, IsFiniteSet(S), NEW f, \A x \in S : f[x] \in Int
  PROVE  SumFunctionOnSet(f, S) \in Int
<1> DEFINE W == {T \in SUBSET S : SumFunctionOnSet(f, T) \in Int}
<1>1. {} \in W
  <2>1. SumFunctionOnSet(f, {}) = 0
    BY SumUnfolds
  <2> QED  BY <2>1
<1>2. ASSUME NEW T \in SUBSET S, T # {}, \A x \in T : T \ {x} \in W
      PROVE  T \in W
  <2>1. /\ OneOf(T) \in T
        /\ SumFunctionOnSet(f, T) = f[OneOf(T)] + SumFunctionOnSet(f, T \ {OneOf(T)})
    BY <1>2, FS_Subset, SumUnfolds
  <2>2. SumFunctionOnSet(f, T \ {OneOf(T)}) \in Int /\ f[OneOf(T)] \in Int
    BY <1>2, <2>1
  <2>3. SumFunctionOnSet(f, T) \in Int
    BY <2>1, <2>2
  <2> QED  BY <2>3
<1>3. \A T \in SUBSET S : T \in W
  <2> HIDE DEF W
  <2> QED  BY <1>1, <1>2, SubsetInduction
<1> QED  BY <1>3

(***************************************************************************)
(* A sum counts each member once, whichever is taken out first.            *)
(***************************************************************************)
LEMMA SumTakesOut ==
  ASSUME NEW S, IsFiniteSet(S), NEW f, \A x \in S : f[x] \in Int,
         NEW x \in S
  PROVE  SumFunctionOnSet(f, S) = f[x] + SumFunctionOnSet(f, S \ {x})
<1> DEFINE total(T) == SumFunctionOnSet(f, T)
           W == {T \in SUBSET S : \A y \in T : total(T) = f[y] + total(T \ {y})}
<1>0. \A T \in SUBSET S : IsFiniteSet(T) /\ total(T) \in Int
  <2>1. \A T \in SUBSET S : IsFiniteSet(T) /\ \A y \in T : f[y] \in Int
    BY FS_Subset
  <2> QED  BY <2>1, SumType
<1>1. {} \in W
  OBVIOUS
<1>2. ASSUME NEW T \in SUBSET S, T # {}, \A y \in T : T \ {y} \in W
      PROVE  T \in W
  <2> DEFINE a == OneOf(T)
  <2>1. a \in T /\ total(T) = f[a] + total(T \ {a})
    BY <1>0, <1>2, SumUnfolds
  <2> HIDE DEF a
  <2>2. ASSUME NEW y \in T, y # a PROVE total(T) = f[y] + total(T \ {y})
    <3>1. total(T \ {a}) = f[y] + total((T \ {a}) \ {y})
      BY <1>2, <2>1, <2>2
    <3>2. total(T \ {y}) = f[a] + total((T \ {y}) \ {a})
      BY <1>2, <2>1, <2>2
    <3>3. (T \ {a}) \ {y} = (T \ {y}) \ {a} /\ (T \ {a}) \ {y} \in SUBSET S
      OBVIOUS
    <3>4. f[a] \in Int /\ f[y] \in Int /\ total((T \ {a}) \ {y}) \in Int
      <4> HIDE DEF total
      <4> QED  BY <1>0, <2>1, <3>3
    <3>5. total((T \ {y}) \ {a}) = total((T \ {a}) \ {y})
      BY <3>3
    <3>6. \A p, q, r \in Int : p + (q + r) = q + (p + r)
      OBVIOUS
    <3> HIDE DEF total
    <3>7. f[a] + (f[y] + total((T \ {a}) \ {y})) = f[y] + (f[a] + total((T \ {a}) \ {y}))
      BY <3>4, <3>6
    <3> QED  BY <2>1, <3>1, <3>2, <3>5, <3>7
  <2>3. \A y \in T : total(T) = f[y] + total(T \ {y})
    BY <2>1, <2>2
  <2> QED  BY <2>3
<1>3. \A T \in SUBSET S : T \in W
  <2> HIDE DEF W
  <2> QED  BY <1>1, <1>2, SubsetInduction
<1>4. S \in W
  <2> HIDE DEF W
  <2> QED  BY <1>3
<1> QED  BY <1>4

\* A sum depends on the values of its members alone.
LEMMA SumOfSame ==
  ASSUME NEW S, IsFiniteSet(S), NEW f, NEW g, \A x \in S : f[x] = g[x]
  PROVE  SumFunctionOnSet(f, S) = SumFunctionOnSet(g, S)
<1> DEFINE W == {T \in SUBSET S : SumFunctionOnSet(f, T) = SumFunctionOnSet(g, T)}
<1>1. {} \in W
  BY SumUnfolds
<1>2. ASSUME NEW T \in SUBSET S, T # {}, \A x \in T : T \ {x} \in W
      PROVE  T \in W
  <2>1. /\ OneOf(T) \in T
        /\ SumFunctionOnSet(f, T) = f[OneOf(T)] + SumFunctionOnSet(f, T \ {OneOf(T)})
        /\ SumFunctionOnSet(g, T) = g[OneOf(T)] + SumFunctionOnSet(g, T \ {OneOf(T)})
    BY <1>2, FS_Subset, SumUnfolds
  <2> QED  BY <1>2, <2>1
<1>3. \A T \in SUBSET S : T \in W
  <2> HIDE DEF W
  <2> QED  BY <1>1, <1>2, SubsetInduction
<1> QED  BY <1>3

\* One member of another value.
LEMMA SumChanges ==
  ASSUME NEW S, IsFiniteSet(S), NEW f, NEW g, NEW x \in S,
         \A y \in S : f[y] \in Int /\ g[y] \in Int,
         \A y \in S \ {x} : f[y] = g[y]
  PROVE  SumFunctionOnSet(g, S) = SumFunctionOnSet(f, S) - f[x] + g[x]
<1>1. IsFiniteSet(S \ {x})
  BY FS_Subset
<1>2. SumFunctionOnSet(f, S \ {x}) = SumFunctionOnSet(g, S \ {x})
  BY <1>1, SumOfSame
<1>3. SumFunctionOnSet(f, S \ {x}) \in Int
  BY <1>1, SumType
<1>4. /\ SumFunctionOnSet(f, S) = f[x] + SumFunctionOnSet(f, S \ {x})
      /\ SumFunctionOnSet(g, S) = g[x] + SumFunctionOnSet(g, S \ {x})
  BY SumTakesOut
<1> QED  BY <1>2, <1>3, <1>4

\* The sum of a function is that over its domain.
LEMMA SumOfFunction ==
  ASSUME NEW f
  PROVE  SumFunction(f) = SumFunctionOnSet(f, DOMAIN f)
BY DEF SumFunction

-----------------------------------------------------------------------------
(* Sums over parts. *)

LEMMA SumOfUnion ==
  ASSUME NEW A, NEW B, IsFiniteSet(A), IsFiniteSet(B), A \cap B = {}, NEW f,
         \A x \in A \cup B : f[x] \in Int
  PROVE  SumFunctionOnSet(f, A \cup B) = SumFunctionOnSet(f, A) + SumFunctionOnSet(f, B)
<1> DEFINE total(T) == SumFunctionOnSet(f, T)
           W == {T \in SUBSET B : total(A \cup T) = total(A) + total(T)}
<1>0. \A T \in SUBSET B : /\ IsFiniteSet(T) /\ IsFiniteSet(A \cup T)
                          /\ total(T) \in Int /\ total(A) \in Int
  <2>1. \A T \in SUBSET B : IsFiniteSet(T) /\ IsFiniteSet(A \cup T)
    BY FS_Subset, FS_Union
  <2>2. \A T \in SUBSET B : total(T) \in Int
    BY <2>1, SumType
  <2>3. total(A) \in Int
    BY SumType
  <2> QED  BY <2>1, <2>2, <2>3
<1>1. {} \in W
  <2>1. A \cup {} = A /\ total({}) = 0 /\ total(A) \in Int
    BY <1>0, SumUnfolds
  <2> HIDE DEF total
  <2> QED  BY <2>1
<1>2. ASSUME NEW T \in SUBSET B, T # {}, \A x \in T : T \ {x} \in W
      PROVE  T \in W
  <2>1. PICK x : x \in T
    BY <1>2
  <2>2. (A \cup T) \ {x} = A \cup (T \ {x})
    BY <2>1
  <2>3. total(A \cup T) = f[x] + total((A \cup T) \ {x})
    BY <1>0, <2>1, SumTakesOut
  <2>4. total(T) = f[x] + total(T \ {x})
    BY <1>0, <2>1, SumTakesOut
  <2>5. total(A \cup (T \ {x})) = total(A) + total(T \ {x})
    BY <1>2, <2>1
  <2>6. f[x] \in Int /\ total(A) \in Int /\ total(T \ {x}) \in Int
    BY <1>0, <2>1
  <2>7. total((A \cup T) \ {x}) = total(A) + total(T \ {x})
    BY <2>2, <2>5
  <2>8. total(A \cup T) = total(A) + total(T)
    <3> HIDE DEF total
    <3> QED  BY <2>3, <2>4, <2>6, <2>7
  <2> QED  BY <2>8
<1>3. \A T \in SUBSET B : T \in W
  <2> HIDE DEF W
  <2> QED  BY <1>1, <1>2, SubsetInduction
<1> QED  BY <1>3

\* The values of a sum may be moved to other places.
LEMMA SumMoves ==
  ASSUME NEW S, IsFiniteSet(S), NEW f, NEW g, NEW s,
         \A x, y \in S : s[x] = s[y] => x = y,
         \A x \in S : g[x] = f[s[x]] /\ f[s[x]] \in Int
  PROVE  SumFunctionOnSet(g, S) = SumFunctionOnSet(f, {s[x] : x \in S})
<1> DEFINE image(T) == {s[x] : x \in T}
           W == {T \in SUBSET S : SumFunctionOnSet(g, T) = SumFunctionOnSet(f, image(T))}
<1>0. \A T \in SUBSET S : IsFiniteSet(T) /\ IsFiniteSet(image(T))
  <2> TAKE T \in SUBSET S
  <2>1. IsFiniteSet(T)
    BY FS_Subset
  <2>2. [x \in T |-> s[x]] \in Surjection(T, image(T))
    BY DEF Surjection
  <2> HIDE DEF image
  <2> QED  BY <2>1, <2>2, FS_Surjection
<1>1. {} \in W
  <2>1. image({}) = {}
    OBVIOUS
  <2> HIDE DEF image
  <2> QED  BY <2>1, SumUnfolds
<1>2. ASSUME NEW T \in SUBSET S, T # {}, \A x \in T : T \ {x} \in W
      PROVE  T \in W
  <2>1. PICK x : x \in T
    BY <1>2
  <2>2. image(T) \ {s[x]} = image(T \ {x}) /\ s[x] \in image(T)
    BY <2>1
  <2>3. \A y \in image(T) : f[y] \in Int
    OBVIOUS
  <2> HIDE DEF image
  <2>4. SumFunctionOnSet(g, T) = g[x] + SumFunctionOnSet(g, T \ {x})
    BY <1>0, <2>1, SumTakesOut
  <2>5. SumFunctionOnSet(f, image(T)) = f[s[x]] + SumFunctionOnSet(f, image(T) \ {s[x]})
    BY <1>0, <2>2, <2>3, SumTakesOut
  <2>6. SumFunctionOnSet(g, T \ {x}) = SumFunctionOnSet(f, image(T \ {x}))
    BY <1>2, <2>1
  <2> QED  BY <2>1, <2>2, <2>4, <2>5, <2>6
<1>3. \A T \in SUBSET S : T \in W
  <2> HIDE DEF W
  <2> QED  BY <1>1, <1>2, SubsetInduction
<1> QED  BY <1>3

(***************************************************************************)
(* What is summed key by key is summed.                                    *)
(***************************************************************************)
LEMMA SumByKey ==
  ASSUME NEW S, IsFiniteSet(S), NEW f, \A i \in S : f[i] \in Int, NEW key, NEW h,
         \A x \in {key[i] : i \in S} : h[x] = SumFunctionOnSet(f, {i \in S : key[i] = x})
  PROVE  /\ SumFunctionOnSet(h, {key[i] : i \in S}) = SumFunctionOnSet(f, S)
         /\ IsFiniteSet({key[i] : i \in S})
         /\ \A x \in {key[i] : i \in S} : h[x] \in Int
<1> DEFINE X == {key[i] : i \in S}
           at(x) == {i \in S : key[i] = x}
           of(K) == {i \in S : key[i] \in K}
           W == {K \in SUBSET X : SumFunctionOnSet(h, K) = SumFunctionOnSet(f, of(K))}
<1>1. IsFiniteSet(X)
  <2>1. [i \in S |-> key[i]] \in Surjection(S, X)
    BY DEF Surjection
  <2> HIDE DEF X
  <2> QED  BY <2>1, FS_Surjection
<1>2. /\ \A x : IsFiniteSet(at(x)) /\ SumFunctionOnSet(f, at(x)) \in Int
      /\ \A K : IsFiniteSet(of(K)) /\ SumFunctionOnSet(f, of(K)) \in Int
  <2>1. \A T \in SUBSET S : IsFiniteSet(T) /\ SumFunctionOnSet(f, T) \in Int
    BY FS_Subset, SumType
  <2>2. \A x : at(x) \in SUBSET S /\ of(x) \in SUBSET S
    OBVIOUS
  <2> HIDE DEF at, of
  <2> QED  BY <2>1, <2>2
<1>3. \A x \in X : h[x] = SumFunctionOnSet(f, at(x)) /\ h[x] \in Int
  BY <1>2
<1>4. {} \in W
  <2>1. of({}) = {}
    OBVIOUS
  <2> HIDE DEF of
  <2> QED  BY <2>1, SumUnfolds
<1>5. ASSUME NEW K \in SUBSET X, K # {}, \A x \in K : K \ {x} \in W
      PROVE  K \in W
  <2>1. PICK x : x \in K
    BY <1>5
  <2>2. of(K) = of(K \ {x}) \cup at(x) /\ of(K \ {x}) \cap at(x) = {}
    BY <2>1
  <2>3. \A i \in of(K \ {x}) \cup at(x) : f[i] \in Int
    OBVIOUS
  <2>4. IsFiniteSet(K) /\ \A y \in K : h[y] \in Int
    <3> HIDE DEF X
    <3> QED  BY <1>1, <1>3, FS_Subset
  <2> HIDE DEF of, at, X
  <2>5. SumFunctionOnSet(h, K) = h[x] + SumFunctionOnSet(h, K \ {x})
    BY <2>1, <2>4, SumTakesOut
  <2>6. SumFunctionOnSet(f, of(K))
          = SumFunctionOnSet(f, of(K \ {x})) + SumFunctionOnSet(f, at(x))
    <3>1. IsFiniteSet(of(K \ {x})) /\ IsFiniteSet(at(x))
      BY <1>2
    <3>2. SumFunctionOnSet(f, of(K \ {x}) \cup at(x))
            = SumFunctionOnSet(f, of(K \ {x})) + SumFunctionOnSet(f, at(x))
      BY <2>2, <2>3, <3>1, SumOfUnion
    <3> QED  BY <2>2, <3>2
  <2>7. SumFunctionOnSet(h, K \ {x}) = SumFunctionOnSet(f, of(K \ {x}))
    BY <1>5, <2>1
  <2>8. h[x] = SumFunctionOnSet(f, at(x))
    BY <1>3, <2>1
  <2>9. SumFunctionOnSet(f, at(x)) \in Int /\ SumFunctionOnSet(f, of(K \ {x})) \in Int
    BY <1>2
  <2> QED  BY <2>5, <2>6, <2>7, <2>8, <2>9
<1>6. \A K \in SUBSET X : K \in W
  <2> HIDE DEF W, X
  <2> QED  BY <1>1, <1>4, <1>5, SubsetInduction
<1>7. of(X) = S
  OBVIOUS
<1>8. SumFunctionOnSet(h, X) = SumFunctionOnSet(f, of(X))
  <2> HIDE DEF X, of
  <2> QED  BY <1>6
<1> QED
  <2> HIDE DEF of, at
  <2> QED  BY <1>1, <1>3, <1>7, <1>8

\* A sum of what is not negative is not negative.
LEMMA SumSign ==
  ASSUME NEW S, IsFiniteSet(S), NEW f, \A x \in S : f[x] \in Nat
  PROVE  SumFunctionOnSet(f, S) \in Nat
<1> DEFINE W == {T \in SUBSET S : SumFunctionOnSet(f, T) \in Nat}
<1>1. {} \in W
  <2>1. SumFunctionOnSet(f, {}) = 0
    BY SumUnfolds
  <2> QED  BY <2>1
<1>2. ASSUME NEW T \in SUBSET S, T # {}, \A x \in T : T \ {x} \in W
      PROVE  T \in W
  <2>1. /\ OneOf(T) \in T
        /\ SumFunctionOnSet(f, T) = f[OneOf(T)] + SumFunctionOnSet(f, T \ {OneOf(T)})
    BY <1>2, FS_Subset, SumUnfolds
  <2>2. SumFunctionOnSet(f, T \ {OneOf(T)}) \in Nat /\ f[OneOf(T)] \in Nat
    BY <1>2, <2>1
  <2>3. SumFunctionOnSet(f, T) \in Nat
    BY <2>1, <2>2
  <2> QED  BY <2>3
<1>3. \A T \in SUBSET S : T \in W
  <2> HIDE DEF W
  <2> QED  BY <1>1, <1>2, SubsetInduction
<1> QED  BY <1>3

LEMMA SumNegative ==
  ASSUME NEW S, IsFiniteSet(S), NEW f, \A x \in S : f[x] \in Int /\ f[x] <= 0
  PROVE  SumFunctionOnSet(f, S) \in Int /\ SumFunctionOnSet(f, S) <= 0
<1> DEFINE W == {T \in SUBSET S : SumFunctionOnSet(f, T) \in Int /\ SumFunctionOnSet(f, T) <= 0}
<1>1. {} \in W
  <2>1. SumFunctionOnSet(f, {}) = 0
    BY SumUnfolds
  <2> QED  BY <2>1
<1>2. ASSUME NEW T \in SUBSET S, T # {}, \A x \in T : T \ {x} \in W
      PROVE  T \in W
  <2>1. /\ OneOf(T) \in T
        /\ SumFunctionOnSet(f, T) = f[OneOf(T)] + SumFunctionOnSet(f, T \ {OneOf(T)})
    BY <1>2, FS_Subset, SumUnfolds
  <2>2. /\ SumFunctionOnSet(f, T \ {OneOf(T)}) \in Int
        /\ SumFunctionOnSet(f, T \ {OneOf(T)}) <= 0
        /\ f[OneOf(T)] \in Int /\ f[OneOf(T)] <= 0
    BY <1>2, <2>1
  <2>3. SumFunctionOnSet(f, T) \in Int /\ SumFunctionOnSet(f, T) <= 0
    BY <2>1, <2>2
  <2> QED  BY <2>3
<1>3. \A T \in SUBSET S : T \in W
  <2> HIDE DEF W
  <2> QED  BY <1>1, <1>2, SubsetInduction
<1> QED  BY <1>3

\* The sum of a sequence that is another followed by a third.
IsJoined(f, a, m, b, n) ==
  /\ \A i \in 1..m : f[i] = a[i] /\ a[i] \in Int
  /\ \A i \in 1..n : f[m + i] = b[i] /\ b[i] \in Int

LEMMA SumOfTwo ==
  ASSUME NEW m \in Nat, NEW n \in Nat, NEW f, NEW a, NEW b, IsJoined(f, a, m, b, n)
  PROVE  SumFunctionOnSet(f, 1..(m + n))
           = SumFunctionOnSet(a, 1..m) + SumFunctionOnSet(b, 1..n)
<1> DEFINE s == [i \in 1..n |-> m + i]
           tail == {s[i] : i \in 1..n}
<1>0. /\ \A i \in 1..m : f[i] = a[i] /\ a[i] \in Int
      /\ \A i \in 1..n : f[m + i] = b[i] /\ b[i] \in Int
  BY DEF IsJoined
<1>1. IsFiniteSet(1..m) /\ IsFiniteSet(1..n)
  BY FS_Interval
<1>2. 1..(m + n) = (1..m) \cup tail /\ (1..m) \cap tail = {}
  <2>1. \A x : x \in tail <=> x \in (m + 1)..(m + n)
    <3>1. \A x \in (m + 1)..(m + n) : x - m \in 1..n /\ s[x - m] = x
      OBVIOUS
    <3>2. \A i \in 1..n : s[i] \in (m + 1)..(m + n)
      OBVIOUS
    <3> HIDE DEF s
    <3> QED  BY <3>1, <3>2
  <2> HIDE DEF tail
  <2> QED  BY <2>1
<1>3. \A x, y \in 1..n : s[x] = s[y] => x = y
  OBVIOUS
<1>4. \A x \in 1..n : b[x] = f[s[x]] /\ f[s[x]] \in Int
  BY <1>0
<1>5. IsFiniteSet(tail)
  <2>1. s \in Surjection(1..n, tail)
    BY DEF Surjection
  <2> HIDE DEF tail, s
  <2> QED  BY <1>1, <2>1, FS_Surjection
<1>6. SumFunctionOnSet(b, 1..n) = SumFunctionOnSet(f, tail)
  <2> DEFINE D == 1..n
  <2>1. /\ IsFiniteSet(D) /\ tail = {s[i] : i \in D}
        /\ \A x, y \in D : s[x] = s[y] => x = y
        /\ \A x \in D : b[x] = f[s[x]] /\ f[s[x]] \in Int
    <3> HIDE DEF s
    <3> QED  BY <1>1, <1>3, <1>4
  <2> HIDE DEF D, s, tail
  <2>2. SumFunctionOnSet(b, D) = SumFunctionOnSet(f, tail)
    BY <2>1, SumMoves
  <2> QED  BY <2>2 DEF D
<1>7. \A x \in (1..m) \cup tail : f[x] \in Int
  <2> HIDE DEF s
  <2> QED  BY <1>0, <1>4
<1> HIDE DEF tail, s
<1>8. SumFunctionOnSet(f, (1..m) \cup tail)
        = SumFunctionOnSet(f, 1..m) + SumFunctionOnSet(f, tail)
  BY <1>1, <1>2, <1>5, <1>7, SumOfUnion
<1>9. SumFunctionOnSet(f, 1..m) = SumFunctionOnSet(a, 1..m)
  BY <1>0, <1>1, SumOfSame
<1> QED  BY <1>2, <1>6, <1>8, <1>9

-----------------------------------------------------------------------------
(* A finite set can be listed from the largest value to the smallest. *)

IsRanking(f, T, s) ==
  /\ s \in [1..Cardinality(T) -> T]
  /\ \A i, j \in 1..Cardinality(T) : i < j => s[i] # s[j] /\ f[s[i]] >= f[s[j]]

LEMMA HasRanking ==
  ASSUME NEW S, IsFiniteSet(S), NEW f, \A x \in S : f[x] \in Int
  PROVE  \E s : IsRanking(f, S, s)
<1> DEFINE W == {T \in SUBSET S : \E s : IsRanking(f, T, s)}
<1>0. \A T \in SUBSET S : IsFiniteSet(T) /\ Cardinality(T) \in Nat
  BY FS_Subset, FS_CardinalityType
<1>1. {} \in W
  <2>1. <<>> \in [1..0 -> {}] /\ Cardinality({}) = 0 /\ 1..0 = {}
    BY FS_EmptySet
  <2>2. IsRanking(f, {}, <<>>)
    BY <2>1 DEF IsRanking
  <2> QED  BY <2>2
<1>2. ASSUME NEW T \in SUBSET S, T # {}, \A x \in T : T \ {x} \in W
      PROVE  T \in W
  <2>1. PICK x \in T : \A y \in T : f[x] <= f[y]
    <3> DEFINE V == {f[y] : y \in T}
    <3>1. V \subseteq Int /\ V # {}
      BY <1>2
    <3>2. [y \in T |-> f[y]] \in Surjection(T, V)
      BY DEF Surjection
    <3> HIDE DEF V
    <3>3. IsFiniteSet(V)
      BY <1>0, <3>2, FS_Surjection
    <3>4. PICK m \in V : \A v \in V : m <= v
      BY <3>1, <3>3, HasLeast
    <3> QED  BY <3>4 DEF V
  <2> DEFINE n == Cardinality(T)
  <2>2. n \in Nat /\ Cardinality(T \ {x}) = n - 1
    BY <1>0, <2>1, FS_RemoveElement
  <2>3. n # 0
    BY <1>0, <2>1, FS_EmptySet
  <2> HIDE DEF n
  <2>4. PICK s : IsRanking(f, T \ {x}, s)
    BY <1>2, <2>1
  <2>5. /\ s \in [1..(n - 1) -> T \ {x}]
        /\ \A i, j \in 1..(n - 1) : i < j => s[i] # s[j] /\ f[s[i]] >= f[s[j]]
    BY <2>2, <2>4 DEF IsRanking
  <2> DEFINE t == [i \in 1..n |-> IF i = n THEN x ELSE s[i]]
  <2>6. \A i \in 1..n : i # n => i \in 1..(n - 1) /\ t[i] = s[i] /\ s[i] \in T \ {x}
    BY <2>2, <2>5
  <2>7. t \in [1..n -> T] /\ t[n] = x
    BY <2>1, <2>2, <2>3, <2>5
  <2>8. ASSUME NEW i \in 1..n, NEW j \in 1..n, i < j
        PROVE  t[i] # t[j] /\ f[t[i]] >= f[t[j]]
    <3>1. i # n /\ i \in 1..(n - 1) /\ t[i] = s[i] /\ s[i] \in T \ {x}
      <4>1. i # n
        BY <2>2, <2>8
      <4> HIDE DEF t
      <4> QED  BY <2>6, <4>1
    <3>2. CASE j = n
      <4>1. t[j] = x /\ f[s[i]] \in Int /\ f[x] \in Int /\ f[x] <= f[s[i]]
        BY <2>1, <2>7, <3>1, <3>2
      <4> HIDE DEF t
      <4> QED  BY <3>1, <4>1
    <3>3. CASE j # n
      <4> HIDE DEF t
      <4> QED  BY <2>5, <2>6, <2>8, <3>1, <3>3
    <3> QED  BY <3>2, <3>3
  <2>9. IsRanking(f, T, t)
    <3> HIDE DEF t
    <3> QED  BY <2>7, <2>8 DEF IsRanking, n
  <2> HIDE DEF t
  <2> QED  BY <2>9
<1>3. \A T \in SUBSET S : T \in W
  <2> HIDE DEF W
  <2> QED  BY <1>1, <1>2, SubsetInduction
<1> QED  BY <1>3

=============================================================================
