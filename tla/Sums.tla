-------------------------------- MODULE Sums --------------------------------
(***************************************************************************)
(* Sums over finite sets: the lemmas that the proofs about ledgers, covered *)
(* amounts and orders need. SumFunction and SumFunctionOnSet are recursive, *)
(* and the induction theorems of the library take an operator, which no    *)
(* prover here can instantiate. So the induction is done by hand: that     *)
(* strict inclusion is well founded on the subsets of a finite set (a      *)
(* theorem of the library) gives each set of counterexamples a least       *)
(* element.                                                                *)
(***************************************************************************)
EXTENDS Integers, FiniteSets, Functions, FiniteSetTheorems, WellFoundedInduction, TLAPS

\* The element of s the library's fold takes first.
Pick(s) == CHOOSE x \in s : TRUE

\* One step of the recursion, g being the sums of the smaller sets.
Step(f, g, s) == IF s = {} THEN 0 ELSE f[Pick(s)] + g[s \ {Pick(s)}]

\* g has the sums of f over the subsets of S.
Rec(f, S, g) == g = [s \in SUBSET S |-> Step(f, g, s)]

\* The sum of f over S, as the modules of this project take it.
SumOf(f, S) == SumFunctionOnSet(f, S)

\* The definition of the library, unfolded: a sum is the value of a function
\* that is recursive on the subsets.
LEMMA Unfold == ASSUME NEW f, NEW S
  PROVE SumOf(f, S) = (CHOOSE g : Rec(f, S, g))[S]
  BY DEF SumOf, SumFunctionOnSet, FoldFunctionOnSet, MapThenFoldSet, Rec, Step, Pick

\* A non-empty set of subsets of a finite set has a least one. Every induction
\* here takes the least counterexample.
LEMMA Least ==
  ASSUME NEW S, IsFiniteSet(S), NEW C \in SUBSET (SUBSET S), C # {}
  PROVE  \E T \in C : \A U \in C : U \subseteq T => U = T
  <1>1. IsWellFoundedOn(StrictSubsetOrdering(S), FiniteSubsetsOf(S))
    BY FS_StrictSubsetOrderingWellFounded
  <1>2. C \subseteq FiniteSubsetsOf(S)
    BY FS_Subset DEF FiniteSubsetsOf
  <1>3. \E T \in C : \A U \in C : ~ (<<U, T>> \in StrictSubsetOrdering(S))
    BY <1>1, <1>2, WFMin
  <1> QED
    BY <1>3 DEF StrictSubsetOrdering

\* The element chosen from a set is one of its elements.
LEMMA PickIn == ASSUME NEW s, s # {} PROVE Pick(s) \in s
  BY DEF Pick

\* Only one function satisfies the recursion.
LEMMA Unique ==
  ASSUME NEW S, IsFiniteSet(S), NEW f, NEW g, NEW h, Rec(f, S, g), Rec(f, S, h)
  PROVE  g = h
  <1> DEFINE C == {s \in SUBSET S : g[s] # h[s]}
  <1>1. C = {}
    <2> SUFFICES ASSUME C # {} PROVE FALSE
      OBVIOUS
    <2>0. C \in SUBSET (SUBSET S) /\ C # {}
      OBVIOUS
    <2> HIDE DEF C
    <2>1. PICK T \in C : \A U \in C : U \subseteq T => U = T
      BY <2>0, Least
    <2> USE DEF C
    <2>2. T # {}
      BY <2>1 DEF Rec, Step
    <2>3. Pick(T) \in T
      BY <2>2, PickIn
    <2> DEFINE U == T \ {Pick(T)}
    <2>4. U \in SUBSET S /\ U \notin C
      BY <2>1, <2>3
    <2>5. g[U] = h[U]
      BY <2>4
    <2>6. g[T] = f[Pick(T)] + g[U] /\ h[T] = f[Pick(T)] + h[U]
      BY <2>2 DEF Rec, Step
    <2> QED
      BY <2>5, <2>6
  <1>2. \A s \in SUBSET S : g[s] = h[s]
    BY <1>1
  <1>3. g = [s \in SUBSET S |-> g[s]] /\ h = [s \in SUBSET S |-> h[s]]
    BY DEF Rec
  <1> QED
    BY <1>2, <1>3

\* The sum over s satisfies the recursion.
Solved(f, s) == SumOf(f, s) = IF s = {} THEN 0 ELSE f[Pick(s)] + SumOf(f, s \ {Pick(s)})

\* If the recursion is solved on the proper subsets, it is on the set.
LEMMA SolvedStep ==
  ASSUME NEW S, IsFiniteSet(S), NEW f, \A U \in SUBSET S : U # S => Solved(f, U)
  PROVE  Solved(f, S)
  <1> DEFINE g == [s \in SUBSET S |-> IF s = {} THEN 0 ELSE f[Pick(s)] + SumOf(f, s \ {Pick(s)})]
  <1>1. \A s \in SUBSET S : g[s] = Step(f, g, s)
    <2> TAKE s \in SUBSET S
    <2>1. CASE s = {}
      BY <2>1 DEF Step
    <2>2. CASE s # {}
      <3> DEFINE u == s \ {Pick(s)}
      <3>1. u \in SUBSET S /\ u # S
        BY <2>2, PickIn
      <3>2. SumOf(f, u) = IF u = {} THEN 0 ELSE f[Pick(u)] + SumOf(f, u \ {Pick(u)})
        BY <3>1 DEF Solved
      <3>3. g[u] = SumOf(f, u)
        BY <3>1, <3>2
      <3>4. g[s] = f[Pick(s)] + SumOf(f, u)
        BY <2>2
      <3> QED
        BY <3>3, <3>4, <2>2 DEF Step
    <2> QED
      BY <2>1, <2>2
  <1>2. Rec(f, S, g)
    BY <1>1 DEF Rec
  <1>3. Rec(f, S, CHOOSE h : Rec(f, S, h))
    BY <1>2
  <1>4. g = CHOOSE h : Rec(f, S, h)
    BY <1>2, <1>3, Unique
  <1>5. SumOf(f, S) = g[S]
    BY <1>4, Unfold
  <1> QED
    BY <1>5 DEF Solved

\* The recursion of a sum over a finite set has its solution: the sum is that
\* of a chosen element and of the rest.
LEMMA SumDef == ASSUME NEW S, IsFiniteSet(S), NEW f PROVE Solved(f, S)
  <1> DEFINE C == {s \in SUBSET S : ~ Solved(f, s)}
  <1>1. C = {}
    <2> SUFFICES ASSUME C # {} PROVE FALSE
      OBVIOUS
    <2>0. C \in SUBSET (SUBSET S) /\ C # {}
      OBVIOUS
    <2> HIDE DEF C
    <2>1. PICK T \in C : \A U \in C : U \subseteq T => U = T
      BY <2>0, Least
    <2> USE DEF C
    <2>2. IsFiniteSet(T)
      BY FS_Subset
    <2>3. \A U \in SUBSET T : U # T => Solved(f, U)
      BY <2>1
    <2> QED
      BY <2>2, <2>3, SolvedStep
  <1> QED
    BY <1>1

\* Nothing adds up to zero.
LEMMA SumEmpty == ASSUME NEW f PROVE SumOf(f, {}) = 0
  BY SumDef, FS_EmptySet DEF Solved

\* The sum of integers is an integer.
LEMMA SumType ==
  ASSUME NEW S, IsFiniteSet(S), NEW f \in [S -> Int], NEW K \in SUBSET S
  PROVE  SumOf(f, K) \in Int
  <1> DEFINE C == {s \in SUBSET S : SumOf(f, s) \notin Int}
  <1>1. C = {}
    <2> SUFFICES ASSUME C # {} PROVE FALSE
      OBVIOUS
    <2>0. C \in SUBSET (SUBSET S) /\ C # {}
      OBVIOUS
    <2> HIDE DEF C
    <2>1. PICK T \in C : \A U \in C : U \subseteq T => U = T
      BY <2>0, Least
    <2> USE DEF C
    <2>2. IsFiniteSet(T) /\ Solved(f, T)
      BY FS_Subset, SumDef
    <2>3. T # {}
      BY <2>1, <2>2 DEF Solved
    <2>4. Pick(T) \in T
      BY <2>3, PickIn
    <2>5. SumOf(f, T \ {Pick(T)}) \in Int
      BY <2>1, <2>4
    <2> QED
      BY <2>1, <2>2, <2>3, <2>4, <2>5 DEF Solved
  <1> QED
    BY <1>1

\* A sum is that of any element and of the rest, whichever was chosen first.
LEMMA SumRemove ==
  ASSUME NEW S, IsFiniteSet(S), NEW f \in [S -> Int], NEW K \in SUBSET S, NEW z \in K
  PROVE  SumOf(f, K) = f[z] + SumOf(f, K \ {z})
  <1> DEFINE C == {s \in SUBSET S : \E x \in s : SumOf(f, s) # f[x] + SumOf(f, s \ {x})}
  <1>1. C = {}
    <2> SUFFICES ASSUME C # {} PROVE FALSE
      OBVIOUS
    <2>0. C \in SUBSET (SUBSET S) /\ C # {}
      OBVIOUS
    <2> HIDE DEF C
    <2>1. PICK T \in C : \A U \in C : U \subseteq T => U = T
      BY <2>0, Least
    <2> USE DEF C
    <2>2. PICK x \in T : SumOf(f, T) # f[x] + SumOf(f, T \ {x})
      OBVIOUS
    <2> DEFINE p == Pick(T)
               R == T \ {p, x}
    <2>3. p \in T
      BY PickIn
    <2>4. SumOf(f, T) = f[p] + SumOf(f, T \ {p})
      BY FS_Subset, SumDef DEF Solved
    <2>5. p # x
      BY <2>2, <2>4
    <2> HIDE DEF p
    <2>6. /\ T \ {p} \in SUBSET S /\ T \ {p} # T /\ x \in T \ {p} /\ (T \ {p}) \ {x} = R
          /\ T \ {x} \in SUBSET S /\ T \ {x} # T /\ p \in T \ {x} /\ (T \ {x}) \ {p} = R
      BY <2>3, <2>5
    <2> HIDE DEF R
    <2>7. T \ {p} \notin C /\ T \ {x} \notin C
      BY <2>1, <2>6
    <2>8. /\ SumOf(f, T \ {p}) = f[x] + SumOf(f, R)
          /\ SumOf(f, T \ {x}) = f[p] + SumOf(f, R)
      BY <2>6, <2>7
    <2>9. f[x] \in Int /\ f[p] \in Int /\ SumOf(f, R) \in Int
      <3>1. R \in SUBSET S
        BY <2>6
      <3> QED
        BY <2>3, <3>1, SumType
    <2> QED
      BY <2>2, <2>4, <2>8, <2>9
  <1> QED
    BY <1>1

\* A collection that has the empty set, and with each set the set with one
\* element more, has the whole finite set.
LEMMA SetInduction ==
  ASSUME NEW S, IsFiniteSet(S), NEW C, {} \in C,
         \A T \in SUBSET S, x \in S : T \in C /\ x \notin T => T \cup {x} \in C
  PROVE  S \in C
  <1> DEFINE D == (SUBSET S) \ C
  <1>1. D = {}
    <2> SUFFICES ASSUME D # {} PROVE FALSE
      OBVIOUS
    <2>0. D \in SUBSET (SUBSET S) /\ D # {}
      OBVIOUS
    <2> HIDE DEF D
    <2>1. PICK T \in D : \A U \in D : U \subseteq T => U = T
      BY <2>0, Least
    <2> USE DEF D
    <2>2. T # {}
      OBVIOUS
    <2>3. PICK x \in T : TRUE
      BY <2>2
    <2>4. T \ {x} \in SUBSET S /\ T \ {x} \in C
      BY <2>1
    <2>5. (T \ {x}) \cup {x} = T
      OBVIOUS
    <2> QED
      BY <2>4, <2>5
  <1> QED
    BY <1>1

\* f and g agree on K.
Same(f, g, K) == IsFiniteSet(K) /\ \A x \in K : g[x] = f[x]

\* Functions that agree on a set have the same sum over it.
LEMMA SumSame ==
  ASSUME NEW f, NEW g, NEW K, Same(f, g, K)
  PROVE  SumOf(g, K) = SumOf(f, K)
  <1> DEFINE C == {T \in SUBSET K : SumOf(g, T) # SumOf(f, T)}
  <1>0. IsFiniteSet(K) /\ \A x \in K : g[x] = f[x]
    BY DEF Same
  <1>1. C = {}
    <2> SUFFICES ASSUME C # {} PROVE FALSE
      OBVIOUS
    <2>0. C \in SUBSET (SUBSET K) /\ C # {}
      OBVIOUS
    <2> HIDE DEF C
    <2>1. PICK T \in C : \A U \in C : U \subseteq T => U = T
      BY <1>0, <2>0, Least
    <2> USE DEF C
    <2>2. IsFiniteSet(T) /\ Solved(f, T) /\ Solved(g, T)
      BY <1>0, FS_Subset, SumDef
    <2>3. T # {}
      BY <2>1, <2>2 DEF Solved
    <2>4. Pick(T) \in T
      BY <2>3, PickIn
    <2>5. SumOf(g, T \ {Pick(T)}) = SumOf(f, T \ {Pick(T)})
      BY <2>1, <2>4
    <2> QED
      BY <1>0, <2>1, <2>2, <2>3, <2>4, <2>5 DEF Solved
  <1> QED
    BY <1>1

\* One element more adds its value.
LEMMA SumInsert ==
  ASSUME NEW S, IsFiniteSet(S), NEW f \in [S -> Int],
         NEW K \in SUBSET S, NEW x \in S, x \notin K
  PROVE  SumOf(f, K \cup {x}) = SumOf(f, K) + f[x]
  <1>1. K \cup {x} \in SUBSET S /\ x \in K \cup {x} /\ (K \cup {x}) \ {x} = K
    OBVIOUS
  <1>2. SumOf(f, K \cup {x}) = f[x] + SumOf(f, K)
    BY <1>1, SumRemove
  <1>3. SumOf(f, K) \in Int
    BY SumType
  <1> QED
    BY <1>2, <1>3

\* g is f with the value of m, a new argument, added.
Grown(f, g, m) ==
  /\ IsFiniteSet(DOMAIN f) /\ f \in [DOMAIN f -> Int]
  /\ m \notin DOMAIN f /\ g \in [DOMAIN f \cup {m} -> Int]
  /\ \A x \in DOMAIN f : g[x] = f[x]

\* A function defined at one argument more: the other sums are as before.
LEMMA SumGrown ==
  ASSUME NEW f, NEW g, NEW m, Grown(f, g, m), NEW K, K \subseteq DOMAIN f
  PROVE  /\ SumOf(f, K) \in Int
         /\ SumOf(g, K) = SumOf(f, K)
         /\ SumOf(g, K \cup {m}) = SumOf(f, K) + g[m]
  <1> DEFINE S == DOMAIN f
             U == DOMAIN f \cup {m}
  <1>0. /\ IsFiniteSet(S) /\ f \in [S -> Int] /\ g \in [U -> Int]
        /\ m \notin S /\ \A x \in S : g[x] = f[x]
    BY DEF Grown
  <1>1. IsFiniteSet(U)
    BY <1>0, FS_AddElement
  <1>2. K \in SUBSET S /\ K \in SUBSET U /\ m \in U /\ m \notin K /\ \A x \in K : g[x] = f[x]
    BY <1>0
  <1> HIDE DEF S, U
  <1>3. SumOf(f, K) \in Int
    BY <1>0, <1>2, SumType
  <1>4. SumOf(g, K) = SumOf(f, K)
    <2>1. Same(f, g, K)
      BY <1>0, <1>2, FS_Subset DEF Same
    <2> QED
      BY <2>1, SumSame
  <1>5. SumOf(g, K \cup {m}) = SumOf(g, K) + g[m]
    BY <1>0, <1>1, <1>2, SumInsert
  <1> QED
    BY <1>3, <1>4, <1>5

\* On K, g differs from f at x only.
Changed(f, g, x, K) ==
  /\ IsFiniteSet(K) /\ x \in K /\ K \subseteq DOMAIN f /\ K \subseteq DOMAIN g
  /\ \A y \in K : f[y] \in Int /\ g[y] \in Int
  /\ \A y \in K : y # x => g[y] = f[y]

\* A change at one argument changes a sum by the difference.
LEMMA SumChanged ==
  ASSUME NEW f, NEW g, NEW K, NEW x, Changed(f, g, x, K)
  PROVE  SumOf(f, K) \in Int /\ SumOf(g, K) = SumOf(f, K) - f[x] + g[x]
  <1> DEFINE a == [y \in K |-> f[y]]
             b == [y \in K |-> g[y]]
  <1>1. /\ a \in [K -> Int] /\ b \in [K -> Int] /\ IsFiniteSet(K) /\ K \in SUBSET K
        /\ x \in K /\ K \ {x} \in SUBSET K /\ a[x] = f[x] /\ b[x] = g[x]
    BY DEF Changed
  <1>2. \A y \in K \ {x} : b[y] = a[y]
    BY DEF Changed
  <1>3. SumOf(a, K) = SumOf(f, K) /\ SumOf(b, K) = SumOf(g, K)
    <2>1. Same(f, a, K) /\ Same(g, b, K)
      BY <1>1 DEF Same
    <2> HIDE DEF a, b
    <2> QED
      BY <2>1, SumSame
  <1> HIDE DEF a, b
  <1>4. SumOf(b, K \ {x}) = SumOf(a, K \ {x})
    <2>1. Same(a, b, K \ {x})
      BY <1>1, <1>2, FS_Subset DEF Same
    <2> QED
      BY <2>1, SumSame
  <1>5. SumOf(a, K) = a[x] + SumOf(a, K \ {x})
    BY <1>1, SumRemove
  <1>6. SumOf(b, K) = b[x] + SumOf(b, K \ {x})
    BY <1>1, SumRemove
  <1>7. SumOf(a, K \ {x}) \in Int /\ SumOf(a, K) \in Int
    BY <1>1, SumType
  <1> QED
    BY <1>1, <1>3, <1>4, <1>5, <1>6, <1>7

\* What is zero does not count.
LEMMA SumElsewhereZero ==
  ASSUME NEW S, IsFiniteSet(S), NEW f \in [S -> Int], NEW T \in SUBSET S,
         \A x \in S \ T : f[x] = 0
  PROVE  SumOf(f, S) = SumOf(f, T)
  <1> DEFINE C == {U \in SUBSET S : SumOf(f, U) = SumOf(f, U \cap T)}
  <1>1. {} \in C
    BY SumEmpty
  <1>2. ASSUME NEW U \in SUBSET S, NEW x \in S, U \in C, x \notin U
        PROVE  U \cup {x} \in C
    <2>1. SumOf(f, U \cup {x}) = SumOf(f, U) + f[x]
      BY <1>2, SumInsert
    <2>2. SumOf(f, U) = SumOf(f, U \cap T)
      BY <1>2
    <2>3. CASE x \in T
      <3>1. U \cap T \in SUBSET S /\ x \notin U \cap T /\ (U \cup {x}) \cap T = (U \cap T) \cup {x}
        BY <1>2, <2>3
      <3>2. SumOf(f, (U \cap T) \cup {x}) = SumOf(f, U \cap T) + f[x]
        BY <3>1, SumInsert
      <3> QED
        BY <2>1, <2>2, <3>1, <3>2
    <2>4. CASE x \notin T
      <3>1. (U \cup {x}) \cap T = U \cap T /\ f[x] = 0 /\ SumOf(f, U) \in Int
        BY <2>4, SumType
      <3>2. SumOf(f, U \cup {x}) = SumOf(f, U)
        BY <2>1, <3>1
      <3> QED
        BY <2>2, <3>1, <3>2
    <2> QED
      BY <2>3, <2>4
  <1> HIDE DEF C
  <1>3. S \in C
    BY <1>1, <1>2, SetInduction
  <1>4. S \cap T = T
    OBVIOUS
  <1> QED
    BY <1>3, <1>4 DEF C

\* Naturals add up to a natural that is no less than any of them.
LEMMA SumNat ==
  ASSUME NEW S, IsFiniteSet(S), NEW f \in [S -> Nat], NEW K \in SUBSET S
  PROVE  SumOf(f, K) \in Nat /\ \A x \in K : f[x] =< SumOf(f, K)
  <1> DEFINE C == {T \in SUBSET S : SumOf(f, T) \in Nat}
  <1>0. f \in [S -> Int]
    OBVIOUS
  <1>1. {} \in C
    BY SumEmpty
  <1>2. ASSUME NEW T \in SUBSET S, NEW x \in S, T \in C, x \notin T
        PROVE  T \cup {x} \in C
    <2>1. SumOf(f, T \cup {x}) = SumOf(f, T) + f[x]
      BY <1>0, <1>2, SumInsert
    <2> QED
      BY <1>2, <2>1
  <1>3. ASSUME NEW T \in SUBSET S
        PROVE  SumOf(f, T) \in Nat
    <2> DEFINE D == {V \in SUBSET T : SumOf(f, V) \in Nat}
    <2>1. IsFiniteSet(T)
      BY FS_Subset
    <2>2. {} \in D /\ \A V \in SUBSET T, x \in T : V \in D /\ x \notin V => V \cup {x} \in D
      BY <1>1, <1>2
    <2> HIDE DEF D
    <2>3. T \in D
      BY <2>1, <2>2, SetInduction
    <2> QED
      BY <2>3 DEF D
  <1>4. ASSUME NEW x \in K PROVE f[x] =< SumOf(f, K)
    <2>1. SumOf(f, K) = f[x] + SumOf(f, K \ {x})
      BY <1>0, SumRemove
    <2>2. K \ {x} \in SUBSET S
      OBVIOUS
    <2>3. SumOf(f, K \ {x}) \in Nat
      BY <1>3, <2>2
    <2> QED
      BY <2>1, <2>3
  <1> QED
    BY <1>3, <1>4

\* The sum of sums.
LEMMA SumPlus ==
  ASSUME NEW S, IsFiniteSet(S), NEW f \in [S -> Int], NEW g \in [S -> Int],
         NEW h \in [S -> Int], \A x \in S : h[x] = f[x] + g[x]
  PROVE  SumOf(h, S) = SumOf(f, S) + SumOf(g, S)
  <1> DEFINE C == {T \in SUBSET S : SumOf(h, T) = SumOf(f, T) + SumOf(g, T)}
  <1>1. {} \in C
    BY SumEmpty
  <1>2. ASSUME NEW T \in SUBSET S, NEW x \in S, T \in C, x \notin T
        PROVE  T \cup {x} \in C
    <2>1. SumOf(f, T \cup {x}) = SumOf(f, T) + f[x]
      BY <1>2, SumInsert
    <2>2. SumOf(g, T \cup {x}) = SumOf(g, T) + g[x]
      BY <1>2, SumInsert
    <2>3. SumOf(h, T \cup {x}) = SumOf(h, T) + h[x]
      BY <1>2, SumInsert
    <2>4. SumOf(f, T) \in Int /\ SumOf(g, T) \in Int
      BY SumType
    <2>5. SumOf(h, T) = SumOf(f, T) + SumOf(g, T)
      BY <1>2
    <2>6. f[x] \in Int /\ g[x] \in Int /\ h[x] = f[x] + g[x]
      OBVIOUS
    <2> QED
      BY <2>1, <2>2, <2>3, <2>4, <2>5, <2>6
  <1> HIDE DEF C
  <1>3. S \in C
    BY <1>1, <1>2, SetInduction
  <1> QED
    BY <1>3 DEF C

\* Sums are monotonic.
LEMMA SumAtMost ==
  ASSUME NEW S, IsFiniteSet(S), NEW f \in [S -> Int], NEW g \in [S -> Int],
         \A x \in S : f[x] =< g[x]
  PROVE  SumOf(f, S) =< SumOf(g, S)
  <1> DEFINE h == [x \in S |-> g[x] - f[x]]
  <1>1. h \in [S -> Nat] /\ h \in [S -> Int] /\ S \in SUBSET S
    OBVIOUS
  <1>2. \A x \in S : g[x] = f[x] + h[x]
    OBVIOUS
  <1>3. SumOf(h, S) \in Nat
    BY <1>1, SumNat
  <1> HIDE DEF h
  <1>4. SumOf(g, S) = SumOf(f, S) + SumOf(h, S)
    BY <1>1, <1>2, SumPlus
  <1>5. SumOf(f, S) \in Int
    BY <1>1, SumType
  <1> QED
    BY <1>3, <1>4, <1>5

-----------------------------------------------------------------------------
\* SumFunction is the sum over the domain.
LEMMA SumOn ==
  ASSUME NEW S, NEW f, DOMAIN f = S
  PROVE  SumFunction(f) = SumOf(f, S)
  BY DEF SumFunction, SumOf

\* A sum over two sets that have nothing in common.
LEMMA SumUnion ==
  ASSUME NEW S, IsFiniteSet(S), NEW f \in [S -> Int], NEW A \in SUBSET S, NEW B \in SUBSET S,
         A \cap B = {}
  PROVE  SumOf(f, A \cup B) = SumOf(f, A) + SumOf(f, B)
  <1> DEFINE C == {T \in SUBSET B : SumOf(f, A \cup T) = SumOf(f, A) + SumOf(f, T)}
  <1>0. IsFiniteSet(B)
    BY FS_Subset
  <1>1. {} \in C
    <2>1. A \cup {} = A /\ SumOf(f, A) \in Int
      BY SumType
    <2> QED BY <2>1, SumEmpty
  <1>2. ASSUME NEW T \in SUBSET B, NEW x \in B, T \in C, x \notin T
        PROVE  T \cup {x} \in C
    <2>1. SumOf(f, A \cup T) = SumOf(f, A) + SumOf(f, T)
      BY <1>2
    <2>2. /\ A \cup T \in SUBSET S /\ T \in SUBSET S /\ x \in S /\ x \notin A \cup T /\ x \notin T
          /\ A \cup (T \cup {x}) = (A \cup T) \cup {x} /\ T \cup {x} \in SUBSET B
      BY <1>2
    <2>3. SumOf(f, (A \cup T) \cup {x}) = SumOf(f, A \cup T) + f[x]
      BY <2>2, SumInsert
    <2>4. SumOf(f, T \cup {x}) = SumOf(f, T) + f[x]
      BY <2>2, SumInsert
    <2>5. SumOf(f, A) \in Int /\ SumOf(f, T) \in Int /\ f[x] \in Int
      BY <2>2, SumType
    <2>6. SumOf(f, A \cup (T \cup {x})) = SumOf(f, A) + SumOf(f, T \cup {x})
      <3> HIDE DEF C
      <3>1. SumOf(f, A \cup (T \cup {x})) = SumOf(f, A \cup T) + f[x]
        BY <2>2, <2>3
      <3> QED BY <2>1, <2>4, <2>5, <3>1
    <2> QED BY <2>2, <2>6
  <1> HIDE DEF C
  <1>3. B \in C
    BY <1>0, <1>1, <1>2, SetInduction
  <1> QED BY <1>3 DEF C

\* What is zero does not count.
LEMMA SumZeroOutside ==
  ASSUME NEW S, IsFiniteSet(S), NEW f \in [S -> Int], NEW K \in SUBSET S, NEW T \in SUBSET K,
         \A x \in K \ T : f[x] = 0
  PROVE  SumOf(f, K) = SumOf(f, T)
  <1> DEFINE g == [x \in K |-> f[x]]
  <1>1. IsFiniteSet(K) /\ IsFiniteSet(T)
    BY FS_Subset
  <1>2. g \in [K -> Int] /\ \A x \in K \ T : g[x] = 0
    OBVIOUS
  <1>3. Same(g, f, K) /\ Same(g, f, T)
    BY <1>1 DEF Same
  <1> HIDE DEF g
  <1>4. SumOf(f, K) = SumOf(g, K) /\ SumOf(f, T) = SumOf(g, T)
    BY <1>3, SumSame
  <1>5. SumOf(g, K) = SumOf(g, T)
    BY <1>1, <1>2, SumElsewhereZero
  <1> QED BY <1>4, <1>5

\* The sum over one element.
LEMMA SumOne ==
  ASSUME NEW f, NEW x, f[x] \in Int
  PROVE  SumOf(f, {x}) = f[x]
  <1>1. IsFiniteSet({x}) /\ {x} \ {x} = {} /\ {x} # {} /\ Pick({x}) = x
    BY FS_Singleton, PickIn
  <1>2. SumOf(f, {x}) = f[x] + SumOf(f, {})
    BY <1>1, SumDef DEF Solved
  <1> QED BY <1>2, SumEmpty

\* g[y] is the sum of f over what p maps to y.
Parts(f, p, g) == /\ p \in [DOMAIN f -> DOMAIN g]
                  /\ \A y \in DOMAIN g : g[y] = SumOf(f, {x \in DOMAIN f : p[x] = y})

\* A sum can be taken part by part.
LEMMA SumParts ==
  ASSUME NEW S, IsFiniteSet(S), NEW f \in [S -> Int],
         NEW T, IsFiniteSet(T), NEW g \in [T -> Int], NEW p, Parts(f, p, g)
  PROVE  SumOf(f, S) = SumOf(g, T)
  <1> DEFINE Of(U) == {x \in S : p[x] \in U}
             At(y) == {x \in S : p[x] = y}
             C == {U \in SUBSET T : SumOf(f, Of(U)) = SumOf(g, U)}
  <1>0. p \in [S -> T] /\ \A y \in T : g[y] = SumOf(f, At(y))
    BY DEF Parts
  <1>1. {} \in C
    <2>1. Of({}) = {}
      OBVIOUS
    <2> QED BY <2>1, SumEmpty
  <1>2. ASSUME NEW U \in SUBSET T, NEW y \in T, U \in C, y \notin U
        PROVE  U \cup {y} \in C
    <2>1. SumOf(f, Of(U)) = SumOf(g, U)
      BY <1>2
    <2>2. /\ Of(U \cup {y}) = Of(U) \cup At(y) /\ Of(U) \cap At(y) = {}
          /\ Of(U) \in SUBSET S /\ At(y) \in SUBSET S
      BY <1>2
    <2>3. SumOf(f, Of(U) \cup At(y)) = SumOf(f, Of(U)) + SumOf(f, At(y))
      <3> HIDE DEF Of, At
      <3> QED BY <2>2, SumUnion
    <2>4. SumOf(g, U \cup {y}) = SumOf(g, U) + g[y]
      BY <1>2, SumInsert
    <2>5. g[y] = SumOf(f, At(y))
      BY <1>0
    <2>6. SumOf(f, Of(U \cup {y})) = SumOf(g, U \cup {y})
      <3> HIDE DEF Of, At
      <3> QED BY <2>1, <2>2, <2>3, <2>4, <2>5
    <2> QED BY <2>6
  <1> HIDE DEF C
  <1>3. T \in C
    BY <1>1, <1>2, SetInduction
  <1>4. Of(T) = S
    BY <1>0
  <1> QED BY <1>3, <1>4 DEF C

\* The difference of the sums of two functions of which the second was zero on
\* what is new.
LEMMA SumMoved ==
  ASSUME NEW S, IsFiniteSet(S), NEW f \in [S -> Int], NEW g \in [S -> Int], NEW h \in [S -> Int],
         \A x \in S : h[x] = g[x] - f[x],
         NEW Q \in SUBSET S, NEW R \in SUBSET Q, \A x \in Q \ R : f[x] = 0
  PROVE  SumOf(g, Q) = SumOf(f, R) + SumOf(h, Q)
  <1> DEFINE a == [x \in Q |-> f[x]]
             b == [x \in Q |-> g[x]]
             c == [x \in Q |-> h[x]]
  <1>1. IsFiniteSet(Q)
    BY FS_Subset
  <1>2. a \in [Q -> Int] /\ b \in [Q -> Int] /\ c \in [Q -> Int]
    OBVIOUS
  <1>3. \A x \in Q : b[x] = a[x] + c[x]
    OBVIOUS
  <1>4. Same(a, f, Q) /\ Same(b, g, Q) /\ Same(c, h, Q)
    BY <1>1 DEF Same
  <1> HIDE DEF a, b, c
  <1>5. SumOf(b, Q) = SumOf(a, Q) + SumOf(c, Q)
    BY <1>1, <1>2, <1>3, SumPlus
  <1>6. SumOf(f, Q) = SumOf(a, Q) /\ SumOf(g, Q) = SumOf(b, Q) /\ SumOf(h, Q) = SumOf(c, Q)
    BY <1>4, SumSame
  <1>7. SumOf(f, Q) = SumOf(f, R)
    BY SumZeroOutside
  <1> QED BY <1>5, <1>6, <1>7

\* The sum of a function that is zero but for one argument.
LEMMA SumPoint ==
  ASSUME NEW S, IsFiniteSet(S), NEW f \in [S -> Int], NEW K \in SUBSET S, NEW x \in S,
         \A y \in K : y # x => f[y] = 0
  PROVE  SumOf(f, K) = IF x \in K THEN f[x] ELSE 0
  <1>1. CASE x \in K
    <2>1. {x} \in SUBSET K /\ \A y \in K \ {x} : f[y] = 0
      BY <1>1
    <2>2. SumOf(f, K) = SumOf(f, {x})
      BY <2>1, SumZeroOutside
    <2> QED BY <1>1, <2>2, SumOne
  <1>2. CASE x \notin K
    <2>1. {} \in SUBSET K /\ \A y \in K \ {} : f[y] = 0
      BY <1>2
    <2>2. SumOf(f, K) = SumOf(f, {})
      BY <2>1, SumZeroOutside
    <2> QED BY <1>2, <2>2, SumEmpty
  <1> QED BY <1>1, <1>2

\* f is d on K, and zero elsewhere.
Extends(f, d, K) == /\ K \subseteq DOMAIN f
                    /\ \A x \in K : f[x] = d[x]
                    /\ \A x \in DOMAIN f \ K : f[x] = 0

\* The sum of a function that is zero outside a set.
LEMMA SumPicked ==
  ASSUME NEW S, IsFiniteSet(S), NEW f \in [S -> Int], NEW K, NEW d, Extends(f, d, K)
  PROVE  SumOf(f, S) = SumOf(d, K)
  <1>0. K \in SUBSET S /\ \A x \in S \ K : f[x] = 0
    BY DEF Extends
  <1>1. SumOf(f, S) = SumOf(f, K)
    BY <1>0, SumElsewhereZero
  <1>2. Same(d, f, K)
    BY <1>0, FS_Subset DEF Same, Extends
  <1>3. SumOf(f, K) = SumOf(d, K)
    BY <1>2, SumSame
  <1> QED BY <1>1, <1>3

\* The sum of what is subtracted.
LEMMA SumNegated ==
  ASSUME NEW S, IsFiniteSet(S), NEW f \in [S -> Int], NEW g \in [S -> Int],
         \A x \in S : g[x] = -f[x], NEW K \in SUBSET S
  PROVE  SumOf(g, K) = -SumOf(f, K)
  <1> DEFINE a == [x \in K |-> f[x]]
             b == [x \in K |-> g[x]]
             z == [x \in K |-> 0]
  <1>1. IsFiniteSet(K)
    BY FS_Subset
  <1>2. a \in [K -> Int] /\ b \in [K -> Int] /\ z \in [K -> Int]
    OBVIOUS
  <1>3. \A x \in K : z[x] = a[x] + b[x]
    OBVIOUS
  <1>4. Same(a, f, K) /\ Same(b, g, K)
    BY <1>1 DEF Same
  <1>5. {} \in SUBSET K /\ \A x \in K \ {} : z[x] = 0
    OBVIOUS
  <1> HIDE DEF a, b, z
  <1>6. SumOf(z, K) = SumOf(a, K) + SumOf(b, K)
    BY <1>1, <1>2, <1>3, SumPlus
  <1>7. SumOf(f, K) = SumOf(a, K) /\ SumOf(g, K) = SumOf(b, K)
    BY <1>4, SumSame
  <1>8. SumOf(z, K) = SumOf(z, {})
    BY <1>1, <1>2, <1>5, SumElsewhereZero
  <1>9. SumOf(z, K) = 0
    BY <1>8, SumEmpty
  <1>10. SumOf(f, K) \in Int /\ SumOf(g, K) \in Int
    BY SumType
  <1> QED BY <1>6, <1>7, <1>9, <1>10

\* A multiple of each amount adds up to that multiple of the sum.
LEMMA SumScaled ==
  ASSUME NEW S, IsFiniteSet(S), NEW f \in [S -> Int], NEW g \in [S -> Int], NEW c \in Int,
         \A x \in S : g[x] = c * f[x]
  PROVE  SumOf(g, S) = c * SumOf(f, S)
  <1> DEFINE C == {T \in SUBSET S : SumOf(g, T) = c * SumOf(f, T)}
  <1>1. {} \in C
    BY SumEmpty
  <1>2. ASSUME NEW T \in SUBSET S, NEW x \in S, T \in C, x \notin T
        PROVE  T \cup {x} \in C
    <2>1. /\ SumOf(g, T \cup {x}) = SumOf(g, T) + g[x]
          /\ SumOf(f, T \cup {x}) = SumOf(f, T) + f[x]
          /\ SumOf(f, T) \in Int /\ f[x] \in Int
      BY <1>2, SumInsert, SumType
    <2>2. \A m, n \in Int : c * (m + n) = c * m + c * n
      BY SMT
    <2> QED BY <1>2, <2>1, <2>2
  <1>3. S \in C
    <2> HIDE DEF C
    <2> QED BY <1>1, <1>2, SetInduction
  <1> QED BY <1>3
=============================================================================
