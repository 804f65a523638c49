------------------------------ MODULE SumTheorems ------------------------------
(***************************************************************************)
(* Sums over finite sets, as SumFunctionOnSet computes them: one element   *)
(* after the other, in an order of its own choice.  The balances of all    *)
(* brackets, users or accounts are such sums.  Every proof by induction    *)
(* looks for a smallest counterexample: a number, or a set.                *)
(***************************************************************************)
EXTENDS Integers, FiniteSets, Functions, FiniteSetTheorems, WellFoundedInduction, TLAPS

(* A set of natural numbers has a smallest one.                            *)
LEMMA SmallestNumber ==
    ASSUME NEW Bad \in SUBSET Nat, Bad # {}
    PROVE  \E m \in Bad : \A k \in Bad : m <= k
<1>1. PICK m \in Bad : \A k \in Bad : ~(<<k, m>> \in OpToRel(<, Nat))
  BY NatLessThanWellFounded, WFMin
<1>2. ASSUME NEW k \in Bad PROVE m <= k
  <2>1. <<k, m>> \in Nat \X Nat
    OBVIOUS
  <2>2. ~(k < m)
    BY <1>1, <2>1 DEF OpToRel
  <2>3. QED
    BY <2>2
<1>3. QED
  BY <1>2

(* A family of subsets of a finite set has a member that contains no other *)
(* one.                                                                    *)
LEMMA SmallestSet ==
    ASSUME NEW S, IsFiniteSet(S), NEW Bad \in SUBSET SUBSET S, Bad # {}
    PROVE  \E T \in Bad : \A U \in SUBSET T : U # T => U \notin Bad
<1>1. Bad \subseteq FiniteSubsetsOf(S)
  BY FS_Subset DEF FiniteSubsetsOf
<1>2. PICK T \in Bad : \A U \in Bad : ~(<<U, T>> \in StrictSubsetOrdering(S))
  BY <1>1, FS_StrictSubsetOrderingWellFounded, WFMin
<1>3. ASSUME NEW U \in SUBSET T, U # T, U \in Bad
      PROVE  FALSE
  BY <1>1, <1>2, <1>3, FS_Subset DEF StrictSubsetOrdering, FiniteSubsetsOf
<1>4. QED
  BY <1>3
-----------------------------------------------------------------------------
(***************************************************************************)
(* The recursive function that sums has the values its definition says.    *)
(***************************************************************************)
Pick(s) == CHOOSE x \in s : TRUE

IsSum(f, iter, S) ==
    iter = [s \in SUBSET S |-> IF s = {} THEN 0 ELSE f[Pick(s)] + iter[s \ {Pick(s)}]]

LEMMA SumIsIter ==
    ASSUME NEW f, NEW S
    PROVE  SumFunctionOnSet(f, S) = (CHOOSE iter : IsSum(f, iter, S))[S]
BY DEF SumFunctionOnSet, FoldFunctionOnSet, MapThenFoldSet, IsSum, Pick

LEMMA SumsAgree ==
    ASSUME NEW f, NEW S, IsFiniteSet(S), NEW A \in SUBSET S, NEW B \in SUBSET S,
           NEW g, IsSum(f, g, A), NEW h, IsSum(f, h, B),
           NEW s \in SUBSET (A \cap B)
    PROVE  g[s] = h[s]
<1> DEFINE Bad == {t \in SUBSET (A \cap B) : g[t] # h[t]}
<1>1. ASSUME Bad # {}
      PROVE  FALSE
  <2>1. Bad \in SUBSET SUBSET S
    OBVIOUS
  <2>2. PICK t \in Bad : \A u \in SUBSET t : u # t => u \notin Bad
    <3> HIDE DEF Bad
    <3>1. QED
      BY <1>1, <2>1, SmallestSet, Zenon
  <2>3. t \in SUBSET A /\ t \in SUBSET B /\ g[t] # h[t]
    OBVIOUS
  <2>4. /\ g[t] = IF t = {} THEN 0 ELSE f[Pick(t)] + g[t \ {Pick(t)}]
        /\ h[t] = IF t = {} THEN 0 ELSE f[Pick(t)] + h[t \ {Pick(t)}]
    BY <2>3, Zenon DEF IsSum
  <2>5. t # {}
    BY <2>3, <2>4
  <2>6. Pick(t) \in t
    BY <2>5 DEF Pick
  <2>7. t \ {Pick(t)} \in SUBSET (A \cap B) /\ t \ {Pick(t)} \notin Bad
    BY <2>2, <2>6
  <2>8. g[t \ {Pick(t)}] = h[t \ {Pick(t)}]
    BY <2>7
  <2>9. QED
    BY <2>3, <2>4, <2>8
<1>2. QED
  BY <1>1

LEMMA SumExists ==
    ASSUME NEW f, NEW S, IsFiniteSet(S)
    PROVE  \A T \in SUBSET S : \E iter : IsSum(f, iter, T)
<1> DEFINE Bad == {T \in SUBSET S : ~\E iter : IsSum(f, iter, T)}
<1>1. ASSUME Bad # {}
      PROVE  FALSE
  <2>1. PICK T \in Bad : \A U \in SUBSET T : U # T => U \notin Bad
    <3>1. Bad \in SUBSET SUBSET S
      OBVIOUS
    <3> HIDE DEF Bad
    <3>2. QED
      BY <1>1, <3>1, SmallestSet, Zenon
  <2> DEFINE For(U) == CHOOSE iter : IsSum(f, iter, U)
             Less(s) == s \ {Pick(s)}
             g == [s \in SUBSET T |-> IF s = {} THEN 0 ELSE f[Pick(s)] + For(Less(s))[Less(s)]]
  <2>2. ASSUME NEW U \in SUBSET T, U # T
        PROVE  IsSum(f, For(U), U)
    <3>1. \E iter : IsSum(f, iter, U)
      BY <2>1, <2>2
    <3>2. QED
      BY <3>1
  <2>3. ASSUME NEW s \in SUBSET T, s # {}
        PROVE  Less(s) \in SUBSET T /\ Less(s) # T /\ Pick(s) \in s
    BY <2>3 DEF Pick
  <2>4. ASSUME NEW U \in SUBSET T, U # T
        PROVE  g[U] = For(U)[U]
    <3>1. For(U)[U] = IF U = {} THEN 0 ELSE f[Pick(U)] + For(U)[Less(U)]
      <4> HIDE DEF For
      <4>1. U \in SUBSET U
        OBVIOUS
      <4>2. QED
        BY <2>2, <2>4, <4>1, Zenon DEF IsSum
    <3>2. CASE U = {}
      BY <3>1, <3>2
    <3>3. CASE U # {}
      <4>1. Less(U) \in SUBSET (U \cap Less(U)) /\ U \in SUBSET S /\ Less(U) \in SUBSET S
        OBVIOUS
      <4>2. IsSum(f, For(U), U) /\ IsSum(f, For(Less(U)), Less(U))
        BY <2>2, <2>3, <2>4, <3>3
      <4> HIDE DEF For, Less
      <4>3. For(U)[Less(U)] = For(Less(U))[Less(U)]
        BY <4>1, <4>2, SumsAgree
      <4>4. QED
        BY <3>1, <3>3, <4>3
    <3>4. QED
      BY <3>2, <3>3
  <2>5. ASSUME NEW s \in SUBSET T, s # {}
        PROVE  For(Less(s))[Less(s)] = g[Less(s)]
    BY <2>3, <2>4, <2>5, Zenon
  <2> DEFINE G == [s \in SUBSET T |-> IF s = {} THEN 0 ELSE f[Pick(s)] + g[Less(s)]]
  <2>6. g = G
    <3> HIDE DEF For, Less
    <3>1. ASSUME NEW s \in SUBSET T
          PROVE  g[s] = G[s]
      <4>1. g[s] = IF s = {} THEN 0 ELSE f[Pick(s)] + For(Less(s))[Less(s)]
        OBVIOUS
      <4>2. G[s] = IF s = {} THEN 0 ELSE f[Pick(s)] + g[Less(s)]
        OBVIOUS
      <4> HIDE DEF g, G
      <4>3. QED
        BY <2>5, <4>1, <4>2
    <3>2. g = [s \in SUBSET T |-> g[s]] /\ G = [s \in SUBSET T |-> G[s]]
      OBVIOUS
    <3> HIDE DEF g, G
    <3>3. QED
      BY <3>1, <3>2
  <2>7. IsSum(f, g, T)
    <3> HIDE DEF g
    <3>1. QED
      BY <2>6 DEF IsSum
  <2>8. QED
    BY <2>7
<1>2. QED
  BY <1>1

(* The sum over the empty set is 0, any other one is that of an element    *)
(* and the sum over the rest.                                              *)
THEOREM SumRecursive ==
    ASSUME NEW f, NEW S, IsFiniteSet(S)
    PROVE  SumFunctionOnSet(f, S) =
               IF S = {} THEN 0 ELSE f[Pick(S)] + SumFunctionOnSet(f, S \ {Pick(S)})
<1> DEFINE For(U) == CHOOSE iter : IsSum(f, iter, U)
           R == S \ {Pick(S)}
<1>1. ASSUME NEW T \in SUBSET S
      PROVE  IsSum(f, For(T), T)
  <2>1. \E iter : IsSum(f, iter, T)
    BY SumExists
  <2>2. QED
    BY <2>1
<1>2. SumFunctionOnSet(f, S) = For(S)[S] /\ SumFunctionOnSet(f, R) = For(R)[R]
  BY SumIsIter
<1>3. For(S)[S] = IF S = {} THEN 0 ELSE f[Pick(S)] + For(S)[R]
  <2> HIDE DEF For
  <2>1. S \in SUBSET S
    OBVIOUS
  <2>2. QED
    BY <1>1, <2>1, Zenon DEF IsSum
<1>4. For(S)[R] = For(R)[R]
  <2>1. R \in SUBSET (S \cap R) /\ R \in SUBSET S /\ S \in SUBSET S
    OBVIOUS
  <2>2. IsSum(f, For(S), S) /\ IsSum(f, For(R), R)
    BY <1>1
  <2> HIDE DEF For, R
  <2>3. QED
    BY <2>1, <2>2, SumsAgree
<1>5. QED
  BY <1>2, <1>3, <1>4
-----------------------------------------------------------------------------
(***************************************************************************)
(* What does not depend on the order of summing.                           *)
(***************************************************************************)
(* Elements with the same values have the same sum.                        *)
THEOREM SumSame ==
    ASSUME NEW f, NEW g, NEW S, IsFiniteSet(S), \A x \in S : f[x] = g[x]
    PROVE  SumFunctionOnSet(f, S) = SumFunctionOnSet(g, S)
<1> DEFINE F(T) == SumFunctionOnSet(f, T)
           G(T) == SumFunctionOnSet(g, T)
           Bad == {T \in SUBSET S : F(T) # G(T)}
<1>1. ASSUME Bad # {}
      PROVE  FALSE
  <2>1. PICK T \in Bad : \A U \in SUBSET T : U # T => U \notin Bad
    <3>1. Bad \in SUBSET SUBSET S
      OBVIOUS
    <3> HIDE DEF Bad
    <3>2. QED
      BY <1>1, <3>1, SmallestSet, Zenon
  <2>2. T \in SUBSET S /\ F(T) # G(T) /\ IsFiniteSet(T)
    BY FS_Subset
  <2>3. /\ F(T) = IF T = {} THEN 0 ELSE f[Pick(T)] + F(T \ {Pick(T)})
        /\ G(T) = IF T = {} THEN 0 ELSE g[Pick(T)] + G(T \ {Pick(T)})
    BY <2>2, SumRecursive
  <2> HIDE DEF F, G
  <2>4. T # {}
    BY <2>2, <2>3
  <2>5. Pick(T) \in T
    BY <2>4 DEF Pick
  <2>6. F(T \ {Pick(T)}) = G(T \ {Pick(T)})
    BY <2>1, <2>2, <2>5
  <2>7. QED
    BY <2>2, <2>3, <2>5, <2>6
<1>2. F(S) = G(S)
  BY <1>1
<1>3. QED
  BY <1>2

(* The sum of integers is an integer, that of natural numbers is natural.  *)
THEOREM SumInteger ==
    ASSUME NEW f, NEW S, IsFiniteSet(S), \A x \in S : f[x] \in Int
    PROVE  /\ SumFunctionOnSet(f, S) \in Int
           /\ (\A x \in S : f[x] >= 0) => SumFunctionOnSet(f, S) >= 0
<1> DEFINE F(T) == SumFunctionOnSet(f, T)
           Good(T) == F(T) \in Int /\ ((\A x \in S : f[x] >= 0) => F(T) >= 0)
           Bad == {T \in SUBSET S : ~Good(T)}
<1>1. ASSUME Bad # {}
      PROVE  FALSE
  <2>1. PICK T \in Bad : \A U \in SUBSET T : U # T => U \notin Bad
    <3>1. Bad \in SUBSET SUBSET S
      OBVIOUS
    <3> HIDE DEF Bad
    <3>2. QED
      BY <1>1, <3>1, SmallestSet, Zenon
  <2>2. T \in SUBSET S /\ ~Good(T) /\ IsFiniteSet(T)
    BY FS_Subset
  <2>3. F(T) = IF T = {} THEN 0 ELSE f[Pick(T)] + F(T \ {Pick(T)})
    BY <2>2, SumRecursive
  <2> HIDE DEF F
  <2>4. T # {}
    BY <2>2, <2>3
  <2>5. Pick(T) \in T
    BY <2>4 DEF Pick
  <2>6. Good(T \ {Pick(T)})
    BY <2>1, <2>2, <2>5
  <2>7. QED
    BY <2>2, <2>3, <2>5, <2>6
<1>2. Good(S)
  BY <1>1
<1>3. QED
  BY <1>2

(* Any element may be the one that is added last.                          *)
THEOREM SumRemove ==
    ASSUME NEW f, NEW S, IsFiniteSet(S), \A x \in S : f[x] \in Int, NEW a \in S
    PROVE  SumFunctionOnSet(f, S) = f[a] + SumFunctionOnSet(f, S \ {a})
<1> DEFINE F(T) == SumFunctionOnSet(f, T)
           Good(T) == \A x \in T : F(T) = f[x] + F(T \ {x})
           Bad == {T \in SUBSET S : ~Good(T)}
<1>1. ASSUME Bad # {}
      PROVE  FALSE
  <2>1. PICK T \in Bad : \A U \in SUBSET T : U # T => U \notin Bad
    <3>1. Bad \in SUBSET SUBSET S
      OBVIOUS
    <3> HIDE DEF Bad
    <3>2. QED
      BY <1>1, <3>1, SmallestSet, Zenon
  <2>2. T \in SUBSET S /\ ~Good(T) /\ IsFiniteSet(T)
    BY FS_Subset
  <2>3. PICK x \in T : F(T) # f[x] + F(T \ {x})
    BY <2>2
  <2> DEFINE c == Pick(T)
  <2>4. c \in T
    BY <2>3 DEF Pick
  <2>5. F(T) = f[c] + F(T \ {c})
    BY <2>2, <2>4, SumRecursive
  <2> HIDE DEF c
  <2>6. x # c
    BY <2>3, <2>5
  <2>7. Good(T \ {c}) /\ Good(T \ {x})
    <3> HIDE DEF Good
    <3>1. QED
      BY <2>1, <2>2, <2>4
  <2> DEFINE R == (T \ {c}) \ {x}
  <2>8. (T \ {x}) \ {c} = R
    OBVIOUS
  <2>9. F(T \ {c}) = f[x] + F(R) /\ F(T \ {x}) = f[c] + F((T \ {x}) \ {c})
    BY <2>4, <2>6, <2>7
  <2>10. F(T \ {x}) = f[c] + F(R)
    <3> HIDE DEF F, R
    <3>1. QED
      BY <2>8, <2>9
  <2>11. F(R) \in Int /\ f[x] \in Int /\ f[c] \in Int
    <3>1. IsFiniteSet(R) /\ \A y \in R : f[y] \in Int
      BY <2>2, FS_Subset
    <3>2. QED
      BY <2>2, <2>4, <3>1, SumInteger
  <2> HIDE DEF F, R, Good, Bad
  <2>12. QED
    BY <2>3, <2>5, <2>9, <2>10, <2>11
<1>2. Good(S)
  BY <1>1
<1>3. QED
  BY <1>2

(* If one value changes, the sum changes by as much.                       *)
THEOREM SumChange ==
    ASSUME NEW f, NEW g, NEW S, IsFiniteSet(S), NEW a \in S,
           \A x \in S : f[x] \in Int /\ g[x] \in Int,
           \A x \in S \ {a} : g[x] = f[x]
    PROVE  SumFunctionOnSet(g, S) = SumFunctionOnSet(f, S) + (g[a] - f[a])
<1>1. /\ SumFunctionOnSet(f, S) = f[a] + SumFunctionOnSet(f, S \ {a})
      /\ SumFunctionOnSet(g, S) = g[a] + SumFunctionOnSet(g, S \ {a})
  BY SumRemove
<1>2. IsFiniteSet(S \ {a}) /\ \A x \in S \ {a} : f[x] \in Int
  BY FS_Subset
<1>3. SumFunctionOnSet(f, S \ {a}) \in Int
  BY <1>2, SumInteger
<1>4. SumFunctionOnSet(g, S \ {a}) = SumFunctionOnSet(f, S \ {a})
  BY <1>2, SumSame
<1>5. f[a] \in Int /\ g[a] \in Int
  OBVIOUS
<1>6. QED
  BY <1>1, <1>3, <1>4, <1>5

(* Greater values have a greater sum.                                      *)
THEOREM SumMonotonic ==
    ASSUME NEW f, NEW g, NEW S, IsFiniteSet(S),
           \A x \in S : f[x] \in Int /\ g[x] \in Int /\ f[x] <= g[x]
    PROVE  SumFunctionOnSet(f, S) <= SumFunctionOnSet(g, S)
<1> DEFINE F(T) == SumFunctionOnSet(f, T)
           G(T) == SumFunctionOnSet(g, T)
           Bad == {T \in SUBSET S : ~(F(T) <= G(T))}
<1>1. ASSUME Bad # {}
      PROVE  FALSE
  <2>1. PICK T \in Bad : \A U \in SUBSET T : U # T => U \notin Bad
    <3>1. Bad \in SUBSET SUBSET S
      OBVIOUS
    <3> HIDE DEF Bad
    <3>2. QED
      BY <1>1, <3>1, SmallestSet, Zenon
  <2>2. T \in SUBSET S /\ ~(F(T) <= G(T)) /\ IsFiniteSet(T)
    BY FS_Subset
  <2>3. /\ F(T) = IF T = {} THEN 0 ELSE f[Pick(T)] + F(T \ {Pick(T)})
        /\ G(T) = IF T = {} THEN 0 ELSE g[Pick(T)] + G(T \ {Pick(T)})
    BY <2>2, SumRecursive
  <2>4. T # {}
    <3> HIDE DEF F, G
    <3>1. QED
      BY <2>2, <2>3
  <2>5. Pick(T) \in T
    BY <2>4 DEF Pick
  <2> DEFINE R == T \ {Pick(T)}
  <2>6. F(R) <= G(R)
    <3> HIDE DEF F, G
    <3>1. QED
      BY <2>1, <2>2, <2>5
  <2>7. F(R) \in Int /\ G(R) \in Int
    <3>1. IsFiniteSet(R) /\ (\A x \in R : f[x] \in Int) /\ \A x \in R : g[x] \in Int
      BY <2>2, FS_Subset
    <3>2. QED
      BY <3>1, SumInteger
  <2>8. /\ F(T) = f[Pick(T)] + F(R) /\ G(T) = g[Pick(T)] + G(R)
        /\ f[Pick(T)] \in Int /\ g[Pick(T)] \in Int /\ f[Pick(T)] <= g[Pick(T)]
    <3> HIDE DEF F, G
    <3>1. QED
      BY <2>2, <2>3, <2>4, <2>5
  <2> HIDE DEF F, G, R
  <2>9. QED
    BY <2>2, <2>6, <2>7, <2>8
<1>2. F(S) <= G(S)
  BY <1>1
<1>3. QED
  BY <1>2

(* Nothing adds up to nothing.                                             *)
THEOREM SumZero ==
    ASSUME NEW f, NEW S, IsFiniteSet(S), \A x \in S : f[x] = 0
    PROVE  SumFunctionOnSet(f, S) = 0
<1> DEFINE F(T) == SumFunctionOnSet(f, T)
           Bad == {T \in SUBSET S : F(T) # 0}
<1>2. ASSUME Bad # {}
      PROVE  FALSE
  <2>1. PICK T \in Bad : \A U \in SUBSET T : U # T => U \notin Bad
    <3>1. Bad \in SUBSET SUBSET S
      OBVIOUS
    <3> HIDE DEF Bad
    <3>2. QED
      BY <1>2, <3>1, SmallestSet, Zenon
  <2>2. T \in SUBSET S /\ F(T) # 0 /\ IsFiniteSet(T)
    BY FS_Subset
  <2>3. F(T) = IF T = {} THEN 0 ELSE f[Pick(T)] + F(T \ {Pick(T)})
    BY <2>2, SumRecursive
  <2> HIDE DEF F
  <2>4. T # {}
    BY <2>2, <2>3
  <2>5. Pick(T) \in T
    BY <2>4 DEF Pick
  <2>6. F(T \ {Pick(T)}) = 0
    BY <2>1, <2>2, <2>5
  <2>7. QED
    BY <2>2, <2>3, <2>5, <2>6
<1>3. F(S) = 0
  BY <1>2
<1>4. QED
  BY <1>3

(* A value that many elements have adds up to as many times that value.    *)
THEOREM SumConstant ==
    ASSUME NEW f, NEW S, IsFiniteSet(S), NEW c \in Int, \A x \in S : f[x] = c
    PROVE  SumFunctionOnSet(f, S) = c * Cardinality(S)
<1> DEFINE F(T) == SumFunctionOnSet(f, T)
           Bad == {T \in SUBSET S : F(T) # c * Cardinality(T)}
<1>1. ASSUME Bad # {}
      PROVE  FALSE
  <2>1. PICK T \in Bad : \A U \in SUBSET T : U # T => U \notin Bad
    <3>1. Bad \in SUBSET SUBSET S
      OBVIOUS
    <3> HIDE DEF Bad
    <3>2. QED
      BY <1>1, <3>1, SmallestSet, Zenon
  <2>2. T \in SUBSET S /\ F(T) # c * Cardinality(T) /\ IsFiniteSet(T)
    BY FS_Subset
  <2>3. F(T) = IF T = {} THEN 0 ELSE f[Pick(T)] + F(T \ {Pick(T)})
    BY <2>2, SumRecursive
  <2> HIDE DEF F
  <2>4. T # {}
    BY <2>2, <2>3, FS_EmptySet
  <2>5. Pick(T) \in T
    BY <2>4 DEF Pick
  <2> DEFINE n == Cardinality(T \ {Pick(T)})
  <2>6. n \in Nat /\ Cardinality(T) = n + 1
    <3>1. Cardinality(T \ {Pick(T)}) = Cardinality(T) - 1
      BY <2>2, <2>5, FS_RemoveElement
    <3>2. Cardinality(T) \in Nat /\ Cardinality(T \ {Pick(T)}) \in Nat
      BY <2>2, FS_CardinalityType, FS_RemoveElement
    <3>3. QED
      BY <3>1, <3>2
  <2>7. F(T \ {Pick(T)}) = c * n
    BY <2>1, <2>2, <2>5
  <2>8. F(T) = c + c * n
    BY <2>2, <2>3, <2>4, <2>5, <2>7
  <2> HIDE DEF n
  <2>9. c * (n + 1) = c + c * n
    BY <2>6
  <2>10. QED
    BY <2>2, <2>6, <2>8, <2>9
<1>2. F(S) = c * Cardinality(S)
  BY <1>1
<1>3. QED
  BY <1>2
=============================================================================
