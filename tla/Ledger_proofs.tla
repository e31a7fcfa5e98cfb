--------------------------- MODULE Ledger_proofs ---------------------------
(***************************************************************************)
(* Proofs about Ledger for any drivers, drawers, products, stamps and      *)
(* requests, and without its bounds being used.                            *)
(***************************************************************************)
EXTENDS Ledger, FiniteSetTheorems, TLAPS

-----------------------------------------------------------------------------
(* Sums over finite sets.  The fold is a recursive function on the subsets *)
(* of a set; that there is one, and every fact about it, comes from a      *)
(* smallest subset for which it would fail (WFMin), so that nothing but    *)
(* sets is needed.                                                         *)
Any(s) == CHOOSE x \in s : TRUE
Rest(s) == s \ {Any(s)}

(* The equation of the fold, solved for the subsets of S.                  *)
Sums(w, S, g) == g = [s \in SUBSET S |-> IF s = {} THEN 0 ELSE w[Any(s)] + g[Rest(s)]]
Solution(w, S) == CHOOSE g : Sums(w, S, g)
Weighs(w, S) == \A x \in S : w[x] \in Int

LEMMA AnyMember == ASSUME NEW s, s # {} PROVE Any(s) \in s
BY DEF Any

LEMMA Unfold == ASSUME NEW w, NEW S PROVE SumFunctionOnSet(w, S) = Solution(w, S)[S]
BY DEF SumFunctionOnSet, FoldFunctionOnSet, MapThenFoldSet, Solution, Sums, Any, Rest

(* Of the subsets of a finite set that have a property, one is smallest.   *)
LEMMA Smallest ==
    ASSUME NEW S, IsFiniteSet(S), NEW T \in SUBSET (SUBSET S), T # {}
    PROVE  \E m \in T : \A t \in T : t \subseteq m => t = m
<1>1. T \subseteq FiniteSubsetsOf(S)
      BY FS_Subset DEF FiniteSubsetsOf
<1>2. PICK m \in T : \A t \in T : <<t, m>> \notin StrictSubsetOrdering(S)
      BY <1>1, FS_StrictSubsetOrderingWellFounded, WFMin
<1>3. \A t \in T : t \subseteq m => t = m
      BY <1>2 DEF StrictSubsetOrdering
<1> QED BY <1>3

(* A finite set of numbers that is not empty has a smallest one.           *)
LEMMA SmallestNumber ==
    ASSUME NEW S, IsFiniteSet(S), S # {}, \A s \in S : s \in Nat
    PROVE  \E m \in S : \A t \in S : ~ (t < m)
<1> DEFINE below(s) == {t \in S : t <= s}
           D == {u \in SUBSET S : \E s \in S : u = below(s)}
<1>1. \A s \in S : below(s) \in D
      OBVIOUS
<1>2. D \in SUBSET (SUBSET S) /\ D # {}
      BY <1>1
<1>3. PICK M \in D : \A t \in D : t \subseteq M => t = M
      <2> HIDE DEF D, below
      <2> QED BY <1>2, Smallest
<1>4. PICK m \in S : M = below(m)
      BY <1>3
<1>5. ASSUME NEW t \in S, t < m PROVE FALSE
      <2>1. below(t) \subseteq M /\ m \in M /\ m \notin below(t)
            <3>1. t \in Nat /\ m \in Nat /\ S \subseteq Nat
                  OBVIOUS
            <3>2. \A u \in S : u <= t => u <= m
                  BY <1>5, <3>1
            <3>3. m <= m /\ ~ (m <= t)
                  BY <1>5, <3>1
            <3> QED BY <1>4, <3>2, <3>3
      <2> QED BY <1>1, <1>3, <2>1
<1> QED BY <1>5

(* ... and a greatest one.                                                 *)
LEMMA GreatestNumber ==
    ASSUME NEW S, IsFiniteSet(S), S # {}, \A s \in S : s \in Nat
    PROVE  \E m \in S : \A t \in S : ~ (m < t)
<1> DEFINE above(s) == {t \in S : s <= t}
           D == {u \in SUBSET S : \E s \in S : u = above(s)}
<1>1. \A s \in S : above(s) \in D
      OBVIOUS
<1>2. D \in SUBSET (SUBSET S) /\ D # {}
      BY <1>1
<1>3. PICK M \in D : \A t \in D : t \subseteq M => t = M
      <2> HIDE DEF D, above
      <2> QED BY <1>2, Smallest
<1>4. PICK m \in S : M = above(m)
      BY <1>3
<1>5. ASSUME NEW t \in S, m < t PROVE FALSE
      <2>1. above(t) \subseteq M /\ m \in M /\ m \notin above(t)
            <3>1. t \in Nat /\ m \in Nat /\ S \subseteq Nat
                  OBVIOUS
            <3>2. \A u \in S : t <= u => m <= u
                  BY <1>5, <3>1
            <3>3. m <= m /\ ~ (t <= m)
                  BY <1>5, <3>1
            <3> QED BY <1>4, <3>2, <3>3
      <2> QED BY <1>1, <1>3, <2>1
<1> QED BY <1>5

(* Two solutions agree where both are defined.                             *)
LEMMA Agree ==
    ASSUME NEW w, NEW S, NEW T, NEW g, Sums(w, S, g), NEW h, Sums(w, T, h),
           NEW u \in SUBSET S, u \in SUBSET T, IsFiniteSet(u)
    PROVE  g[u] = h[u]
<1> SUFFICES ASSUME g[u] # h[u] PROVE FALSE
    OBVIOUS
<1> DEFINE D == {t \in SUBSET u : g[t] # h[t]}
<1>1. D \in SUBSET (SUBSET u) /\ D # {}
      OBVIOUS
<1>2. PICK m \in D : \A t \in D : t \subseteq m => t = m
      <2> HIDE DEF D
      <2> QED BY <1>1, Smallest
<1>3. m \in SUBSET S /\ m \in SUBSET T /\ m \in SUBSET u
      OBVIOUS
<1>4. /\ g[m] = IF m = {} THEN 0 ELSE w[Any(m)] + g[Rest(m)]
      /\ h[m] = IF m = {} THEN 0 ELSE w[Any(m)] + h[Rest(m)]
      BY <1>3 DEF Sums
<1>5. m # {}
      BY <1>4
<1>6. Rest(m) \in SUBSET u /\ Rest(m) \subseteq m /\ Rest(m) # m
      BY <1>3, <1>5, AnyMember DEF Rest
<1>7. g[Rest(m)] = h[Rest(m)]
      BY <1>2, <1>6
<1> QED BY <1>4, <1>5, <1>7

(* There is a solution for every finite set.                               *)
LEMMA Solvable ==
    ASSUME NEW w, NEW S, IsFiniteSet(S)
    PROVE  Sums(w, S, Solution(w, S))
<1> DEFINE Solved(s) == Sums(w, s, Solution(w, s))
           D == {s \in SUBSET S : ~ Solved(s)}
<1> SUFFICES ASSUME ~ Solved(S) PROVE FALSE
    OBVIOUS
<1>1. D \in SUBSET (SUBSET S) /\ D # {}
      OBVIOUS
<1>2. PICK m \in D : \A t \in D : t \subseteq m => t = m
      <2> HIDE DEF D
      <2> QED BY <1>1, Smallest
<1>3. \A t \in SUBSET m : t # m => Solved(t)
      BY <1>2
<1>4. \A t \in SUBSET m : IsFiniteSet(t)
      BY <1>1, FS_Subset
<1> DEFINE Val(t) == Solution(w, t)[t]
           G == [t \in SUBSET m |-> IF t = {} THEN 0 ELSE w[Any(t)] + Val(Rest(t))]
<1>5. ASSUME NEW u \in SUBSET m, u # m PROVE G[u] = Val(u)
      <2>1. Solved(u)
            BY <1>3, <1>5
      <2>2. Val(u) = IF u = {} THEN 0 ELSE w[Any(u)] + Solution(w, u)[Rest(u)]
            BY <2>1 DEF Sums
      <2>3. ASSUME u # {} PROVE Solution(w, u)[Rest(u)] = Val(Rest(u))
            <3>1. Rest(u) \in SUBSET u /\ Rest(u) # u /\ Rest(u) \in SUBSET m /\ Rest(u) # m
                  BY <2>3, AnyMember DEF Rest
            <3>2. Solved(Rest(u)) /\ IsFiniteSet(Rest(u)) /\ Rest(u) \in SUBSET Rest(u)
                  BY <1>3, <1>4, <3>1
            <3> QED BY <2>1, <3>1, <3>2, Agree
      <2>4. G[u] = IF u = {} THEN 0 ELSE w[Any(u)] + Val(Rest(u))
            OBVIOUS
      <2> HIDE DEF G, Val
      <2> QED BY <2>2, <2>3, <2>4
<1>6. ASSUME NEW t \in SUBSET m, t # {} PROVE G[Rest(t)] = Val(Rest(t))
      <2>1. Rest(t) \in SUBSET m /\ Rest(t) # m
            BY <1>6, AnyMember DEF Rest
      <2> QED BY <1>5, <2>1
<1>7. G = [t \in SUBSET m |-> IF t = {} THEN 0 ELSE w[Any(t)] + G[Rest(t)]]
      BY <1>6
<1>8. Sums(w, m, G)
      BY <1>7 DEF Sums
<1>9. Solved(m)
      BY <1>8 DEF Solution
<1> QED BY <1>9

-----------------------------------------------------------------------------
LEMMA SumEmpty == ASSUME NEW w PROVE SumFunctionOnSet(w, {}) = 0
<1>1. Sums(w, {}, Solution(w, {}))
      BY Solvable, FS_EmptySet
<1> QED BY <1>1, Unfold DEF Sums

LEMMA SumStep ==
    ASSUME NEW w, NEW S, IsFiniteSet(S), S # {}
    PROVE  SumFunctionOnSet(w, S) = w[Any(S)] + SumFunctionOnSet(w, Rest(S))
<1>1. Rest(S) \in SUBSET S /\ IsFiniteSet(Rest(S))
      BY FS_Subset DEF Rest
<1>2. Sums(w, S, Solution(w, S)) /\ Sums(w, Rest(S), Solution(w, Rest(S)))
      BY <1>1, Solvable
<1>3. Solution(w, S)[S] = w[Any(S)] + Solution(w, S)[Rest(S)]
      BY <1>2 DEF Sums
<1>4. Solution(w, S)[Rest(S)] = Solution(w, Rest(S))[Rest(S)]
      BY <1>1, <1>2, Agree
<1> QED BY <1>3, <1>4, Unfold

LEMMA SumInt ==
    ASSUME NEW w, NEW S, IsFiniteSet(S), Weighs(w, S)
    PROVE  SumFunctionOnSet(w, S) \in Int
<1> SUFFICES ASSUME SumFunctionOnSet(w, S) \notin Int PROVE FALSE
    OBVIOUS
<1> DEFINE D == {s \in SUBSET S : SumFunctionOnSet(w, s) \notin Int}
<1>1. D \in SUBSET (SUBSET S) /\ D # {}
      OBVIOUS
<1>2. PICK m \in D : \A t \in D : t \subseteq m => t = m
      <2> HIDE DEF D
      <2> QED BY <1>1, Smallest
<1>3. m \in SUBSET S /\ SumFunctionOnSet(w, m) \notin Int /\ IsFiniteSet(m)
      BY FS_Subset
<1>4. m # {}
      BY <1>3, SumEmpty
<1>5. Any(m) \in S /\ Rest(m) \in SUBSET S /\ Rest(m) \subseteq m /\ Rest(m) # m
      BY <1>3, <1>4, AnyMember DEF Rest
<1>6. SumFunctionOnSet(w, Rest(m)) \in Int
      BY <1>2, <1>5
<1>7. w[Any(m)] \in Int
      BY <1>5 DEF Weighs
<1>8. SumFunctionOnSet(w, m) = w[Any(m)] + SumFunctionOnSet(w, Rest(m))
      BY <1>3, <1>4, SumStep
<1> QED BY <1>3, <1>6, <1>7, <1>8

(* Any member may be taken out first.                                      *)
LEMMA SumRemove ==
    ASSUME NEW w, NEW S, IsFiniteSet(S), Weighs(w, S), NEW x \in S
    PROVE  SumFunctionOnSet(w, S) = w[x] + SumFunctionOnSet(w, S \ {x})
<1> DEFINE Fine(s) == \A y \in s : SumFunctionOnSet(w, s) = w[y] + SumFunctionOnSet(w, s \ {y})
           D == {s \in SUBSET S : ~ Fine(s)}
<1> SUFFICES ASSUME ~ Fine(S) PROVE FALSE
    OBVIOUS
<1>1. D \in SUBSET (SUBSET S) /\ D # {}
      OBVIOUS
<1>2. PICK m \in D : \A t \in D : t \subseteq m => t = m
      <2> HIDE DEF D
      <2> QED BY <1>1, Smallest
<1>3. m \in SUBSET S /\ ~ Fine(m)
      OBVIOUS
<1>4. PICK y \in m : SumFunctionOnSet(w, m) # w[y] + SumFunctionOnSet(w, m \ {y})
      BY <1>3
<1> DEFINE c == Any(m)
           n == m \ {c, y}
<1>5. c \in m /\ Rest(m) = m \ {c}
      BY AnyMember DEF Rest
<1> HIDE DEF c
<1>6. IsFiniteSet(m) /\ IsFiniteSet(m \ {y}) /\ IsFiniteSet(n)
      BY <1>3, FS_Subset
<1>7. SumFunctionOnSet(w, m) = w[c] + SumFunctionOnSet(w, m \ {c})
      BY <1>5, <1>6, SumStep DEF c
<1>8. c # y
      BY <1>4, <1>7
<1>9. Fine(m \ {c}) /\ Fine(m \ {y})
      BY <1>2, <1>3, <1>5
<1>10. SumFunctionOnSet(w, m \ {c}) = w[y] + SumFunctionOnSet(w, n)
       <2>1. y \in m \ {c} /\ (m \ {c}) \ {y} = n
             BY <1>8
       <2> QED BY <1>9, <2>1
<1>11. SumFunctionOnSet(w, m \ {y}) = w[c] + SumFunctionOnSet(w, n)
       <2>1. c \in m \ {y} /\ (m \ {y}) \ {c} = n
             BY <1>5, <1>8
       <2> QED BY <1>9, <2>1
<1>12. w[c] \in Int /\ w[y] \in Int /\ SumFunctionOnSet(w, n) \in Int
       <2>1. Weighs(w, n) /\ w[c] \in Int /\ w[y] \in Int
             BY <1>3, <1>5 DEF Weighs
       <2> QED BY <1>6, <2>1, SumInt
<1> HIDE DEF n, D, Fine
<1> QED BY <1>4, <1>7, <1>10, <1>11, <1>12

LEMMA SumDisjoint ==
    ASSUME NEW w, NEW A, NEW B, IsFiniteSet(A), IsFiniteSet(B), A \cap B = {}, Weighs(w, A \cup B)
    PROVE  SumFunctionOnSet(w, A \cup B) = SumFunctionOnSet(w, A) + SumFunctionOnSet(w, B)
<1> DEFINE Fine(s) == SumFunctionOnSet(w, s \cup B) = SumFunctionOnSet(w, s) + SumFunctionOnSet(w, B)
           D == {s \in SUBSET A : ~ Fine(s)}
<1> SUFFICES ASSUME ~ Fine(A) PROVE FALSE
    OBVIOUS
<1>1. D \in SUBSET (SUBSET A) /\ D # {}
      OBVIOUS
<1>2. PICK m \in D : \A t \in D : t \subseteq m => t = m
      <2> HIDE DEF D
      <2> QED BY <1>1, Smallest
<1>3. m \in SUBSET A /\ ~ Fine(m)
      OBVIOUS
<1>4. /\ IsFiniteSet(m) /\ IsFiniteSet(m \cup B)
      /\ Weighs(w, m) /\ Weighs(w, m \cup B) /\ Weighs(w, B)
      BY <1>3, FS_Subset, FS_Union DEF Weighs
<1>5. SumFunctionOnSet(w, B) \in Int
      BY <1>4, SumInt
<1>6. m # {}
      <2> SUFFICES ASSUME m = {} PROVE FALSE
          OBVIOUS
      <2>1. SumFunctionOnSet(w, m) = 0 /\ m \cup B = B
            BY SumEmpty
      <2>2. Fine(m)
            <3> HIDE DEF D
            <3> QED BY <2>1, <1>5
      <2> QED BY <1>3, <2>2
<1>7. PICK x \in m : TRUE
      BY <1>6
<1>8. Fine(m \ {x})
      BY <1>2, <1>3, <1>7
<1>9. x \in m \cup B /\ (m \cup B) \ {x} = (m \ {x}) \cup B
      BY <1>3
<1>10. SumFunctionOnSet(w, m \cup B) = w[x] + SumFunctionOnSet(w, (m \ {x}) \cup B)
       <2>1. SumFunctionOnSet(w, m \cup B) = w[x] + SumFunctionOnSet(w, (m \cup B) \ {x})
             BY <1>4, <1>9, SumRemove
       <2> QED BY <2>1, <1>9
<1>11. SumFunctionOnSet(w, m) = w[x] + SumFunctionOnSet(w, m \ {x})
       BY <1>4, SumRemove
<1>12. w[x] \in Int /\ SumFunctionOnSet(w, m \ {x}) \in Int
       <2>1. IsFiniteSet(m \ {x}) /\ Weighs(w, m \ {x}) /\ w[x] \in Int
             BY <1>4, FS_Subset DEF Weighs
       <2> QED BY <2>1, SumInt
<1>13. Fine(m)
       <2> HIDE DEF D
       <2> QED BY <1>5, <1>8, <1>10, <1>11, <1>12
<1> QED BY <1>3, <1>13

(* Only the values on the set count.                                       *)
LEMMA SumEqual ==
    ASSUME NEW w, NEW v, NEW S, IsFiniteSet(S), \A x \in S : w[x] = v[x]
    PROVE  SumFunctionOnSet(w, S) = SumFunctionOnSet(v, S)
<1> DEFINE D == {s \in SUBSET S : SumFunctionOnSet(w, s) # SumFunctionOnSet(v, s)}
<1> SUFFICES ASSUME SumFunctionOnSet(w, S) # SumFunctionOnSet(v, S) PROVE FALSE
    OBVIOUS
<1>1. D \in SUBSET (SUBSET S) /\ D # {}
      OBVIOUS
<1>2. PICK m \in D : \A t \in D : t \subseteq m => t = m
      <2> HIDE DEF D
      <2> QED BY <1>1, Smallest
<1>3. m \in SUBSET S /\ SumFunctionOnSet(w, m) # SumFunctionOnSet(v, m) /\ IsFiniteSet(m)
      BY FS_Subset
<1>4. m # {}
      BY <1>3, SumEmpty
<1>5. Any(m) \in S /\ Rest(m) \in SUBSET S /\ Rest(m) \subseteq m /\ Rest(m) # m
      BY <1>3, <1>4, AnyMember DEF Rest
<1>6. SumFunctionOnSet(w, Rest(m)) = SumFunctionOnSet(v, Rest(m)) /\ w[Any(m)] = v[Any(m)]
      BY <1>2, <1>5
<1>7. /\ SumFunctionOnSet(w, m) = w[Any(m)] + SumFunctionOnSet(w, Rest(m))
      /\ SumFunctionOnSet(v, m) = v[Any(m)] + SumFunctionOnSet(v, Rest(m))
      BY <1>3, <1>4, SumStep
<1> QED BY <1>3, <1>6, <1>7

(* One value changes.                                                      *)
LEMMA SumChange ==
    ASSUME NEW w, NEW v, NEW S, IsFiniteSet(S), Weighs(w, S), Weighs(v, S),
           NEW x \in S, \A y \in S \ {x} : w[y] = v[y]
    PROVE  SumFunctionOnSet(v, S) = SumFunctionOnSet(w, S) + v[x] - w[x]
<1>1. IsFiniteSet(S \ {x}) /\ Weighs(w, S \ {x})
      BY FS_Subset DEF Weighs
<1>2. SumFunctionOnSet(w, S \ {x}) = SumFunctionOnSet(v, S \ {x})
      BY <1>1, SumEqual
<1>3. /\ SumFunctionOnSet(w, S) = w[x] + SumFunctionOnSet(w, S \ {x})
      /\ SumFunctionOnSet(v, S) = v[x] + SumFunctionOnSet(v, S \ {x})
      BY SumRemove
<1>4. SumFunctionOnSet(w, S \ {x}) \in Int
      BY <1>1, SumInt
<1>5. w[x] \in Int /\ v[x] \in Int
      BY DEF Weighs
<1> QED BY <1>2, <1>3, <1>4, <1>5

LEMMA SumSingle ==
    ASSUME NEW w, NEW x, w[x] \in Int
    PROVE  SumFunctionOnSet(w, {x}) = w[x]
<1>1. IsFiniteSet({x}) /\ {x} \ {x} = {} /\ x \in {x} /\ Weighs(w, {x})
      BY FS_Singleton DEF Weighs
<1>2. SumFunctionOnSet(w, {x}) = w[x] + SumFunctionOnSet(w, {x} \ {x})
      BY <1>1, SumRemove
<1> QED BY <1>1, <1>2, SumEmpty

(* Positive values make a positive sum.                                    *)
LEMMA SumPositive ==
    ASSUME NEW w, NEW S, IsFiniteSet(S), \A x \in S : w[x] \in Nat /\ w[x] > 0
    PROVE  SumFunctionOnSet(w, S) \in Nat /\ (S # {} => SumFunctionOnSet(w, S) > 0)
<1> DEFINE Fine(s) == SumFunctionOnSet(w, s) \in Nat /\ (s # {} => SumFunctionOnSet(w, s) > 0)
           D == {s \in SUBSET S : ~ Fine(s)}
<1> SUFFICES ASSUME ~ Fine(S) PROVE FALSE
    OBVIOUS
<1>1. D \in SUBSET (SUBSET S) /\ D # {}
      OBVIOUS
<1>2. PICK m \in D : \A t \in D : t \subseteq m => t = m
      <2> HIDE DEF D
      <2> QED BY <1>1, Smallest
<1>3. m \in SUBSET S /\ ~ Fine(m) /\ IsFiniteSet(m)
      BY FS_Subset
<1>4. m # {}
      BY <1>3, SumEmpty
<1>5. Any(m) \in S /\ Rest(m) \in SUBSET S /\ Rest(m) \subseteq m /\ Rest(m) # m
      BY <1>3, <1>4, AnyMember DEF Rest
<1>6. Fine(Rest(m)) /\ w[Any(m)] \in Nat /\ w[Any(m)] > 0
      BY <1>2, <1>5
<1>7. SumFunctionOnSet(w, m) = w[Any(m)] + SumFunctionOnSet(w, Rest(m))
      BY <1>3, <1>4, SumStep
<1>8. Fine(m)
      <2> HIDE DEF D
      <2> QED BY <1>6, <1>7
<1> QED BY <1>3, <1>8

(* What weighs nothing sums to nothing.                                    *)
LEMMA SumZero ==
    ASSUME NEW w, NEW S, IsFiniteSet(S), \A x \in S : w[x] = 0
    PROVE  SumFunctionOnSet(w, S) = 0
<1> DEFINE D == {s \in SUBSET S : SumFunctionOnSet(w, s) # 0}
<1> SUFFICES ASSUME SumFunctionOnSet(w, S) # 0 PROVE FALSE
    OBVIOUS
<1>1. D \in SUBSET (SUBSET S) /\ D # {}
      OBVIOUS
<1>2. PICK m \in D : \A t \in D : t \subseteq m => t = m
      <2> HIDE DEF D
      <2> QED BY <1>1, Smallest
<1>3. m \in SUBSET S /\ IsFiniteSet(m) /\ SumFunctionOnSet(w, m) # 0
      BY FS_Subset
<1>4. m # {}
      BY <1>3, SumEmpty
<1>5. Rest(m) \in SUBSET S /\ Rest(m) \subseteq m /\ Rest(m) # m /\ Any(m) \in S
      BY <1>3, <1>4, AnyMember DEF Rest
<1>6. SumFunctionOnSet(w, Rest(m)) = 0
      BY <1>2, <1>5
<1>7. SumFunctionOnSet(w, m) = w[Any(m)] + SumFunctionOnSet(w, Rest(m))
      BY <1>3, <1>4, SumStep
<1>8. w[Any(m)] = 0
      BY <1>5
<1> HIDE DEF D
<1> QED BY <1>3, <1>6, <1>7, <1>8

(* A new member adds its weight.                                           *)
LEMMA SumGrow ==
    ASSUME NEW w, NEW v, NEW S, IsFiniteSet(S), NEW x, x \notin S, Weighs(v, S \cup {x}),
           \A y \in S : v[y] = w[y]
    PROVE  SumFunctionOnSet(v, S \cup {x}) = SumFunctionOnSet(w, S) + v[x]
<1>1. IsFiniteSet(S \cup {x}) /\ x \in S \cup {x} /\ (S \cup {x}) \ {x} = S
      BY FS_AddElement
<1>2. SumFunctionOnSet(v, S \cup {x}) = v[x] + SumFunctionOnSet(v, S)
      <2>1. SumFunctionOnSet(v, S \cup {x}) = v[x] + SumFunctionOnSet(v, (S \cup {x}) \ {x})
            BY <1>1, SumRemove
      <2> QED BY <1>1, <2>1
<1>3. SumFunctionOnSet(v, S) = SumFunctionOnSet(w, S)
      BY SumEqual
<1>4. Weighs(v, S) /\ v[x] \in Int
      BY DEF Weighs
<1>5. SumFunctionOnSet(v, S) \in Int
      BY <1>4, SumInt
<1> QED BY <1>2, <1>3, <1>4, <1>5

USE StampsAssumption, WorthAssumption, ProductsAssumption, AmountsAssumption, NoRequestAssumption

-----------------------------------------------------------------------------
(* What every request in flight is known to be.                            *)
Redeeming == {"redeem", "redeemAll", "reset"}
Marking == {"mark", "cashLock", "cashRead", "commit"}

(* The checks of its arrival hold for its job ...                          *)
JobSound(j) ==
    /\ j \in Jobs
    /\ j.kind # "adjust" => j.amount > 0
    /\ j.kind = "advance" => j.amount \in Amounts /\ j.op \in Operators
    /\ j.kind \in {"redeem", "redeemAll"} /\ j.pay = "CASH" => j.op \in Operators
    /\ j.kind = "reset" => j.pay = "OTHER"

(* ... and it is at a statement of its own operation.                      *)
StepSound(j, s) ==
    /\ s = "count" => j.kind \in {"redeemAll", "reset"}
    /\ s \in {"product", "decrement"} => j.kind = "goods"
    /\ s \in {"pick", "mark"} => j.kind \in Redeeming
    /\ s \in {"cashLock", "cashRead"} => j.kind = "advance" \/ (j.kind \in Redeeming /\ j.pay = "CASH")
    /\ s = "next" => j.kind = "reset"

JobsSound == \A r \in Requests : step[r] # "idle" => JobSound(job[r]) /\ StepSound(job[r], step[r])

(* Its view: it has marked stamps it has reached, of those it has read;    *)
(* they are locked and unredeemed; past the comparison it has all of them. *)
ViewSound(r) ==
    /\ marked[r] \subseteq visited[r] /\ visited[r] \subseteq picked[r] /\ picked[r] \subseteq issued
    /\ \A s \in picked[r] : Owner[s] = job[r].driver
    /\ step[r] \notin Marking \/ job[r].kind \notin Redeeming => picked[r] = {}
    /\ step[r] \in Marking /\ job[r].kind \in Redeeming => picked[r] # {}
    /\ step[r] \in Marking \ {"mark"} => marked[r] = picked[r]
    /\ \A s \in marked[r] : locks[StampRow(s)] = r /\ s \notin redeemed
ViewsSound == \A r \in Requests : ViewSound(r)

(* What it has checked in a row or a drawer it has locked stays so.        *)
CheckSound(r) ==
    /\ step[r] \in {"cashRead", "commit"} /\ Paid(r) => locks[CashLock(job[r].op)] = r
    /\ step[r] = "commit" /\ Paid(r) => Covered(r)
    /\ step[r] = "commit" /\ job[r].kind = "goods" =>
          locks[ProductRow(job[r].product)] = r /\ InStock(job[r])
ChecksSound == \A r \in Requests : CheckSound(r)

IInv == TypeOK /\ JobsSound /\ ViewsSound /\ ChecksSound

-----------------------------------------------------------------------------
LEMMA WorthSum ==
    ASSUME NEW S \in SUBSET Stamps
    PROVE  /\ IsFiniteSet(S) /\ Weighs(Worth, S)
           /\ WorthOf(S) \in Nat /\ (S # {} => WorthOf(S) > 0)
<1>1. IsFiniteSet(S)
      BY FiniteAssumption, FS_Subset
<1>2. \A s \in S : Worth[s] \in Nat /\ Worth[s] > 0
      OBVIOUS
<1>3. SumFunctionOnSet(Worth, S) \in Nat /\ (S # {} => SumFunctionOnSet(Worth, S) > 0)
      BY <1>1, <1>2, SumPositive
<1> QED BY <1>1, <1>2, <1>3 DEF WorthOf, Weighs

LEMMA Counted ==
    ASSUME NEW S \in SUBSET Stamps
    PROVE  Cardinality(S) \in Nat /\ (Cardinality(S) = 0 => S = {})
BY FiniteAssumption, FS_Subset, FS_CardinalityType, FS_EmptySet

LEMMA OutstandingStamps ==
    ASSUME TypeOK, NEW d
    PROVE  Outstanding(d) \in SUBSET Stamps
BY DEF TypeOK, Outstanding

LEMMA OldestSubset == ASSUME NEW S, NEW n PROVE Oldest(S, n) \subseteq S
BY DEF Oldest

(* The row that a redemption inserts.                                      *)
Redemptions == [driver : Drivers, pay : {"CASH", "OTHER"}, stamps : SUBSET Stamps]
Redemption(r) == [driver |-> job[r].driver, pay |-> job[r].pay, stamps |-> picked[r]]

(* Each lock has a name of its own.                                        *)
LEMMA LockNames ==
    /\ \A s, t : StampRow(s) = StampRow(t) => s = t
    /\ \A p, q : ProductRow(p) = ProductRow(q) => p = q
    /\ \A o, q : CashLock(o) = CashLock(q) => o = q
    /\ \A s, p, o : StampRow(s) # ProductRow(p) /\ StampRow(s) # CashLock(o) /\ ProductRow(p) # CashLock(o)
    /\ \A s \in Stamps : StampRow(s) \in Lockable
    /\ \A p \in Products : ProductRow(p) \in Lockable
    /\ \A o \in Operators : CashLock(o) \in Lockable
BY DEF StampRow, ProductRow, CashLock, Lockable

-----------------------------------------------------------------------------
(* The empty ledger satisfies the inductive invariant.                     *)
THEOREM InitInv == Init => IInv
<1> SUFFICES ASSUME Init PROVE IInv
    OBVIOUS
<1>1. TypeOK
      BY DEF Init, TypeOK, Types, Steps
<1>2. JobsSound /\ ViewsSound /\ ChecksSound
      BY DEF Init, JobsSound, ViewsSound, ViewSound, ChecksSound, CheckSound, Marking
<1> QED BY <1>1, <1>2 DEF IInv

-----------------------------------------------------------------------------
(* The types.                                                              *)
LEMMA CloseType ==
    ASSUME TypeOK, NEW r \in Requests, Close(r)
    PROVE  /\ locks' \in [Lockable -> Requests \cup {NoRequest}]
           /\ picked' \in [Requests -> SUBSET Stamps] /\ visited' \in [Requests -> SUBSET Stamps]
           /\ marked' \in [Requests -> SUBSET Stamps]
BY DEF TypeOK, Close

LEMMA AnswerType ==
    ASSUME TypeOK, NEW r \in Requests, Answer(r)
    PROVE  step' \in [Requests -> Steps] /\ job' \in [Requests -> Jobs \cup {NoJob}]
BY DEF TypeOK, Answer, Goto, Steps

(* Every request that arrives passes the checks of its arrival.            *)
LEMMA Arrival ==
    ASSUME NEW r, Arrive(r)
    PROVE  \E j \in Jobs : /\ JobSound(j)
                           /\ BeginOne(r, j) \/ BeginRedeemAll(r, j) \/ BeginReset(r, j) \/ BeginAdjust(r, j)
<1>1. PICK k \in Operations \cap AllOperations, pay \in {"CASH", "OTHER"} :
      \E d \in Drivers, o \in Drawers(k, pay), p \in Products, a \in Amounts :
         LET j == [kind |-> k, driver |-> d, op |-> o, product |-> p, amount |-> a, pay |-> pay] IN
         \/ BeginOne(r, j) \/ BeginRedeemAll(r, j) \/ BeginReset(r, j)
         \/ BeginAdjust(r, j) \/ BeginAdjust(r, [j EXCEPT !.amount = -a])
      BY DEF Arrive
<1>2. PICK d \in Drivers, o \in Drawers(k, pay), p \in Products, a \in Amounts :
         LET j == [kind |-> k, driver |-> d, op |-> o, product |-> p, amount |-> a, pay |-> pay] IN
         \/ BeginOne(r, j) \/ BeginRedeemAll(r, j) \/ BeginReset(r, j)
         \/ BeginAdjust(r, j) \/ BeginAdjust(r, [j EXCEPT !.amount = -a])
      BY <1>1
<1> DEFINE j(n) == [kind |-> k, driver |-> d, op |-> o, product |-> p, amount |-> n, pay |-> pay]
<1>3. o \in Operators \cup {NoDrawer} /\ a \in Int /\ -a \in Int /\ a > 0
      BY DEF Drawers
<1>4. j(a) \in Jobs /\ j(-a) \in Jobs /\ [j(a) EXCEPT !.amount = -a] = j(-a)
      BY <1>3 DEF Jobs
<1>5. k = "advance" \/ (k \in {"redeem", "redeemAll"} /\ pay = "CASH") => o \in Operators
      BY DEF Drawers
<1>6. j(a).kind = k /\ j(a).op = o /\ j(a).amount = a /\ j(a).pay = pay /\ j(-a).kind = k
      OBVIOUS
<1>7. CASE BeginAdjust(r, j(a)) \/ BeginAdjust(r, j(-a))
      <2>1. JobSound(j(a)) /\ JobSound(j(-a))
            BY <1>4, <1>6, <1>7 DEF JobSound, BeginAdjust
      <2> QED BY <1>4, <1>7, <2>1
<1>8. CASE BeginOne(r, j(a)) \/ BeginRedeemAll(r, j(a)) \/ BeginReset(r, j(a))
      <2>1. k # "adjust" /\ (k = "reset" => pay = "OTHER")
            BY <1>6, <1>8 DEF BeginOne, BeginRedeemAll, BeginReset
      <2>2. JobSound(j(a))
            BY <1>3, <1>4, <1>5, <1>6, <2>1 DEF JobSound
      <2> QED BY <1>4, <1>8, <2>2
<1> QED BY <1>2, <1>4, <1>7, <1>8

LEMMA TypeArrive ==
    ASSUME IInv, NEW r \in Requests, Arrive(r)
    PROVE  TypeOK'
<1>5. PICK jj \in Jobs : \/ BeginOne(r, jj) \/ BeginRedeemAll(r, jj) \/ BeginReset(r, jj) \/ BeginAdjust(r, jj)
      BY Arrival
<1>6. PICK first \in {"check", "count", "next"} : Begin(r, jj, first)
      BY <1>5 DEF BeginOne, BeginRedeemAll, BeginReset, BeginAdjust
<1>7. step' \in [Requests -> Steps] /\ job' \in [Requests -> Jobs \cup {NoJob}]
      /\ UNCHANGED <<tables, locks, picked, visited, marked>>
      BY <1>6 DEF Begin, IInv, TypeOK, Steps
<1>8. /\ todo' \in [Requests -> SUBSET Drivers] /\ failed' \in [Requests -> SUBSET Drivers]
      /\ owed' \in [Requests -> SUBSET Stamps]
      <2>1. CASE BeginReset(r, jj)
            <3> DEFINE O == {s \in issued \ redeemed : Owner[s] \notin deleted}
            <3>1. Resettable \in SUBSET Drivers /\ O \in SUBSET Stamps
                  BY DEF IInv, TypeOK, Resettable
            <3>2. /\ todo' = [todo EXCEPT ![r] = Resettable]
                  /\ owed' = [owed EXCEPT ![r] = O] /\ failed' = failed
                  BY <2>1 DEF BeginReset
            <3> HIDE DEF O
            <3>3. /\ todo \in [Requests -> SUBSET Drivers] /\ failed \in [Requests -> SUBSET Drivers]
                  /\ owed \in [Requests -> SUBSET Stamps]
                  BY DEF IInv, TypeOK
            <3> QED BY <3>1, <3>2, <3>3
      <2>2. CASE ~ BeginReset(r, jj)
            BY <1>5, <2>2 DEF BeginOne, BeginRedeemAll, BeginAdjust, IInv, TypeOK
      <2> QED BY <2>1, <2>2
<1> QED BY <1>7, <1>8 DEF IInv, TypeOK, tables

LEMMA AddRow ==
    ASSUME TypeOK, NEW d \in Drivers, NEW t \in Types, NEW n \in Int
    PROVE  [sum EXCEPT ![d][t] = @ + n] \in [Drivers -> [Types -> Int]]
<1>1. sum \in [Drivers -> [Types -> Int]]
      BY DEF TypeOK
<1>2. [sum[d] EXCEPT ![t] = @ + n] \in [Types -> Int]
      BY <1>1
<1> QED BY <1>1, <1>2

LEMMA TypeEnvironment == ASSUME IInv, Environment PROVE TypeOK'
<1> USE DEF IInv
<1>1. CASE \E s \in Stamps : IssueStamp(s)
      <2>1. PICK s \in Stamps : IssueStamp(s)
            BY <1>1
      <2>2. Worth[s] \in Int /\ Owner[s] \in Drivers
            OBVIOUS
      <2>3. sum' \in [Drivers -> [Types -> Int]] /\ issued' \subseteq Stamps /\ redeemed' \subseteq issued'
            <3>1. sum' = [sum EXCEPT ![Owner[s]]["STAMP"] = @ + Worth[s]]
                  BY <2>1 DEF IssueStamp
            <3>2. "STAMP" \in Types
                  BY DEF Types
            <3>3. sum' \in [Drivers -> [Types -> Int]]
                  BY <2>2, <3>1, <3>2, AddRow
            <3> QED BY <2>1, <3>3 DEF IssueStamp, TypeOK
      <2> QED BY <2>1, <2>3 DEF IssueStamp, TypeOK, private
<1>2. CASE \E d \in Drivers, s \in {"ACTIVE", "BLOCKED"} : SetStatus(d, s)
      BY <1>2 DEF SetStatus, TypeOK, private
<1>2a. CASE \E d \in Deletable : SoftDelete(d)
      BY <1>2a, BoundsAssumption DEF SoftDelete, TypeOK, private
<1>3. CASE \E p \in Products, b \in BOOLEAN : SetProductActive(p, b)
      BY <1>3 DEF SetProductActive, TypeOK, private
<1>4. CASE \E o \in Operators, a \in Amounts : DepositCash(o, a)
      BY <1>4 DEF DepositCash, TypeOK, private
<1>5. CASE \E o, q \in Operators : HandOverCash(o, q)
      <2>1. PICK o \in Operators, q \in Operators : HandOverCash(o, q)
            BY <1>5
      <2>2. cash' \in [Operators -> Nat]
            <3>1. cash \in [Operators -> Nat] /\ cash[o] \in Nat
                  BY DEF TypeOK
            <3>2. cash' = [cash EXCEPT ![o] = 0, ![q] = @ + cash[o]] /\ o # q
                  BY <2>1 DEF HandOverCash
            <3> QED BY <3>1, <3>2
      <2> QED BY <2>1, <2>2 DEF HandOverCash, TypeOK, private
<1> QED BY <1>1, <1>2, <1>2a, <1>3, <1>4, <1>5 DEF Environment

LEMMA TypeFail == ASSUME IInv, NEW r \in Requests, Fail(r), step[r] # "idle" PROVE TypeOK'
<1> USE DEF IInv
<1>1. /\ locks' \in [Lockable -> Requests \cup {NoRequest}]
      /\ picked' \in [Requests -> SUBSET Stamps] /\ visited' \in [Requests -> SUBSET Stamps]
      /\ marked' \in [Requests -> SUBSET Stamps]
      BY CloseType DEF Fail
<1>2. step' \in [Requests -> Steps] /\ job' \in [Requests -> Jobs \cup {NoJob}]
      BY AnswerType DEF Fail
<1>3. failed' \in [Requests -> SUBSET Drivers]
      <2>1. job[r].driver \in Drivers
            BY DEF JobsSound, JobSound, Jobs
      <2> QED BY <2>1 DEF Fail, TypeOK
<1> QED BY <1>1, <1>2, <1>3 DEF Fail, TypeOK, tables

LEMMA RowAmountInt == ASSUME IInv, NEW r \in Requests, step[r] = "commit" PROVE RowAmount(r) \in Int
<1>1. job[r] \in Jobs /\ picked[r] \in SUBSET Stamps
      BY DEF IInv, JobsSound, JobSound, TypeOK
<1>2. job[r].amount \in Int /\ job[r].product \in Products
      BY <1>1 DEF Jobs
<1>3. Price[job[r].product] \in Int
      BY <1>2
<1>4. WorthOf(picked[r]) \in Int
      BY <1>1, WorthSum
<1>5. Price[job[r].product] * job[r].amount \in Int
      BY <1>2, <1>3
<1> QED BY <1>2, <1>4, <1>5 DEF RowAmount

LEMMA DueNat == ASSUME IInv, NEW r \in Requests, step[r] \in {"cashRead", "commit"}, Paid(r)
                PROVE  Due(r) \in Nat /\ Due(r) > 0 /\ job[r].op \in Operators /\ Due(r) \in SumsPaid
<1>1. job[r] \in Jobs /\ JobSound(job[r]) /\ picked[r] \in SUBSET Stamps
      BY DEF IInv, JobsSound, JobSound, TypeOK
<1>2. CASE job[r].kind = "advance"
      BY <1>1, <1>2 DEF Due, JobSound, SumsPaid
<1>3. CASE job[r].kind # "advance"
      <2>1. job[r].kind \in Redeeming /\ job[r].pay = "CASH"
            BY <1>1, <1>3 DEF Paid, Jobs, AllOperations, Redeeming
      <2>2. picked[r] # {}
            BY <2>1 DEF IInv, ViewsSound, ViewSound, Marking
      <2>3. Due(r) = WorthOf(picked[r])
            BY <1>3 DEF Due
      <2>4. Due(r) \in SumsPaid
            BY <1>1, <2>2, <2>3 DEF SumsPaid
      <2>5. job[r].op \in Operators
            BY <1>1, <2>1 DEF JobSound, Redeeming
      <2> QED BY <1>1, <2>2, <2>3, <2>4, <2>5, WorthSum
<1> QED BY <1>2, <1>3

LEMMA TypeCommit == ASSUME IInv, NEW r \in Requests, Commit(r) PROVE TypeOK'
<1> USE DEF IInv
<1>0. step[r] = "commit"
      BY DEF Commit
<1>1. /\ locks' \in [Lockable -> Requests \cup {NoRequest}]
      /\ picked' \in [Requests -> SUBSET Stamps] /\ visited' \in [Requests -> SUBSET Stamps]
      /\ marked' \in [Requests -> SUBSET Stamps]
      BY CloseType DEF Commit
<1>2. step' \in [Requests -> Steps] /\ job' \in [Requests -> Jobs \cup {NoJob}]
      BY AnswerType DEF Commit
<1>3. job[r] \in Jobs /\ JobSound(job[r]) /\ ViewSound(r) /\ CheckSound(r)
      BY <1>0 DEF JobsSound, JobSound, ViewsSound, ChecksSound
<1>4. job[r].driver \in Drivers /\ job[r].product \in Products /\ job[r].amount \in Int
      /\ job[r].pay \in {"CASH", "OTHER"}
      BY <1>3 DEF Jobs
<1>5. RowType(job[r]) \in Types
      BY DEF RowType, Types
<1>6. sum' \in [Drivers -> [Types -> Int]]
      <2>1. RowAmount(r) \in Int
            BY <1>0, RowAmountInt
      <2> HIDE DEF RowAmount
      <2> QED BY <1>4, <1>5, <2>1 DEF Commit, TypeOK
<1>7. redeemed' \subseteq issued'
      BY <1>3 DEF Commit, TypeOK, ViewSound
<1>8. redemptions' \in Seq(Redemptions)
      <2>1. Redemption(r) \in Redemptions
            BY <1>4 DEF TypeOK, Redemption, Redemptions
      <2>2. redemptions \in Seq(Redemptions)
            BY DEF TypeOK, Redemptions
      <2>3. redemptions' = redemptions \/ redemptions' = Append(redemptions, Redemption(r))
            BY DEF Commit, Redemption
      <2> QED BY <2>1, <2>2, <2>3
<1>9. stock' \in [Products -> Nat]
      <2>1. CASE job[r].kind = "goods"
            <3>1. stock[job[r].product] >= job[r].amount /\ job[r].amount > 0
                  BY <1>0, <1>3, <2>1 DEF CheckSound, InStock, JobSound
            <3> QED BY <1>4, <2>1, <3>1 DEF Commit, TypeOK
      <2> QED BY <2>1 DEF Commit, TypeOK
<1>10. cash' \in [Operators -> Nat]
      <2>1. CASE Paid(r)
            <3>1. cash[job[r].op] >= Due(r)
                  BY <1>0, <1>3, <2>1 DEF CheckSound, Covered
            <3>2. Due(r) \in Nat /\ job[r].op \in Operators
                  BY <1>0, <2>1, DueNat
            <3> QED BY <2>1, <3>1, <3>2 DEF Commit, TypeOK
      <2> QED BY <2>1 DEF Commit, TypeOK
<1>11. UNCHANGED <<status, deleted, issued, sellable, deposited, todo, failed, owed>>
       BY DEF Commit
<1> QED BY <1>1, <1>2, <1>6, <1>7, <1>8, <1>9, <1>10, <1>11 DEF TypeOK, Redemptions

LEMMA TypeProceed == ASSUME IInv, NEW r \in Requests, Proceed(r) PROVE TypeOK'
<1> USE DEF IInv
<1>1. CASE CountStamps(r)
      <2> DEFINE n == Cardinality(Outstanding(job[r].driver))
      <2>1. n \in Nat
            BY OutstandingStamps, Counted
      <2>2. job[r] \in Jobs /\ r \in Requests
            BY <1>1 DEF CountStamps, JobsSound, JobSound
      <2>3. step' \in [Requests -> Steps] /\ job' \in [Requests -> Jobs \cup {NoJob}]
            <3>1. CASE n = 0
                  BY <1>1, <3>1, AnswerType DEF CountStamps
            <3>2. CASE n # 0
                  <4>1. job' = [job EXCEPT ![r].amount = n] /\ Goto(r, "check")
                        BY <1>1, <3>2 DEF CountStamps
                  <4> HIDE DEF n
                  <4>2. [job[r] EXCEPT !.amount = n] \in Jobs
                        BY <2>1, <2>2 DEF Jobs
                  <4> QED BY <4>1, <4>2 DEF Goto, TypeOK, Steps
            <3> QED BY <3>1, <3>2
      <2> QED BY <1>1, <2>3 DEF CountStamps, TypeOK, tables
<1>2. CASE CheckDriver(r) \/ ReadProduct(r) \/ CompareMarked(r) \/ ReadCash(r)
      <2>1. PICK s \in Steps : Goto(r, s) /\ UNCHANGED <<tables, locks, private>>
            BY <1>2 DEF CheckDriver, ReadProduct, CompareMarked, ReadCash, FirstStatement, Steps
      <2> QED BY <2>1 DEF Goto, TypeOK, tables, private
<1>3. CASE DecrementStock(r) \/ LockCash(r)
      <2>1. job[r] \in Jobs /\ JobSound(job[r]) /\ StepSound(job[r], step[r])
            BY <1>3 DEF DecrementStock, LockCash, JobsSound, JobSound
      <2>2. ASSUME LockCash(r) PROVE job[r].op \in Operators
            BY <2>1, <2>2 DEF LockCash, StepSound, JobSound, Redeeming
      <2>3. job[r].product \in Products
            BY <2>1 DEF Jobs
      <2>4. PICK l \in Lockable : locks' = [locks EXCEPT ![l] = r]
            BY <1>3, <2>2, <2>3, LockNames DEF DecrementStock, LockCash
      <2>5. PICK s \in Steps : Goto(r, s)
            BY <1>3 DEF DecrementStock, LockCash, Steps
      <2> QED BY <1>3, <2>4, <2>5 DEF DecrementStock, LockCash, Goto, TypeOK, tables, private
<1>4. CASE PickStamps(r)
      <2>1. Oldest(Outstanding(job[r].driver), job[r].amount) \in SUBSET Stamps
            BY OutstandingStamps, OldestSubset
      <2> QED BY <1>4, <2>1 DEF PickStamps, Goto, TypeOK, tables, Steps
<1>5. CASE MarkStamp(r)
      <2>1. PICK s \in Oldest(Unvisited(r), 1) :
              /\ visited' = [visited EXCEPT ![r] = @ \cup {s}]
              /\ IF Redeemable(s)
                 THEN /\ locks' = [locks EXCEPT ![StampRow(s)] = r]
                      /\ marked' = [marked EXCEPT ![r] = @ \cup {s}]
                 ELSE UNCHANGED <<locks, marked>>
            BY <1>5 DEF MarkStamp
      <2>2. s \in Stamps
            BY OldestSubset DEF Unvisited, TypeOK
      <2>3. visited' \in [Requests -> SUBSET Stamps] /\ marked' \in [Requests -> SUBSET Stamps]
            /\ locks' \in [Lockable -> Requests \cup {NoRequest}]
            <3>1. /\ visited \in [Requests -> SUBSET Stamps] /\ marked \in [Requests -> SUBSET Stamps]
                  /\ locks \in [Lockable -> Requests \cup {NoRequest}]
                  BY DEF TypeOK
            <3>2. visited[r] \cup {s} \in SUBSET Stamps /\ marked[r] \cup {s} \in SUBSET Stamps
                  BY <2>2, <3>1
            <3>3. visited' \in [Requests -> SUBSET Stamps]
                  BY <2>1, <3>1, <3>2
            <3>4. marked' \in [Requests -> SUBSET Stamps]
                  BY <2>1, <3>1, <3>2
            <3>5. locks' \in [Lockable -> Requests \cup {NoRequest}]
                  BY <2>1, <3>1
            <3> QED BY <3>3, <3>4, <3>5
      <2> QED BY <1>5, <2>3 DEF MarkStamp, TypeOK, tables
<1>6. CASE Commit(r)
      BY <1>6, TypeCommit
<1>7. CASE Refuse(r)
      BY <1>7, TypeFail DEF Refuse
<1>8. CASE NextDriver(r)
      <2>1. job[r] \in Jobs
            BY <1>8 DEF NextDriver, JobsSound, JobSound
      <2>2. \A d \in Drivers : [job[r] EXCEPT !.driver = d] \in Jobs
            BY <2>1 DEF Jobs
      <2>3. job' \in [Requests -> Jobs \cup {NoJob}] /\ todo' \in [Requests -> SUBSET Drivers]
            BY <1>8, <2>2 DEF NextDriver, TypeOK
      <2> QED BY <1>8, <2>3 DEF NextDriver, Goto, TypeOK, tables, Steps
<1>9. CASE Report(r)
      BY <1>9 DEF Report, Forget, TypeOK, tables, Steps
<1> QED BY <1>1, <1>2, <1>3, <1>4, <1>5, <1>6, <1>7, <1>8, <1>9 DEF Proceed

LEMMA TypeCrash == ASSUME IInv, NEW r \in Requests, Crash(r) PROVE TypeOK'
<1> USE DEF IInv
<1>1. /\ locks' \in [Lockable -> Requests \cup {NoRequest}]
      /\ picked' \in [Requests -> SUBSET Stamps] /\ visited' \in [Requests -> SUBSET Stamps]
      /\ marked' \in [Requests -> SUBSET Stamps]
      BY CloseType DEF Crash
<1> QED BY <1>1 DEF Crash, Forget, TypeOK, tables, Steps

LEMMA TypeNext == ASSUME IInv, [Next]_vars PROVE TypeOK'
<1>1. CASE UNCHANGED vars
      BY <1>1 DEF IInv, TypeOK, vars, tables, private
<1>2. CASE Environment
      BY <1>2, TypeEnvironment
<1>3. ASSUME NEW r \in Requests, Arrive(r) \/ Proceed(r) \/ Expire(r) \/ Crash(r) PROVE TypeOK'
      BY <1>3, TypeArrive, TypeProceed, TypeCrash, TypeFail DEF Expire
<1> QED BY <1>1, <1>2, <1>3 DEF Next

-----------------------------------------------------------------------------
(* The step of one request leaves what the others know, and the locks they *)
(* hold, as it is.                                                         *)
Keeps(r) ==
    /\ step'[r] = step[r] /\ job'[r] = job[r]
    /\ picked'[r] = picked[r] /\ visited'[r] = visited[r] /\ marked'[r] = marked[r]
    /\ todo'[r] = todo[r] /\ failed'[r] = failed[r] /\ owed'[r] = owed[r]
    /\ \A l \in Lockable : locks[l] = r <=> locks'[l] = r

Acts(q) == Arrive(q) \/ Proceed(q) \/ Expire(q) \/ Crash(q)

LEMMA KeepsClose ==
    ASSUME TypeOK, NEW q \in Requests, Close(q), NEW r \in Requests, r # q
    PROVE  /\ picked'[r] = picked[r] /\ visited'[r] = visited[r] /\ marked'[r] = marked[r]
           /\ \A l \in Lockable : locks[l] = r <=> locks'[l] = r
BY DEF TypeOK, Close

LEMMA KeepsAnswer ==
    ASSUME TypeOK, NEW q \in Requests, Answer(q), NEW r \in Requests, r # q
    PROVE  step'[r] = step[r] /\ job'[r] = job[r]
BY DEF TypeOK, Answer, Goto

LEMMA KeepsFail ==
    ASSUME TypeOK, NEW q \in Requests, Fail(q), NEW r \in Requests, r # q
    PROVE  Keeps(r)
<1>1. failed'[r] = failed[r]
      BY DEF Fail, TypeOK
<1> QED BY <1>1, KeepsClose, KeepsAnswer DEF Fail, Keeps

LEMMA Others ==
    ASSUME IInv, NEW q \in Requests, Acts(q), NEW r \in Requests, r # q
    PROVE  Keeps(r)
<1> USE DEF IInv
<1>1. CASE Arrive(q)
      <2>1. PICK j \in Jobs : BeginOne(q, j) \/ BeginRedeemAll(q, j) \/ BeginReset(q, j) \/ BeginAdjust(q, j)
            BY <1>1, Arrival
      <2>2. todo'[r] = todo[r] /\ failed'[r] = failed[r] /\ owed'[r] = owed[r]
            BY <2>1 DEF BeginOne, BeginRedeemAll, BeginReset, BeginAdjust, TypeOK
      <2>3. PICK first : Begin(q, j, first)
            BY <2>1 DEF BeginOne, BeginRedeemAll, BeginReset, BeginAdjust
      <2> QED BY <2>2, <2>3 DEF Begin, Keeps, TypeOK
<1>2. CASE CountStamps(q)
      <2> DEFINE n == Cardinality(Outstanding(job[q].driver))
      <2>1. Answer(q) \/ (job' = [job EXCEPT ![q].amount = n] /\ Goto(q, "check"))
            BY <1>2 DEF CountStamps
      <2> HIDE DEF n
      <2>2. step'[r] = step[r] /\ job'[r] = job[r]
            BY <2>1, KeepsAnswer DEF Goto, TypeOK
      <2> QED BY <1>2, <2>2 DEF CountStamps, Keeps
<1>3. CASE CheckDriver(q) \/ ReadProduct(q) \/ CompareMarked(q) \/ ReadCash(q)
      <2>1. PICK s : Goto(q, s) /\ UNCHANGED <<locks, private>>
            BY <1>3 DEF CheckDriver, ReadProduct, CompareMarked, ReadCash
      <2> QED BY <2>1 DEF Goto, Keeps, private, TypeOK
<1>4. CASE DecrementStock(q) \/ LockCash(q)
      <2>1. PICK s : Goto(q, s) /\ UNCHANGED private
            BY <1>4 DEF DecrementStock, LockCash
      <2>2. \A l \in Lockable : locks[l] = r <=> locks'[l] = r
            BY <1>4 DEF DecrementStock, LockCash, Free, TypeOK
      <2> QED BY <2>1, <2>2 DEF Goto, Keeps, private, TypeOK
<1>5. CASE PickStamps(q)
      BY <1>5 DEF PickStamps, Goto, Keeps, TypeOK
<1>6. CASE MarkStamp(q)
      <2>1. PICK s : /\ Free(StampRow(s))
                     /\ visited' = [visited EXCEPT ![q] = @ \cup {s}]
                     /\ \/ /\ locks' = [locks EXCEPT ![StampRow(s)] = q]
                           /\ marked' = [marked EXCEPT ![q] = @ \cup {s}]
                        \/ UNCHANGED <<locks, marked>>
            BY <1>6 DEF MarkStamp
      <2>2. visited'[r] = visited[r] /\ marked'[r] = marked[r]
            BY <2>1 DEF TypeOK
      <2>3. \A l \in Lockable : locks[l] = r <=> locks'[l] = r
            BY <2>1 DEF Free, TypeOK
      <2> QED BY <1>6, <2>2, <2>3 DEF MarkStamp, Keeps
<1>7. CASE Commit(q)
      BY <1>7, KeepsClose, KeepsAnswer DEF Commit, Keeps
<1>8. CASE Refuse(q) \/ Expire(q)
      BY <1>8, KeepsFail DEF Refuse, Expire
<1>9. CASE NextDriver(q)
      <2>1. PICK d : /\ job' = [job EXCEPT ![q].driver = d]
                     /\ todo' = [todo EXCEPT ![q] = @ \ {d}]
            BY <1>9 DEF NextDriver
      <2> QED BY <1>9, <2>1 DEF NextDriver, Goto, Keeps, TypeOK
<1>10. CASE Report(q)
       BY <1>10 DEF Report, Forget, Keeps, TypeOK
<1>11. CASE Crash(q)
       BY <1>11, KeepsClose DEF Crash, Forget, Keeps, TypeOK
<1> QED BY <1>1, <1>2, <1>3, <1>4, <1>5, <1>6, <1>7, <1>8, <1>9, <1>10, <1>11 DEF Acts, Proceed

LEMMA EnvironmentKeeps ==
    ASSUME IInv, Environment, NEW r \in Requests
    PROVE  Keeps(r) /\ UNCHANGED <<locks, step, private>>
BY DEF Environment, IssueStamp, SetStatus, SoftDelete, SetProductActive, DepositCash, HandOverCash, Keeps, private

-----------------------------------------------------------------------------
(* What a request is doing.                                                *)
LEMMA AnswerJob ==
    ASSUME IInv, NEW r \in Requests, Answer(r), step[r] # "idle"
    PROVE  step'[r] \in {"idle", "next"} /\ (step'[r] # "idle" => JobSound(job'[r]) /\ StepSound(job'[r], step'[r]))
BY DEF IInv, TypeOK, Answer, Goto, JobsSound, StepSound

LEMMA OwnJob ==
    ASSUME IInv, NEW r \in Requests, Acts(r)
    PROVE  step'[r] # "idle" => JobSound(job'[r]) /\ StepSound(job'[r], step'[r])
<1> USE DEF IInv
<1>1. CASE Arrive(r)
      <2>1. PICK j \in Jobs : JobSound(j) /\ (BeginOne(r, j) \/ BeginRedeemAll(r, j) \/ BeginReset(r, j) \/ BeginAdjust(r, j))
            BY <1>1, Arrival
      <2>2. /\ job'[r] = j /\ step'[r] \in {"check", "count", "next"}
            /\ step'[r] = "count" => j.kind \in {"redeemAll", "reset"}
            /\ step'[r] = "next" => j.kind = "reset"
            BY <2>1 DEF BeginOne, BeginRedeemAll, BeginReset, BeginAdjust, Begin, TypeOK
      <2> QED BY <2>1, <2>2 DEF StepSound
<1>2. ASSUME Proceed(r) \/ Expire(r), step[r] # "idle"
      PROVE  step'[r] # "idle" => JobSound(job'[r]) /\ StepSound(job'[r], step'[r])
      <2>0. JobSound(job[r]) /\ StepSound(job[r], step[r]) /\ job[r].kind \in AllOperations
            BY <1>2 DEF JobsSound, JobSound, Jobs
      <2>1. CASE CountStamps(r)
            <3> DEFINE n == Cardinality(Outstanding(job[r].driver))
            <3>1. n \in Nat
                  BY OutstandingStamps, Counted
            <3>2. CASE Answer(r)
                  BY <1>2, <3>2, AnswerJob
            <3>3. CASE n # 0 /\ job' = [job EXCEPT ![r].amount = n] /\ Goto(r, "check")
                  <4>0. n > 0 /\ job[r].kind \in {"redeemAll", "reset"} /\ job[r] \in Jobs
                        BY <2>0, <2>1, <3>1, <3>3 DEF CountStamps, StepSound, JobSound
                  <4> HIDE DEF n
                  <4>1. job'[r] = [job[r] EXCEPT !.amount = n] /\ step'[r] = "check"
                        BY <3>3 DEF Goto, TypeOK
                  <4>2. job'[r] \in Jobs /\ job'[r].kind = job[r].kind /\ job'[r].op = job[r].op
                        /\ job'[r].amount = n /\ job'[r].pay = job[r].pay
                        BY <3>1, <4>0, <4>1 DEF Jobs
                  <4> QED BY <2>0, <4>0, <4>1, <4>2 DEF JobSound, StepSound
            <3> QED BY <2>1, <3>2, <3>3 DEF CountStamps
      <2>2. CASE CheckDriver(r)
            <3>1. job'[r] = job[r] /\ step'[r] = FirstStatement(job[r])
                  BY <2>2 DEF CheckDriver, Goto, TypeOK, private
            <3>2. StepSound(job[r], FirstStatement(job[r]))
                  BY <2>0 DEF FirstStatement, StepSound, AllOperations, Redeeming
            <3> QED BY <2>0, <3>1, <3>2
      <2>3. CASE ReadProduct(r) \/ DecrementStock(r) \/ LockCash(r) \/ ReadCash(r) \/ PickStamps(r)
            <3>1. job' = job /\ step'[r] \in {"decrement", "commit", "cashRead", "mark"}
                  BY <2>3 DEF ReadProduct, DecrementStock, LockCash, ReadCash, PickStamps, Goto, TypeOK, private
            <3>2. StepSound(job[r], step'[r])
                  BY <2>0, <2>3 DEF ReadProduct, DecrementStock, LockCash, ReadCash, PickStamps,
                                    Goto, TypeOK, StepSound
            <3> QED BY <2>0, <3>1, <3>2
      <2>4. CASE MarkStamp(r)
            BY <2>0, <2>4 DEF MarkStamp
      <2>5. CASE CompareMarked(r)
            <3>1. job' = job /\ step'[r] = IF job[r].pay = "CASH" THEN "cashLock" ELSE "commit"
                  BY <2>5 DEF CompareMarked, Goto, TypeOK, private
            <3> QED BY <2>0, <2>5, <3>1 DEF CompareMarked, StepSound
      <2>6. CASE Commit(r) \/ Fail(r)
            BY <1>2, <2>6, AnswerJob DEF Commit, Fail
      <2>7. CASE NextDriver(r)
            <3>1. PICK d \in Drivers : job' = [job EXCEPT ![r].driver = d]
                  BY <2>7 DEF NextDriver, TypeOK
            <3>2. job'[r] = [job[r] EXCEPT !.driver = d] /\ step'[r] = "count" /\ job[r] \in Jobs
                  BY <2>0, <2>7, <3>1 DEF NextDriver, Goto, TypeOK, JobSound
            <3>3. job'[r] \in Jobs /\ job'[r].kind = job[r].kind /\ job'[r].op = job[r].op
                  /\ job'[r].amount = job[r].amount /\ job'[r].pay = job[r].pay
                  BY <3>1, <3>2 DEF Jobs
            <3> QED BY <2>0, <2>7, <3>2, <3>3 DEF JobSound, StepSound, NextDriver
      <2>8. CASE Report(r)
            BY <2>8 DEF Report, Forget, TypeOK
      <2> QED BY <1>2, <2>1, <2>2, <2>3, <2>4, <2>5, <2>6, <2>7, <2>8 DEF Proceed, Refuse, Expire
<1>3. CASE Crash(r)
      BY <1>3 DEF Crash, Forget, TypeOK
<1>4. Proceed(r) \/ Expire(r) => step[r] # "idle"
      BY DEF Proceed, Expire, CountStamps, CheckDriver, ReadProduct, DecrementStock, PickStamps, MarkStamp,
             CompareMarked, LockCash, ReadCash, Commit, Refuse, NextDriver, Report, LoopDone
<1> QED BY <1>1, <1>2, <1>3, <1>4 DEF Acts

LEMMA JobsNext == ASSUME IInv, [Next]_vars PROVE JobsSound'
<1>1. CASE UNCHANGED vars
      BY <1>1 DEF IInv, JobsSound, vars, private
<1>2. CASE Environment
      BY <1>2, EnvironmentKeeps DEF IInv, JobsSound, Keeps
<1>3. ASSUME NEW q \in Requests, Acts(q) PROVE JobsSound'
      <2>1. \A r \in Requests \ {q} : step'[r] = step[r] /\ job'[r] = job[r]
            BY <1>3, Others DEF Keeps
      <2> QED BY <1>3, <2>1, OwnJob DEF IInv, JobsSound
<1> QED BY <1>1, <1>2, <1>3 DEF Next, Acts

-----------------------------------------------------------------------------
(* The view of a request.                                                  *)

LEMMA HasSmallest ==
    ASSUME NEW S \in SUBSET Stamps, S # {}
    PROVE  \E m \in S : \A t \in S : ~ (t < m)
<1>1. IsFiniteSet(S) /\ \A s \in S : s \in Nat
      BY WorthSum
<1> QED BY <1>1, SmallestNumber

LEMMA OldestExists ==
    ASSUME NEW S \in SUBSET Stamps, S # {}, NEW n \in Int, n > 0
    PROVE  Oldest(S, n) # {}
<1>1. PICK m \in S : \A t \in S : ~ (t < m)
      BY HasSmallest
<1>2. {t \in S : t < m} = {}
      BY <1>1
<1> QED BY <1>2, FS_EmptySet DEF Oldest

LEMMA AllMarkedAll ==
    ASSUME TypeOK, NEW r \in Requests, ViewSound(r), AllMarked(r)
    PROVE  marked[r] = picked[r]
<1>1. marked[r] \subseteq picked[r] /\ IsFiniteSet(picked[r])
      BY WorthSum DEF TypeOK, ViewSound
<1> QED BY <1>1, FS_Subset DEF AllMarked

LEMMA ClosedView ==
    ASSUME IInv, NEW r \in Requests, Close(r), step'[r] \in {"idle", "next"}
    PROVE  ViewSound(r)' /\ CheckSound(r)'
<1>1. picked'[r] = {} /\ visited'[r] = {} /\ marked'[r] = {}
      BY DEF Close, IInv, TypeOK
<1> QED BY <1>1 DEF ViewSound, CheckSound, Marking

LEMMA OwnView ==
    ASSUME IInv, NEW r \in Requests, Acts(r)
    PROVE  ViewSound(r)'
<1> USE DEF IInv
<1>0. ViewSound(r) /\ TypeOK
      BY DEF ViewsSound
<1>1. ASSUME UNCHANGED <<redeemed, issued, locks, picked, visited, marked>>,
             step[r] \notin Marking, step'[r] \notin Marking \/ job'[r].kind \notin Redeeming
      PROVE  ViewSound(r)'
      <2>1. picked[r] = {} /\ marked[r] = {} /\ visited[r] = {}
            BY <1>0, <1>1 DEF ViewSound
      <2> QED BY <1>1, <2>1 DEF ViewSound
<1>2. CASE Arrive(r)
      <2>1. PICK j \in Jobs, first \in {"check", "count", "next"} : Begin(r, j, first)
            BY <1>2, Arrival DEF BeginOne, BeginRedeemAll, BeginReset, BeginAdjust
      <2> QED BY <1>0, <1>1, <2>1 DEF Begin, tables, Marking, TypeOK
<1>3. CASE CountStamps(r)
      <2>1. step'[r] \in {"idle", "next", "check"}
            BY <1>3 DEF CountStamps, Answer, Goto, TypeOK
      <2> QED BY <1>1, <1>3, <2>1 DEF CountStamps, tables, Marking
<1>4. CASE CheckDriver(r)
      <2>1. step'[r] = FirstStatement(job[r]) /\ job' = job
            BY <1>4 DEF CheckDriver, Goto, TypeOK, private
      <2>2. FirstStatement(job[r]) \notin Marking \/ job[r].kind \notin Redeeming
            BY DEF FirstStatement, Marking, Redeeming
      <2> QED BY <1>1, <1>4, <2>1, <2>2 DEF CheckDriver, tables, private, Marking
<1>5. CASE ReadProduct(r) \/ NextDriver(r) \/ Report(r)
      <2>1. step[r] \notin Marking /\ step'[r] \notin Marking
            BY <1>5 DEF ReadProduct, NextDriver, Report, LoopDone, Forget, Goto, TypeOK, Marking
      <2> QED BY <1>1, <1>5, <2>1 DEF ReadProduct, NextDriver, Report, tables, private
<1>6. CASE DecrementStock(r)
      <2>1. job[r].kind = "goods" /\ job' = job
            BY <1>6 DEF DecrementStock, JobsSound, StepSound, private
      <2>2. picked[r] = {} /\ visited[r] = {} /\ marked[r] = {}
            BY <1>0, <2>1 DEF ViewSound, Redeeming
      <2> QED BY <1>6, <2>1, <2>2 DEF DecrementStock, ViewSound, private, Redeeming
<1>7. CASE PickStamps(r)
      <2> DEFINE S == Outstanding(job[r].driver)
                 P == Oldest(S, job[r].amount)
      <2>1. /\ job[r].amount \in Int /\ job[r].amount > 0 /\ job[r].kind \in Redeeming
            BY <1>7 DEF PickStamps, JobsSound, JobSound, StepSound, Jobs, Redeeming
      <2>2. S \in SUBSET Stamps /\ S # {}
            <3>1. S \in SUBSET Stamps
                  BY OutstandingStamps
            <3>2. Cardinality(S) > 0
                  BY <1>7, <2>1, <3>1, Counted DEF PickStamps
            <3> HIDE DEF S
            <3> QED BY <3>1, <3>2, FS_EmptySet
      <2>3. P # {} /\ P \subseteq issued /\ \A s \in P : Owner[s] = job[r].driver
            BY <2>1, <2>2, OldestExists, OldestSubset DEF Outstanding
      <2>4. /\ picked'[r] = P /\ visited'[r] = {} /\ marked'[r] = {} /\ step'[r] = "mark" /\ job' = job
            /\ issued' = issued
            BY <1>0, <1>7 DEF PickStamps, Goto, TypeOK, ViewSound, Marking, tables
      <2> HIDE DEF P
      <2> QED BY <2>1, <2>3, <2>4 DEF ViewSound, Marking
<1>8. CASE MarkStamp(r)
      <2>1. PICK s \in Oldest(Unvisited(r), 1) :
              /\ visited' = [visited EXCEPT ![r] = @ \cup {s}]
              /\ IF Redeemable(s)
                 THEN /\ locks' = [locks EXCEPT ![StampRow(s)] = r]
                      /\ marked' = [marked EXCEPT ![r] = @ \cup {s}]
                 ELSE UNCHANGED <<locks, marked>>
            BY <1>8 DEF MarkStamp
      <2>2. s \in picked[r] /\ s \in Stamps
            BY OldestSubset DEF Unvisited, TypeOK
      <2>3. UNCHANGED <<redeemed, issued, step, job, picked>> /\ step[r] = "mark"
            BY <1>8 DEF MarkStamp, tables
      <2>4. visited'[r] = visited[r] \cup {s}
            BY <2>1 DEF TypeOK
      <2>5. CASE Redeemable(s)
            <3>1. marked'[r] = marked[r] \cup {s} /\ s \notin redeemed
                  BY <2>1, <2>5 DEF TypeOK, Redeemable
            <3>2. \A t \in Stamps : locks'[StampRow(t)] = r \/ (t # s /\ locks'[StampRow(t)] = locks[StampRow(t)])
                  BY <2>1, <2>2, <2>5, LockNames DEF TypeOK
            <3>3. marked[r] \subseteq Stamps
                  BY DEF TypeOK
            <3>4. \A t \in marked'[r] : locks'[StampRow(t)] = r /\ t \notin redeemed'
                  BY <1>0, <2>2, <2>3, <3>1, <3>2, <3>3 DEF ViewSound
            <3> QED BY <1>0, <2>2, <2>3, <2>4, <3>1, <3>4 DEF ViewSound, Marking
      <2>6. CASE ~ Redeemable(s)
            BY <1>0, <2>1, <2>2, <2>3, <2>4, <2>6 DEF ViewSound
      <2> QED BY <2>5, <2>6
<1>9. CASE CompareMarked(r)
      <2>1. marked[r] = picked[r] /\ job[r].kind \in Redeeming
            BY <1>0, <1>9, AllMarkedAll DEF CompareMarked, JobsSound, StepSound
      <2>2. step'[r] \in {"cashLock", "commit"} /\ job' = job
            BY <1>9 DEF CompareMarked, Goto, TypeOK, private
      <2> QED BY <1>0, <1>9, <2>1, <2>2 DEF CompareMarked, ViewSound, tables, private, Marking
<1>10. CASE LockCash(r)
      <2>1. job[r].op \in Operators
            BY <1>10 DEF LockCash, JobsSound, JobSound, StepSound, Redeeming
      <2>2. \A t \in Stamps : locks'[StampRow(t)] = locks[StampRow(t)]
            BY <1>10, <2>1, LockNames DEF LockCash, TypeOK
      <2>3. step'[r] = "cashRead" /\ step[r] = "cashLock" /\ marked[r] \subseteq Stamps
            BY <1>10 DEF LockCash, Goto, TypeOK
      <2> QED BY <1>0, <1>10, <2>2, <2>3 DEF LockCash, ViewSound, tables, private, Marking
<1>11. CASE ReadCash(r)
      <2>1. step'[r] = "commit" /\ step[r] = "cashRead"
            BY <1>11 DEF ReadCash, Goto, TypeOK
      <2> QED BY <1>0, <1>11, <2>1 DEF ReadCash, ViewSound, tables, private, Marking
<1>12. CASE Commit(r) \/ Refuse(r) \/ Expire(r)
      <2>1. Close(r) /\ step'[r] \in {"idle", "next"}
            BY <1>12 DEF Commit, Refuse, Expire, Fail, Answer, Goto, TypeOK
      <2> QED BY <2>1, ClosedView
<1>13. CASE Crash(r)
      <2>1. Close(r) /\ step'[r] = "idle"
            BY <1>13 DEF Crash, Forget, TypeOK
      <2> QED BY <2>1, ClosedView
<1> QED BY <1>2, <1>3, <1>4, <1>5, <1>6, <1>7, <1>8, <1>9, <1>10, <1>11, <1>12, <1>13 DEF Acts, Proceed

(* What is committed changes at a commit only.                             *)
LEMMA OnlyCommitWrites ==
    ASSUME NEW q, Acts(q), ~ Commit(q)
    PROVE  UNCHANGED tables
<1>1. Arrive(q) => UNCHANGED tables
      <2>1. ASSUME NEW j, NEW first, Begin(q, j, first) PROVE UNCHANGED tables
            BY <2>1 DEF Begin
      <2>2. ASSUME NEW j, BeginOne(q, j) \/ BeginRedeemAll(q, j) \/ BeginReset(q, j) \/ BeginAdjust(q, j)
            PROVE  UNCHANGED tables
            BY <2>1, <2>2 DEF BeginOne, BeginRedeemAll, BeginReset, BeginAdjust
      <2> QED BY <2>2, Arrival
<1>2. CountStamps(q) \/ CheckDriver(q) \/ ReadProduct(q) \/ DecrementStock(q) => UNCHANGED tables
      BY DEF CountStamps, CheckDriver, ReadProduct, DecrementStock
<1>3. PickStamps(q) \/ MarkStamp(q) \/ CompareMarked(q) \/ LockCash(q) \/ ReadCash(q) => UNCHANGED tables
      BY DEF PickStamps, MarkStamp, CompareMarked, LockCash, ReadCash
<1>4. Refuse(q) \/ Expire(q) \/ Crash(q) \/ NextDriver(q) \/ Report(q) => UNCHANGED tables
      BY DEF Refuse, Expire, Crash, Fail, NextDriver, Report
<1> QED BY <1>1, <1>2, <1>3, <1>4 DEF Acts, Proceed

LEMMA OthersView ==
    ASSUME IInv, NEW q \in Requests, Acts(q), NEW r \in Requests, r # q
    PROVE  ViewSound(r)'
<1>1. Keeps(r) /\ ViewSound(r) /\ ViewSound(q) /\ TypeOK
      BY Others DEF IInv, ViewsSound
<1>2. issued' = issued /\ (redeemed' = redeemed \/ redeemed' = redeemed \cup marked[q])
      <2>1. ~ Commit(q) => UNCHANGED tables
            BY OnlyCommitWrites
      <2>2. Commit(q) => issued' = issued /\ redeemed' = redeemed \cup marked[q]
            BY DEF Commit
      <2>4. UNCHANGED tables => issued' = issued /\ redeemed' = redeemed
            BY DEF tables
      <2> QED BY <2>1, <2>2, <2>4
<1>3. \A s \in marked[r] : locks'[StampRow(s)] = r /\ s \notin marked[q]
      <2>1. \A s \in marked[r] : s \in Stamps /\ StampRow(s) \in Lockable
            BY <1>1, LockNames DEF TypeOK
      <2>2. \A s \in marked[r] : locks[StampRow(s)] = r
            BY <1>1 DEF ViewSound
      <2>3. \A s \in marked[q] : locks[StampRow(s)] = q
            BY <1>1 DEF ViewSound
      <2>4. \A s \in marked[r] : locks'[StampRow(s)] = r
            BY <1>1, <2>1, <2>2 DEF Keeps
      <2> QED BY <2>2, <2>3, <2>4
<1> QED BY <1>1, <1>2, <1>3 DEF ViewSound, Keeps

LEMMA ViewsNext == ASSUME IInv, [Next]_vars PROVE ViewsSound'
<1>1. CASE UNCHANGED vars
      BY <1>1 DEF IInv, ViewsSound, ViewSound, vars, private, tables
<1>2. CASE Environment
      <2>1. UNCHANGED <<locks, step, private>> /\ redeemed' = redeemed /\ issued \subseteq issued'
            BY <1>2, EnvironmentKeeps DEF Environment, IssueStamp, SetStatus, SoftDelete, SetProductActive, DepositCash, HandOverCash
      <2> QED BY <2>1 DEF IInv, ViewsSound, ViewSound, private
<1>3. ASSUME NEW q \in Requests, Acts(q) PROVE ViewsSound'
      BY <1>3, OwnView, OthersView DEF ViewsSound
<1> QED BY <1>1, <1>2, <1>3 DEF Next, Acts

-----------------------------------------------------------------------------
(* The checks of a request.                                                *)
LEMMA OwnCheck ==
    ASSUME IInv, NEW r \in Requests, Acts(r)
    PROVE  CheckSound(r)'
<1> USE DEF IInv
<1>0. CheckSound(r) /\ TypeOK
      BY DEF ChecksSound
<1>1. CASE step'[r] \notin {"cashRead", "commit"}
      BY <1>1 DEF CheckSound
<1>2. CASE step'[r] = "cashRead"
      <2>1. CASE LockCash(r)
            <3>1. job[r].op \in Operators
                  BY <2>1 DEF LockCash, JobsSound, JobSound, StepSound, Redeeming
            <3> QED BY <1>2, <2>1, <3>1, LockNames DEF LockCash, CheckSound, TypeOK, private
      <2>2. ~ LockCash(r) => FALSE
            <3>1. CASE Arrive(r)
                  <4>1. PICK j \in Jobs, first \in {"check", "count", "next"} : Begin(r, j, first)
                        BY <3>1, Arrival DEF BeginOne, BeginRedeemAll, BeginReset, BeginAdjust
                  <4> QED BY <1>2, <4>1 DEF Begin, TypeOK
            <3>2. CASE MarkStamp(r)
                  BY <1>2, <3>2 DEF MarkStamp
            <3>3. CASE CheckDriver(r)
                  BY <1>2, <3>3 DEF CheckDriver, FirstStatement, Goto, TypeOK
            <3>4. CASE CountStamps(r) \/ Commit(r) \/ Fail(r)
                  BY <1>2, <3>4 DEF CountStamps, Commit, Fail, Answer, Goto, TypeOK
            <3>5. CASE ReadProduct(r) \/ DecrementStock(r) \/ PickStamps(r) \/ CompareMarked(r) \/ ReadCash(r)
                       \/ NextDriver(r) \/ Report(r) \/ Crash(r)
                  BY <1>2, <3>5 DEF ReadProduct, DecrementStock, PickStamps, CompareMarked, ReadCash, NextDriver,
                                    Report, Crash, Forget, Goto, TypeOK
            <3> HIDE DEF IInv
            <3> QED BY <2>1, <3>1, <3>2, <3>3, <3>4, <3>5 DEF Acts, Proceed, Refuse, Expire
      <2> QED BY <2>1, <2>2
<1>3. CASE step'[r] = "commit"
      <2>1. CASE CheckDriver(r)
            <3>1. job[r].kind = "adjust" /\ job' = job
                  BY <1>3, <2>1 DEF CheckDriver, FirstStatement, Goto, TypeOK, private
            <3> QED BY <1>3, <3>1 DEF CheckSound, Paid
      <2>2. CASE DecrementStock(r)
            <3>1. job[r].kind = "goods" /\ job[r].product \in Products
                  BY <2>2 DEF DecrementStock, JobsSound, JobSound, StepSound, Jobs
            <3>2. job' = job /\ stock' = stock /\ InStock(job[r]) /\ locks'[ProductRow(job[r].product)] = r
                  BY <2>2, <3>1, LockNames DEF DecrementStock, TypeOK, private, tables
            <3> QED BY <1>3, <3>1, <3>2 DEF CheckSound, Paid, InStock
      <2>3. CASE CompareMarked(r)
            <3>1. job[r].kind \in Redeeming /\ job[r].pay # "CASH" /\ job' = job
                  BY <1>3, <2>3 DEF CompareMarked, JobsSound, StepSound, Goto, TypeOK, private
            <3> QED BY <1>3, <3>1 DEF CheckSound, Paid, Redeeming
      <2>4. CASE ReadCash(r)
            <3>1. UNCHANGED <<tables, locks, private>> /\ Covered(r) /\ step[r] = "cashRead"
                  BY <2>4 DEF ReadCash
            <3>2. job[r].kind # "goods"
                  BY <3>1 DEF JobsSound, StepSound, Redeeming
            <3> QED BY <1>0, <1>3, <3>1, <3>2 DEF CheckSound, Paid, Covered, Due, tables, private
      <2>5. ~ (CheckDriver(r) \/ DecrementStock(r) \/ CompareMarked(r) \/ ReadCash(r)) => FALSE
            <3>1. CASE Arrive(r)
                  <4>1. PICK j \in Jobs, first \in {"check", "count", "next"} : Begin(r, j, first)
                        BY <3>1, Arrival DEF BeginOne, BeginRedeemAll, BeginReset, BeginAdjust
                  <4> QED BY <1>3, <4>1 DEF Begin, TypeOK
            <3>2. CASE MarkStamp(r)
                  BY <1>3, <3>2 DEF MarkStamp
            <3>4. CASE CountStamps(r) \/ Commit(r) \/ Fail(r)
                  BY <1>3, <3>4 DEF CountStamps, Commit, Fail, Answer, Goto, TypeOK
            <3>5. CASE ReadProduct(r) \/ PickStamps(r) \/ LockCash(r)
                       \/ NextDriver(r) \/ Report(r) \/ Crash(r)
                  BY <1>3, <3>5 DEF ReadProduct, PickStamps, LockCash, NextDriver,
                                    Report, Crash, Forget, Goto, TypeOK
            <3> HIDE DEF IInv
            <3> QED BY <2>1, <2>2, <2>3, <2>4, <3>1, <3>2, <3>4, <3>5 DEF Acts, Proceed, Refuse, Expire
      <2> QED BY <2>1, <2>2, <2>3, <2>4, <2>5
<1> QED BY <1>1, <1>2, <1>3

LEMMA DueKept ==
    ASSUME NEW r \in Requests, Keeps(r)
    PROVE  Due(r)' = Due(r) /\ (Paid(r)' <=> Paid(r)) /\ job'[r] = job[r] /\ step'[r] = step[r]
BY DEF Keeps, Due, Paid, WorthOf

(* What a request at its commit relies on: the drawer and the product row  *)
(* it has locked.                                                          *)
LEMMA LockedAtCommit ==
    ASSUME IInv, NEW r \in Requests
    PROVE  /\ step[r] \in {"cashRead", "commit"} /\ Paid(r) =>
                job[r].op \in Operators /\ locks[CashLock(job[r].op)] = r /\ CashLock(job[r].op) \in Lockable
           /\ step[r] = "commit" /\ job[r].kind = "goods" =>
                job[r].product \in Products /\ locks[ProductRow(job[r].product)] = r
                /\ ProductRow(job[r].product) \in Lockable
<1>1. CheckSound(r)
      BY DEF IInv, ChecksSound
<1>2. step[r] \in {"cashRead", "commit"} => job[r] \in Jobs
      BY DEF IInv, JobsSound, JobSound
<1>3. step[r] \in {"cashRead", "commit"} => job[r].product \in Products
      BY <1>2 DEF Jobs
<1> QED BY <1>1, <1>3, DueNat, LockNames DEF CheckSound

(* While they are locked, nobody else changes them.                        *)
Steady(r) ==
    /\ step[r] = "commit" /\ Paid(r) => cash'[job[r].op] = cash[job[r].op]
    /\ step[r] = "commit" /\ job[r].kind = "goods" => stock'[job[r].product] = stock[job[r].product]

LEMMA OthersSteady ==
    ASSUME IInv, NEW q \in Requests, Acts(q), NEW r \in Requests, r # q
    PROVE  Steady(r)
<1>1. CASE ~ Commit(q)
      BY <1>1, OnlyCommitWrites DEF Steady, tables
<1>2. CASE Commit(q)
      <2>0. step[q] = "commit"
            BY <1>2 DEF Commit
      <2>1. ASSUME step[r] = "commit", Paid(r) PROVE cash'[job[r].op] = cash[job[r].op]
            <3>1. Paid(q) => job[q].op # job[r].op
                  BY <2>0, <2>1, LockedAtCommit
            <3>2. job[r].op \in Operators /\ cash \in [Operators -> Nat]
                  BY <2>1, LockedAtCommit DEF IInv, TypeOK
            <3>3. cash' = cash \/ (Paid(q) /\ cash' = [cash EXCEPT ![job[q].op] = @ - Due(q)])
                  BY <1>2 DEF Commit
            <3> HIDE DEF Due
            <3> QED BY <3>1, <3>2, <3>3
      <2>2. ASSUME step[r] = "commit", job[r].kind = "goods"
            PROVE  stock'[job[r].product] = stock[job[r].product]
            <3>1. job[q].kind = "goods" => job[q].product # job[r].product
                  BY <2>0, <2>2, LockedAtCommit
            <3>2. job[r].product \in Products /\ stock \in [Products -> Nat]
                  BY <2>2, LockedAtCommit DEF IInv, TypeOK
            <3> QED BY <1>2, <3>1, <3>2 DEF Commit
      <2> QED BY <2>1, <2>2 DEF Steady
<1> QED BY <1>1, <1>2

LEMMA EnvironmentSteady ==
    ASSUME IInv, Environment, NEW r \in Requests
    PROVE  Steady(r)
<1>1. cash \in [Operators -> Nat] /\ r # NoRequest
      BY DEF IInv, TypeOK
<1>2. ASSUME NEW o \in Operators, NEW a \in Amounts, DepositCash(o, a) PROVE Steady(r)
      <2>1. cash' = [cash EXCEPT ![o] = @ + a] /\ locks[CashLock(o)] = NoRequest /\ stock' = stock
            BY <1>2 DEF DepositCash, Free
      <2> QED BY <1>1, <2>1, LockedAtCommit DEF Steady
<1>3. ASSUME NEW o \in Operators, NEW p \in Operators, HandOverCash(o, p) PROVE Steady(r)
      <2>1. /\ cash' = [cash EXCEPT ![o] = 0, ![p] = @ + cash[o]] /\ stock' = stock
            /\ locks[CashLock(o)] = NoRequest /\ locks[CashLock(p)] = NoRequest
            BY <1>3 DEF HandOverCash, Free
      <2> QED BY <1>1, <2>1, LockedAtCommit DEF Steady
<1>4. UNCHANGED <<cash, stock>> => Steady(r)
      BY DEF Steady
<1> QED BY <1>2, <1>3, <1>4 DEF Environment, IssueStamp, SetStatus, SoftDelete, SetProductActive

LEMMA CheckKept ==
    ASSUME IInv, NEW r \in Requests, Keeps(r), Steady(r)
    PROVE  CheckSound(r)'
<1>1. CheckSound(r)
      BY DEF IInv, ChecksSound
<1>2. job'[r] = job[r] /\ step'[r] = step[r] /\ Due(r)' = Due(r) /\ (Paid(r)' <=> Paid(r))
      BY DueKept
<1>3. step[r] \in {"cashRead", "commit"} /\ Paid(r) => locks'[CashLock(job[r].op)] = r
      BY LockedAtCommit DEF Keeps
<1>4. step[r] = "commit" /\ job[r].kind = "goods" => locks'[ProductRow(job[r].product)] = r
      BY LockedAtCommit DEF Keeps
<1>5. step[r] = "commit" /\ Paid(r) => Covered(r)'
      <2> HIDE DEF Due, Paid
      <2> QED BY <1>1, <1>2 DEF CheckSound, Covered, Steady
<1>6. step[r] = "commit" /\ job[r].kind = "goods" => InStock(job[r])'
      BY <1>1, <1>2 DEF CheckSound, InStock, Steady
<1> HIDE DEF Due, Paid, Covered, InStock
<1> QED BY <1>2, <1>3, <1>4, <1>5, <1>6 DEF CheckSound

LEMMA ChecksNext == ASSUME IInv, [Next]_vars PROVE ChecksSound'
<1>1. CASE UNCHANGED vars
      <2>1. \A r \in Requests : Keeps(r) /\ Steady(r)
            BY <1>1 DEF vars, tables, private, Keeps, Steady
      <2> QED BY <2>1, CheckKept DEF ChecksSound
<1>2. CASE Environment
      BY <1>2, EnvironmentKeeps, EnvironmentSteady, CheckKept DEF ChecksSound
<1>3. ASSUME NEW q \in Requests, Acts(q) PROVE ChecksSound'
      <2>1. \A r \in Requests \ {q} : CheckSound(r)'
            BY <1>3, Others, OthersSteady, CheckKept
      <2> QED BY <1>3, <2>1, OwnCheck DEF ChecksSound
<1> QED BY <1>1, <1>2, <1>3 DEF Next, Acts

-----------------------------------------------------------------------------
(* Every statement of every request, and whatever else changes the ledger, *)
(* keeps the inductive invariant.                                          *)
THEOREM Inductive == IInv /\ [Next]_vars => IInv'
<1> SUFFICES ASSUME IInv, [Next]_vars PROVE IInv'
    OBVIOUS
<1> QED BY TypeNext, JobsNext, ViewsNext, ChecksNext DEF IInv

(* So it holds in every state: what a request knows is what the rows say.  *)
THEOREM Invariance == Spec => []IInv
BY InitInv, Inductive, PTL DEF Spec

(* Type correctness: no stock, no drawer and no sum leaves its range, and  *)
(* no reset works with a list that is not one of drivers.                  *)
THEOREM TypeCorrect == Spec => []TypeOK
<1>1. IInv => TypeOK
      BY DEF IInv
<1> QED BY <1>1, Invariance, PTL

-----------------------------------------------------------------------------
(* What happens to the marks and to the redemption rows.                   *)
LEMMA RedemptionStep ==
    ASSUME IInv, [Next]_vars
    PROVE  \/ /\ UNCHANGED <<redeemed, redemptions>>
           \/ \E r \in Requests :
                 /\ Commit(r) /\ job[r].kind \in Redeeming
                 /\ redeemed' = redeemed \cup picked[r] /\ redeemed \cap picked[r] = {}
                 /\ picked[r] # {} /\ picked[r] \in SUBSET issued
                 /\ redemptions' = Append(redemptions, Redemption(r))
<1>1. CASE UNCHANGED vars
      BY <1>1 DEF vars, tables
<1>2. CASE Environment
      BY <1>2 DEF Environment, IssueStamp, SetStatus, SoftDelete, SetProductActive, DepositCash, HandOverCash
<1>3. ASSUME NEW q \in Requests, Acts(q), ~ Commit(q) PROVE UNCHANGED <<redeemed, redemptions>>
      BY <1>3, OnlyCommitWrites DEF tables
<1>4. ASSUME NEW q \in Requests, Commit(q)
      PROVE  \/ UNCHANGED <<redeemed, redemptions>>
             \/ /\ job[q].kind \in Redeeming
                /\ redeemed' = redeemed \cup picked[q] /\ redeemed \cap picked[q] = {}
                /\ picked[q] # {} /\ picked[q] \in SUBSET issued
                /\ redemptions' = Append(redemptions, Redemption(q))
      <2>1. step[q] = "commit" /\ ViewSound(q) /\ job[q].kind \in AllOperations
            BY <1>4 DEF Commit, IInv, ViewsSound, JobsSound, JobSound, Jobs
      <2>2. marked[q] = picked[q] /\ redeemed \cap picked[q] = {} /\ picked[q] \in SUBSET issued
            BY <2>1 DEF ViewSound, Marking
      <2>3. redeemed' = redeemed \cup picked[q]
            BY <1>4, <2>2 DEF Commit
      <2>4. CASE job[q].kind \in Redeeming
            <3>1. RowType(job[q]) = "STAMP_REDEMPTION"
                  BY <2>4 DEF RowType, Redeeming
            <3>2. redemptions' = Append(redemptions, Redemption(q))
                  BY <1>4, <3>1 DEF Commit, Redemption
            <3> QED BY <2>1, <2>2, <2>3, <2>4, <3>2 DEF ViewSound, Marking
      <2>5. CASE job[q].kind \notin Redeeming
            <3>1. RowType(job[q]) # "STAMP_REDEMPTION" /\ picked[q] = {}
                  BY <2>1, <2>5 DEF RowType, AllOperations, Redeeming, ViewSound
            <3> QED BY <1>4, <2>3, <3>1 DEF Commit
      <2> QED BY <2>4, <2>5
<1> QED BY <1>1, <1>2, <1>3, <1>4 DEF Next, Acts

LEMMA RedeemedOnceNext == IInv /\ RedeemedOnce /\ [Next]_vars => RedeemedOnce'
<1> SUFFICES ASSUME IInv, RedeemedOnce, [Next]_vars PROVE RedeemedOnce'
    OBVIOUS
<1>1. CASE UNCHANGED <<redeemed, redemptions>>
      BY <1>1 DEF RedeemedOnce
<1>2. ASSUME NEW r \in Requests, Commit(r), redeemed' = redeemed \cup picked[r], redeemed \cap picked[r] = {},
             redemptions' = Append(redemptions, Redemption(r))
      PROVE  RedeemedOnce'
      <2> DEFINE n == Len(redemptions)
      <2>1. redemptions \in Seq(Redemptions)
            BY DEF IInv, TypeOK, Redemptions
      <2>2. n \in Nat /\ DOMAIN redemptions = 1 .. n
            BY <2>1
      <2>3. DOMAIN redemptions' = 1 .. n + 1
            BY <1>2, <2>1
      <2>4. \A i \in 1 .. n : redemptions'[i] = redemptions[i]
            BY <1>2, <2>1
      <2>5. redemptions'[n + 1] = Redemption(r)
            BY <1>2, <2>1
      <2>6. redemptions'[n + 1].stamps = picked[r]
            BY <2>5 DEF Redemption
      <2> DEFINE old(i) == redemptions[i].stamps
                 new(i) == redemptions'[i].stamps
      <2>7. /\ redeemed = UNION {old(i) : i \in 1 .. n}
            /\ \A i, k \in 1 .. n : i # k => old(i) \cap old(k) = {}
            BY <2>2 DEF RedeemedOnce
      <2>8. (\A i \in 1 .. n : new(i) = old(i)) /\ new(n + 1) = picked[r]
            BY <2>4, <2>6
      <2>9. \A i \in 1 .. n : old(i) \subseteq redeemed
            BY <2>7
      <2> HIDE DEF n, old, new
      <2>10. \A i \in 1 .. n + 1 : i \in 1 .. n \/ i = n + 1
             BY <2>2
      <2>11. 1 .. n \subseteq 1 .. n + 1 /\ n + 1 \in 1 .. n + 1
             BY <2>2
      <2>12. UNION {new(i) : i \in 1 .. n + 1} = redeemed \cup picked[r]
             BY <2>7, <2>8, <2>10, <2>11
      <2>13. \A i, k \in 1 .. n + 1 : i # k => new(i) \cap new(k) = {}
             <3>1. TAKE i, k \in 1 .. n + 1
             <3>2. CASE i \in 1 .. n /\ k \in 1 .. n
                   BY <2>7, <2>8, <3>2
             <3>3. CASE i = n + 1 /\ k \in 1 .. n
                   BY <1>2, <2>8, <2>9, <3>3
             <3>4. CASE k = n + 1 /\ i \in 1 .. n
                   BY <1>2, <2>8, <2>9, <3>4
             <3> QED BY <2>10, <3>2, <3>3, <3>4
      <2> QED BY <1>2, <2>3, <2>12, <2>13 DEF RedeemedOnce, new
<1> QED BY <1>1, <1>2, RedemptionStep

(* No pechat is redeemed twice: the second of two requests that have read  *)
(* the same stamps finds them locked, and then redeemed.                   *)
THEOREM RedeemedOnceHolds == Spec => []RedeemedOnce
<1>1. Init => RedeemedOnce
      BY DEF Init, RedeemedOnce
<1> QED BY <1>1, RedeemedOnceNext, Invariance, PTL DEF Spec

-----------------------------------------------------------------------------
(* The order of the pechats.  What a driver got first was issued first, a  *)
(* request has read a driver's stamps from the oldest on, and what it left *)
(* out below them was redeemed already.                                    *)
IssuedInOrder == \A s \in issued, t \in Stamps : Owner[t] = Owner[s] /\ t < s => t \in issued

PickedInOrder ==
    \A r \in Requests : \A s \in picked[r], t \in issued :
        Owner[s] = Owner[t] /\ t < s => t \in redeemed \/ t \in picked[r]

Ordered == IssuedInOrder /\ PickedInOrder /\ OldestFirst

LEMMA OldestClosed ==
    ASSUME NEW S \in SUBSET Stamps, NEW n \in Int, NEW s \in Oldest(S, n), NEW t \in S, t < s
    PROVE  t \in Oldest(S, n)
<1> DEFINE below(x) == {u \in S : u < x}
<1>1. below(t) \in SUBSET below(s)
      <2>0. s \in Nat /\ t \in Nat /\ \A u \in S : u \in Nat
            BY DEF Oldest
      <2>1. \A u \in S : u < t => u < s
            BY <2>0
      <2> QED BY <2>1
<1>2. below(s) \in SUBSET Stamps /\ below(t) \in SUBSET Stamps
      OBVIOUS
<1>3. IsFiniteSet(below(s)) /\ Cardinality(below(s)) \in Nat /\ Cardinality(below(t)) \in Nat
      BY <1>2, WorthSum, Counted
<1>4. Cardinality(below(s)) < n
      BY DEF Oldest
<1> HIDE DEF below
<1>5. Cardinality(below(t)) <= Cardinality(below(s))
      BY <1>1, <1>3, FS_Subset
<1>6. Cardinality(below(t)) < n
      BY <1>3, <1>4, <1>5
<1> QED BY <1>6 DEF Oldest, below

(* Each stamp is issued in its turn.                                       *)
LEMMA IssueStep ==
    ASSUME IInv, [Next]_vars
    PROVE  \/ issued' = issued
           \/ \E s \in Stamps : IssueStamp(s)
<1>1. ASSUME NEW q \in Requests, Commit(q) PROVE issued' = issued
      BY <1>1 DEF Commit
<1>2. ASSUME NEW q \in Requests, Acts(q) PROVE issued' = issued
      BY <1>1, <1>2, OnlyCommitWrites DEF tables
<1>3. Environment => issued' = issued \/ \E s \in Stamps : IssueStamp(s)
      BY DEF Environment, SetStatus, SoftDelete, SetProductActive, DepositCash, HandOverCash
<1>4. UNCHANGED vars => issued' = issued
      BY DEF vars, tables
<1> QED BY <1>2, <1>3, <1>4 DEF Next, Acts

(* A view is read once, and dropped at the end of the transaction.         *)
LEMMA PickStep ==
    ASSUME IInv, [Next]_vars, NEW r \in Requests
    PROVE  picked'[r] \in {picked[r], {}} \/ PickStamps(r)
<1>1. UNCHANGED vars => picked' = picked
      BY DEF vars, private
<1>2. Environment => picked' = picked
      BY EnvironmentKeeps DEF private
<1>3. ASSUME NEW q \in Requests, Acts(q), q # r PROVE picked'[r] = picked[r]
      BY <1>3, Others DEF Keeps
<1>4. ASSUME Acts(r) PROVE picked'[r] \in {picked[r], {}} \/ PickStamps(r)
      <2>1. Close(r) => picked'[r] = {}
            BY DEF Close, IInv, TypeOK
      <2>2. Arrive(r) => picked' = picked
            <3>1. ASSUME NEW j, NEW first, Begin(r, j, first) PROVE picked' = picked
                  BY <3>1 DEF Begin
            <3>2. ASSUME NEW j, BeginOne(r, j) \/ BeginRedeemAll(r, j) \/ BeginReset(r, j) \/ BeginAdjust(r, j)
                  PROVE  picked' = picked
                  BY <3>1, <3>2 DEF BeginOne, BeginRedeemAll, BeginReset, BeginAdjust
            <3> QED BY <3>2, Arrival
      <2>3. CountStamps(r) \/ CheckDriver(r) \/ ReadProduct(r) \/ DecrementStock(r) \/ MarkStamp(r)
              => picked' = picked
            BY DEF CountStamps, CheckDriver, ReadProduct, DecrementStock, MarkStamp, private
      <2>4. CompareMarked(r) \/ LockCash(r) \/ ReadCash(r) \/ NextDriver(r) \/ Report(r)
              => picked' = picked
            BY DEF CompareMarked, LockCash, ReadCash, NextDriver, Report, private
      <2>5. Commit(r) \/ Refuse(r) \/ Expire(r) \/ Crash(r) => Close(r)
            BY DEF Commit, Refuse, Expire, Crash, Fail
      <2> QED BY <1>4, <2>1, <2>2, <2>3, <2>4, <2>5 DEF Acts, Proceed
<1> QED BY <1>1, <1>2, <1>3, <1>4 DEF Next, Acts

LEMMA OrderedNext == IInv /\ Ordered /\ [Next]_vars => Ordered'
<1> SUFFICES ASSUME IInv, Ordered, [Next]_vars PROVE Ordered'
    OBVIOUS
<1>1. issued \subseteq Stamps /\ redeemed \subseteq issued /\ TypeOK
      BY DEF IInv, TypeOK
<1>2. redeemed \subseteq redeemed'
      BY RedemptionStep
<1>3. IssuedInOrder'
      <2>1. issued' = issued => IssuedInOrder'
            BY DEF Ordered, IssuedInOrder
      <2>2. ASSUME NEW x \in Stamps, IssueStamp(x) PROVE IssuedInOrder'
            BY <2>2 DEF Ordered, IssuedInOrder, IssueStamp
      <2> QED BY <2>1, <2>2, IssueStep
(* Nothing that is issued later is older than what was issued before.      *)
<1>4. \A s \in issued, t \in issued' : Owner[s] = Owner[t] /\ t < s => t \in issued
      <2>1. issued' \subseteq Stamps
            BY TypeNext DEF TypeOK
      <2> QED BY <1>1, <2>1 DEF Ordered, IssuedInOrder
<1>5. PickedInOrder'
      <2> SUFFICES ASSUME NEW r \in Requests, NEW s \in picked'[r], NEW t \in issued', Owner[s] = Owner[t], t < s
                   PROVE  t \in redeemed' \/ t \in picked'[r]
          BY DEF PickedInOrder
      <2>1. CASE picked'[r] = picked[r]
            <3>1. s \in issued
                  BY <2>1 DEF IInv, ViewsSound, ViewSound
            <3>2. t \in redeemed \/ t \in picked[r]
                  BY <1>4, <2>1, <3>1 DEF Ordered, PickedInOrder
            <3> QED BY <1>2, <2>1, <3>2
      <2>2. CASE PickStamps(r)
            <3> DEFINE S == Outstanding(job[r].driver)
            <3>1. picked'[r] = Oldest(S, job[r].amount) /\ redeemed' = redeemed /\ issued' = issued
                  BY <1>1, <2>2 DEF PickStamps, TypeOK, tables
            <3>2. S \in SUBSET Stamps
                  BY <1>1, OutstandingStamps
            <3>3. job[r].amount \in Int
                  BY <2>2 DEF PickStamps, IInv, JobsSound, JobSound, Jobs
            <3>4. s \in S /\ Owner[s] = job[r].driver
                  BY <3>1, OldestSubset DEF Outstanding
            <3>5. CASE t \in S
                  <4> HIDE DEF S
                  <4> QED BY <3>1, <3>2, <3>3, <3>5, OldestClosed
            <3>6. CASE t \notin S
                  BY <3>1, <3>4, <3>6 DEF Outstanding
            <3> QED BY <3>5, <3>6
      <2> QED BY <2>1, <2>2, PickStep
<1>6. OldestFirst'
      <2> SUFFICES ASSUME NEW s \in redeemed', NEW t \in issued', Owner[s] = Owner[t], t < s
                   PROVE  t \in redeemed'
          BY DEF OldestFirst
      <2>1. CASE s \in redeemed
            BY <1>1, <1>2, <1>4, <2>1 DEF Ordered, OldestFirst
      <2>2. CASE s \notin redeemed
            <3>1. PICK r \in Requests : s \in picked[r] /\ redeemed' = redeemed \cup picked[r]
                                        /\ picked[r] \in SUBSET issued
                  BY <2>2, RedemptionStep
            <3>2. t \in issued
                  BY <1>4, <3>1
            <3> QED BY <3>1, <3>2 DEF Ordered, PickedInOrder
      <2> QED BY <2>1, <2>2
<1> QED BY <1>3, <1>5, <1>6 DEF Ordered

(* Stamps are issued, and stand in what a request picked, in order of age. *)
THEOREM OrderedHolds == Spec => []Ordered
<1>1. Init => Ordered
      BY DEF Init, Ordered, IssuedInOrder, PickedInOrder, OldestFirst
<1> QED BY <1>1, OrderedNext, Invariance, PTL DEF Spec

(* Redemptions take the oldest pechats first, whoever else redeems.        *)
THEOREM OldestFirstHolds == Spec => []OldestFirst
<1>1. Ordered => OldestFirst
      BY DEF Ordered
<1> QED BY <1>1, OrderedHolds, PTL

-----------------------------------------------------------------------------
(* Who holds a lock, and who asks for one.                                 *)
HoldSound(r) ==
    \A l \in Lockable : locks[l] = r =>
        \/ \E s \in marked[r] : l = StampRow(s)
        \/ \E p \in Products : l = ProductRow(p) /\ step[r] = "commit"
        \/ \E o \in Operators : l = CashLock(o) /\ step[r] \in {"cashRead", "commit"}

VisitSound(r) == \A s \in visited[r], t \in Unvisited(r) : s < t

HoldsSound == \A r \in Requests : HoldSound(r) /\ VisitSound(r)

LEMMA OwnHold ==
    ASSUME IInv, HoldsSound, NEW r \in Requests, Acts(r)
    PROVE  HoldSound(r)' /\ VisitSound(r)'
<1> USE DEF IInv
<1>0. HoldSound(r) /\ VisitSound(r) /\ ViewSound(r) /\ TypeOK
      BY DEF HoldsSound, ViewsSound
<1>1. ASSUME UNCHANGED <<locks, picked, visited, marked>>, step[r] \notin {"cashRead", "commit"}
      PROVE  HoldSound(r)' /\ VisitSound(r)'
      BY <1>0, <1>1 DEF HoldSound, VisitSound, Unvisited
<1>2. ASSUME Close(r) PROVE HoldSound(r)' /\ VisitSound(r)'
      <2>1. visited'[r] = {} /\ \A l \in Lockable : locks'[l] # r
            BY <1>2 DEF Close, TypeOK
      <2> QED BY <2>1 DEF HoldSound, VisitSound
<1>3. CASE Arrive(r)
      <2>1. PICK j \in Jobs, first \in {"check", "count", "next"} : Begin(r, j, first)
            BY <1>3, Arrival DEF BeginOne, BeginRedeemAll, BeginReset, BeginAdjust
      <2> QED BY <1>1, <2>1 DEF Begin
<1>4. CASE CountStamps(r) \/ CheckDriver(r) \/ ReadProduct(r)
      <2>1. UNCHANGED <<locks, picked, visited, marked>> /\ step[r] \notin {"cashRead", "commit"}
            BY <1>4 DEF CountStamps, CheckDriver, ReadProduct, private
      <2> QED BY <1>1, <2>1
<1>5. CASE CompareMarked(r) \/ NextDriver(r) \/ Report(r)
      <2>1. UNCHANGED <<locks, picked, visited, marked>> /\ step[r] \notin {"cashRead", "commit"}
            BY <1>5 DEF CompareMarked, NextDriver, Report, LoopDone, private
      <2> QED BY <1>1, <2>1
<1>6. CASE PickStamps(r)
      <2>1. visited'[r] = {} /\ marked' = marked /\ locks' = locks /\ step[r] = "pick"
            BY <1>0, <1>6 DEF PickStamps, ViewSound, Marking
      <2> QED BY <1>0, <2>1 DEF HoldSound, VisitSound
<1>7. CASE DecrementStock(r)
      <2> DEFINE p == job[r].product
      <2>1. /\ p \in Products /\ step[r] = "decrement" /\ step'[r] = "commit"
            /\ locks' = [locks EXCEPT ![ProductRow(p)] = r] /\ UNCHANGED <<picked, visited, marked>>
            BY <1>7 DEF DecrementStock, JobsSound, JobSound, Jobs, Goto, TypeOK, private
      <2> HIDE DEF p
      <2>2. \A l \in Lockable : locks'[l] = r => l = ProductRow(p) \/ locks[l] = r
            BY <2>1 DEF TypeOK
      <2> QED BY <1>0, <2>1, <2>2 DEF HoldSound, VisitSound, Unvisited
<1>8. CASE LockCash(r)
      <2> DEFINE o == job[r].op
      <2>1. /\ o \in Operators /\ step[r] = "cashLock" /\ step'[r] = "cashRead"
            /\ locks' = [locks EXCEPT ![CashLock(o)] = r] /\ UNCHANGED <<picked, visited, marked>>
            BY <1>8 DEF LockCash, JobsSound, JobSound, StepSound, Redeeming, Goto, TypeOK, private
      <2> HIDE DEF o
      <2>2. \A l \in Lockable : locks'[l] = r => l = CashLock(o) \/ locks[l] = r
            BY <2>1 DEF TypeOK
      <2> QED BY <1>0, <2>1, <2>2 DEF HoldSound, VisitSound, Unvisited
<1>9. CASE ReadCash(r)
      <2>1. UNCHANGED <<locks, picked, visited, marked>> /\ step[r] = "cashRead" /\ step'[r] = "commit"
            BY <1>9 DEF ReadCash, Goto, TypeOK, private
      <2> QED BY <1>0, <2>1 DEF HoldSound, VisitSound, Unvisited
<1>10. CASE MarkStamp(r)
       <2>1. PICK s \in Oldest(Unvisited(r), 1) :
               /\ visited' = [visited EXCEPT ![r] = @ \cup {s}]
               /\ IF Redeemable(s)
                  THEN /\ locks' = [locks EXCEPT ![StampRow(s)] = r]
                       /\ marked' = [marked EXCEPT ![r] = @ \cup {s}]
                  ELSE UNCHANGED <<locks, marked>>
             BY <1>10 DEF MarkStamp
       <2>2. visited'[r] = visited[r] \cup {s} /\ picked' = picked /\ step' = step
             BY <1>10, <2>1 DEF MarkStamp, TypeOK
       <2>3. Unvisited(r) \in SUBSET Stamps /\ s \in Unvisited(r)
             BY OldestSubset DEF Unvisited, TypeOK
       <2>4. \A t \in Unvisited(r) : ~ (t < s)
             <3> DEFINE B == {t \in Unvisited(r) : t < s}
             <3>1. B \in SUBSET Stamps /\ Cardinality(B) < 1
                   BY <2>1, <2>3 DEF Oldest
             <3> HIDE DEF B
             <3>2. B = {}
                   BY <3>1, Counted
             <3> QED BY <3>2 DEF B
       <2>5. VisitSound(r)'
             <3>1. \A t \in Unvisited(r)' : t \in Unvisited(r) /\ t # s /\ t \in Nat /\ s \in Nat
                   BY <2>2, <2>3 DEF Unvisited
             <3>2. \A t \in Unvisited(r)' : s < t
                   BY <2>4, <3>1
             <3> QED BY <1>0, <2>2, <3>1, <3>2 DEF VisitSound
       <2>6. HoldSound(r)'
             <3>1. \/ locks' = locks /\ marked' = marked
                   \/ locks' = [locks EXCEPT ![StampRow(s)] = r] /\ marked'[r] = marked[r] \cup {s}
                   BY <2>1 DEF TypeOK
             <3>2. \A l \in Lockable : locks'[l] = r => locks[l] = r \/ (l = StampRow(s) /\ s \in marked'[r])
                   BY <3>1 DEF TypeOK
             <3>3. marked[r] \subseteq marked'[r]
                   BY <3>1
             <3> QED BY <1>0, <2>2, <3>2, <3>3 DEF HoldSound
       <2> QED BY <2>5, <2>6
<1>11. Commit(r) \/ Refuse(r) \/ Expire(r) \/ Crash(r) => Close(r)
       BY DEF Commit, Refuse, Expire, Crash, Fail
<1> HIDE DEF IInv
<1> QED BY <1>2, <1>3, <1>4, <1>5, <1>6, <1>7, <1>8, <1>9, <1>10, <1>11 DEF Acts, Proceed

LEMMA HoldKept ==
    ASSUME NEW r \in Requests, Keeps(r), HoldSound(r), VisitSound(r)
    PROVE  HoldSound(r)' /\ VisitSound(r)'
BY DEF Keeps, HoldSound, VisitSound, Unvisited

LEMMA HoldsNext == IInv /\ HoldsSound /\ [Next]_vars => HoldsSound'
<1> SUFFICES ASSUME IInv, HoldsSound, [Next]_vars PROVE HoldsSound'
    OBVIOUS
<1>1. CASE UNCHANGED vars
      <2>1. \A r \in Requests : Keeps(r)
            BY <1>1 DEF vars, private, Keeps
      <2> QED BY <2>1, HoldKept DEF HoldsSound
<1>2. CASE Environment
      BY <1>2, EnvironmentKeeps, HoldKept DEF HoldsSound
<1>3. ASSUME NEW q \in Requests, Acts(q) PROVE HoldsSound'
      <2>1. \A r \in Requests \ {q} : HoldSound(r)' /\ VisitSound(r)'
            BY <1>3, Others, HoldKept DEF HoldsSound
      <2> QED BY <1>3, <2>1, OwnHold DEF HoldsSound
<1> QED BY <1>1, <1>2, <1>3 DEF Next, Acts

(* Whoever waits for a request that waits itself waits at a stamp, for one *)
(* the other has reached before the stamp it now asks for.                 *)
LEMMA NoCycle ==
    ASSUME IInv, HoldsSound
    PROVE  NoWaitCycle
<1> SUFFICES ASSUME NEW S \in SUBSET Requests, S # {}, \A r \in S : \E q \in S : WaitsFor(r, q)
             PROVE  FALSE
    BY DEF NoWaitCycle
<1>1. ASSUME NEW r \in S
      PROVE  \E q \in S, s \in Stamps :
                s \in Unvisited(r) /\ s \in visited[q]
      <2>1. PICK q \in S : WaitsFor(r, q)
            OBVIOUS
      <2>2. PICK p \in S : WaitsFor(q, p)
            OBVIOUS
      <2>3. step[q] \notin {"commit", "cashRead"}
            BY <2>2 DEF WaitsFor, Wanted
      <2>4. PICK l \in Wanted(r) : locks[l] = q
            BY <2>1 DEF WaitsFor
      <2>5. l \in Lockable
            <3>1. CASE step[r] = "decrement"
                  <4>1. job[r].product \in Products
                        BY <3>1 DEF IInv, JobsSound, JobSound, Jobs
                  <4> QED BY <2>4, <3>1, <4>1, LockNames DEF Wanted
            <3>2. CASE step[r] = "cashLock"
                  <4>1. job[r].op \in Operators
                        BY <3>2 DEF IInv, JobsSound, JobSound, StepSound, Redeeming
                  <4> QED BY <2>4, <3>2, <4>1, LockNames DEF Wanted
            <3>3. CASE step[r] = "mark"
                  <4>1. Oldest(Unvisited(r), 1) \subseteq Stamps
                        BY OldestSubset DEF Unvisited, IInv, TypeOK
                  <4> QED BY <2>4, <3>3, <4>1, LockNames DEF Wanted
            <3> QED BY <2>4, <3>1, <3>2, <3>3 DEF Wanted
      <2>6. PICK s \in marked[q] : l = StampRow(s)
            BY <2>3, <2>4, <2>5 DEF HoldsSound, HoldSound
      <2>7. s \in visited[q] /\ s \in Stamps
            BY <2>6 DEF IInv, ViewsSound, ViewSound, TypeOK
      <2>8. s \in Unvisited(r)
            <3>1. step[r] \notin {"decrement", "cashLock"}
                  BY <2>4, <2>6, LockNames DEF Wanted
            <3>2. l \in {StampRow(t) : t \in Oldest(Unvisited(r), 1)}
                  BY <2>4, <3>1 DEF Wanted
            <3> QED BY <2>6, <3>2, LockNames, OldestSubset
      <2> QED BY <2>7, <2>8
<1> DEFINE W == {s \in Stamps : \E r \in S, q \in S : s \in Unvisited(r) /\ s \in visited[q]}
<1>2. W \in SUBSET Stamps /\ W # {}
      BY <1>1
<1>3. IsFiniteSet(W) /\ \A s \in W : s \in Nat
      <2> HIDE DEF W
      <2> QED BY <1>2, WorthSum
<1>4. PICK m \in W : \A t \in W : ~ (m < t)
      <2> HIDE DEF W
      <2> QED BY <1>2, <1>3, GreatestNumber
<1>5. PICK q \in S : m \in visited[q]
      OBVIOUS
<1>6. PICK p \in S, t \in Stamps : t \in Unvisited(q) /\ t \in visited[p]
      BY <1>1
<1>7. m < t /\ t \in W
      BY <1>5, <1>6 DEF HoldsSound, VisitSound
<1> QED BY <1>4, <1>7

(* Requests never wait for each other in a circle.                         *)
THEOREM NoWaitCycleHolds == Spec => []NoWaitCycle
<1>1. Init => HoldsSound
      BY DEF Init, HoldsSound, HoldSound, VisitSound
<1>2. Spec => []HoldsSound
      BY <1>1, HoldsNext, Invariance, PTL DEF Spec
<1> QED BY <1>2, NoCycle, Invariance, PTL

-----------------------------------------------------------------------------
(* The reset of all drivers.  A pechat that was outstanding when it began  *)
(* and has neither been redeemed nor failed is still to come, or in hand:  *)
(* old enough to be among those the next statement will read, or read.     *)
Older(s) == {t \in issued \ redeemed : Owner[t] = Owner[s] /\ t < s}

InHand(r, s) ==
    /\ Owner[s] = job[r].driver
    /\ \/ step[r] = "count"
       \/ step[r] \in {"check", "pick"} /\ Cardinality(Older(s)) < job[r].amount
       \/ step[r] \in {"mark", "commit"} /\ s \in picked[r]

CoverSound(r) ==
    step[r] # "idle" /\ job[r].kind = "reset" =>
        /\ owed[r] \subseteq issued
        /\ \A s \in owed[r] : \/ s \in redeemed \/ Owner[s] \in failed[r] \/ Owner[s] \in todo[r]
                              \/ InHand(r, s)

CoversSound == \A r \in Requests : CoverSound(r)

(* The stamps before one that is issued only get fewer.                    *)
LEMMA OlderShrinks ==
    ASSUME IInv, Ordered, [Next]_vars, NEW s \in issued
    PROVE  /\ Cardinality(Older(s)) \in Nat /\ Cardinality(Older(s)') \in Nat
           /\ Cardinality(Older(s)') <= Cardinality(Older(s))
<1>1. issued' \subseteq Stamps /\ issued \subseteq Stamps
      BY TypeNext DEF TypeOK, IInv
<1>2. redeemed \subseteq redeemed'
      BY RedemptionStep
<1>3. \A t \in issued' : Owner[t] = Owner[s] /\ t < s => t \in issued
      BY <1>1 DEF Ordered, IssuedInOrder
<1>4. Older(s)' \in SUBSET Older(s)
      BY <1>2, <1>3 DEF Older
<1>5. Older(s) \in SUBSET Stamps
      BY <1>1 DEF Older
<1>6. IsFiniteSet(Older(s))
      BY <1>5, WorthSum
<1> HIDE DEF Older
<1>7. Older(s)' \in SUBSET Stamps
      BY <1>4, <1>5
<1> QED BY <1>4, <1>5, <1>6, <1>7, Counted, FS_Subset

LEMMA OthersCover ==
    ASSUME IInv, Ordered, [Next]_vars, NEW r \in Requests, Keeps(r), CoverSound(r)
    PROVE  CoverSound(r)'
<1> SUFFICES ASSUME step[r] # "idle", job[r].kind = "reset"
             PROVE  CoverSound(r)'
    BY DEF CoverSound, Keeps
<1>1. issued \subseteq issued' /\ redeemed \subseteq redeemed'
      BY RedemptionStep, IssueStep DEF IssueStamp
<1>2. owed'[r] = owed[r] /\ owed[r] \subseteq issued
      BY DEF Keeps, CoverSound
<1>3. ASSUME NEW s \in owed[r], InHand(r, s) PROVE InHand(r, s)'
      <2>1. /\ Cardinality(Older(s)) \in Nat /\ Cardinality(Older(s)') \in Nat
            /\ Cardinality(Older(s)') <= Cardinality(Older(s))
            BY <1>2, OlderShrinks
      <2>2. job'[r] = job[r] /\ step'[r] = step[r] /\ picked'[r] = picked[r]
            BY DEF Keeps
      <2>3. step[r] # "idle" => job[r].amount \in Int
            BY DEF IInv, JobsSound, JobSound, Jobs
      <2> HIDE DEF Older
      <2> QED BY <1>3, <2>1, <2>2, <2>3 DEF InHand
<1> HIDE DEF InHand
<1> QED BY <1>1, <1>2, <1>3 DEF CoverSound, Keeps

(* Its own step.                                                           *)
LEMMA OwnCover ==
    ASSUME IInv, Ordered, [Next]_vars, NEW r \in Requests, Acts(r), CoverSound(r)
    PROVE  CoverSound(r)'
<1> USE DEF IInv
<1>1. CASE Arrive(r)
      <2>1. PICK j \in Jobs : JobSound(j) /\ (BeginOne(r, j) \/ BeginRedeemAll(r, j) \/ BeginReset(r, j) \/ BeginAdjust(r, j))
            BY <1>1, Arrival
      <2>2. CASE BeginReset(r, j)
            <3>1. /\ todo'[r] = Resettable /\ issued' = issued
                  /\ owed'[r] = {s \in issued \ redeemed : Owner[s] \notin deleted}
                  BY <2>2 DEF BeginReset, Begin, TypeOK, tables
            <3>2. \A s \in issued : Owner[s] \in Drivers
                  BY DEF TypeOK
            <3>3. owed'[r] \subseteq issued' /\ \A s \in owed'[r] : Owner[s] \in todo'[r]
                  BY <3>1, <3>2 DEF Resettable
            <3> QED BY <3>3 DEF CoverSound
      <2>3. CASE ~ BeginReset(r, j)
            <3>1. job'[r] = j /\ j.kind # "reset"
                  BY <2>1, <2>3 DEF BeginOne, BeginRedeemAll, BeginAdjust, Begin, TypeOK
            <3> QED BY <3>1 DEF CoverSound
      <2> QED BY <2>2, <2>3
<1>2. ASSUME Proceed(r) \/ Expire(r), step[r] # "idle", job[r].kind = "reset"
      PROVE  CoverSound(r)'
      <2> DEFINE j == job[r]
      <2>0. /\ JobSound(j) /\ StepSound(j, step[r]) /\ ViewSound(r) /\ j.pay = "OTHER"
            /\ issued \subseteq Stamps /\ redeemed \subseteq issued /\ j.amount \in Int
            BY <1>2 DEF JobsSound, JobSound, ViewsSound, TypeOK, Jobs
      <2>1. /\ owed[r] \subseteq issued
            /\ \A s \in owed[r] : \/ s \in redeemed \/ Owner[s] \in failed[r] \/ Owner[s] \in todo[r]
                                  \/ InHand(r, s)
            BY <1>2 DEF CoverSound
      <2>2. \A s \in issued \ redeemed : Owner[s] = j.driver =>
                /\ s \in Outstanding(j.driver) /\ Older(s) = {t \in Outstanding(j.driver) : t < s}
            BY DEF Outstanding, Older
      <2>3. CASE CountStamps(r)
            <3> DEFINE n == Cardinality(Outstanding(j.driver))
            <3>1. UNCHANGED <<tables, todo, failed, owed>> /\ step[r] = "count"
                  BY <2>3 DEF CountStamps
            <3>2. CASE n = 0
                  <4>1. Outstanding(j.driver) = {}
                        BY <3>2, OutstandingStamps, Counted
                  <4>2. \A s \in owed[r] : s \in redeemed \/ Owner[s] \in failed[r] \/ Owner[s] \in todo[r]
                        BY <2>1, <2>2, <4>1 DEF InHand
                  <4> QED BY <2>1, <3>1, <4>2 DEF CoverSound, tables
            <3>3. CASE n # 0
                  <4>1. job' = [job EXCEPT ![r].amount = n] /\ Goto(r, "check")
                        BY <2>3, <3>3 DEF CountStamps
                  <4>2. ASSUME NEW s \in issued \ redeemed, Owner[s] = j.driver
                        PROVE  Cardinality(Older(s)) < n
                        <5>1. /\ Older(s) \in SUBSET Outstanding(j.driver) /\ s \notin Older(s)
                              /\ s \in Outstanding(j.driver) /\ Outstanding(j.driver) \in SUBSET Stamps
                              <6>1. s \in Outstanding(j.driver) /\ Older(s) = {t \in Outstanding(j.driver) : t < s}
                                    BY <2>2, <4>2
                              <6>2. Outstanding(j.driver) \in SUBSET Stamps
                                    BY OutstandingStamps
                              <6>3. ~ (s < s)
                                    <7>1. s \in Stamps
                                          BY <2>0
                                    <7>2. s \in Nat
                                          BY <7>1
                                    <7> QED BY <7>2
                              <6> HIDE DEF j
                              <6> QED BY <6>1, <6>2, <6>3
                        <5>2. IsFiniteSet(Outstanding(j.driver)) /\ n \in Nat /\ Cardinality(Older(s)) \in Nat
                              BY <5>1, WorthSum, Counted
                        <5>3. Cardinality(Older(s)) <= n /\ Cardinality(Older(s)) # n
                              BY <5>1, <5>2, FS_Subset
                        <5> QED BY <5>2, <5>3
                  <4> HIDE DEF n
                  <4>3. job'[r] = [j EXCEPT !.amount = n] /\ step'[r] = "check"
                        BY <4>1 DEF Goto, TypeOK
                  <4>4. job'[r].amount = n /\ job'[r].driver = j.driver
                        BY <2>0, <4>3 DEF JobSound, Jobs
                  <4>5. \A s \in owed[r] \ redeemed : InHand(r, s) => InHand(r, s)'
                        <5>1. \A s \in Stamps : Older(s)' = Older(s)
                              BY <3>1 DEF Older, tables
                        <5> HIDE DEF Older
                        <5> QED BY <2>0, <2>1, <4>2, <4>3, <4>4, <5>1 DEF InHand
                  <4> HIDE DEF InHand
                  <4> QED BY <2>1, <3>1, <4>5 DEF CoverSound, tables
            <3> QED BY <3>2, <3>3
      <2>4. CASE CheckDriver(r)
            <3>1. UNCHANGED <<tables, private>> /\ step[r] = "check" /\ step'[r] = "pick"
                  BY <1>2, <2>4 DEF CheckDriver, FirstStatement, Goto, TypeOK
            <3>2. \A s : InHand(r, s) => InHand(r, s)'
                  BY <3>1 DEF InHand, Older, tables, private
            <3> HIDE DEF InHand
            <3> QED BY <2>1, <3>1, <3>2 DEF CoverSound, tables, private
      <2>5. CASE PickStamps(r)
            <3>1. /\ UNCHANGED <<tables, job, todo, failed, owed>> /\ step[r] = "pick" /\ step'[r] = "mark"
                  /\ picked'[r] = Oldest(Outstanding(j.driver), j.amount)
                  BY <2>5 DEF PickStamps, Goto, TypeOK
            <3>2. ASSUME NEW s \in owed[r] \ redeemed, InHand(r, s) PROVE InHand(r, s)'
                  <4>1. Cardinality(Older(s)) < j.amount /\ Owner[s] = j.driver
                        BY <3>1, <3>2 DEF InHand
                  <4>2. s \in Oldest(Outstanding(j.driver), j.amount)
                        BY <2>1, <2>2, <4>1 DEF Oldest
                  <4> QED BY <3>1, <4>1, <4>2 DEF InHand
            <3> HIDE DEF InHand
            <3> QED BY <2>1, <3>1, <3>2 DEF CoverSound, tables
      <2>6. CASE MarkStamp(r)
            <3>1. UNCHANGED <<tables, job, step, picked, todo, failed, owed>>
                  BY <2>6 DEF MarkStamp
            <3>2. \A s : InHand(r, s) => InHand(r, s)'
                  BY <3>1 DEF InHand, Older, tables
            <3> HIDE DEF InHand
            <3> QED BY <2>1, <3>1, <3>2 DEF CoverSound, tables
      <2>7. CASE CompareMarked(r)
            <3>1. UNCHANGED <<tables, private>> /\ step[r] = "mark" /\ step'[r] = "commit"
                  BY <2>0, <2>7 DEF CompareMarked, Goto, TypeOK
            <3>2. \A s : InHand(r, s) => InHand(r, s)'
                  BY <3>1 DEF InHand, private
            <3> HIDE DEF InHand
            <3> QED BY <2>1, <3>1, <3>2 DEF CoverSound, tables, private
      <2>8. CASE Commit(r)
            <3>1. /\ UNCHANGED <<issued, todo, failed, owed>> /\ step[r] = "commit"
                  /\ redeemed' = redeemed \cup marked[r]
                  BY <2>8 DEF Commit
            <3>2. marked[r] = picked[r]
                  BY <2>0, <3>1 DEF ViewSound, Marking
            <3>3. \A s \in owed[r] : s \in redeemed' \/ Owner[s] \in failed[r] \/ Owner[s] \in todo[r]
                  BY <2>1, <3>1, <3>2 DEF InHand
            <3> QED BY <2>1, <3>1, <3>3 DEF CoverSound
      <2>9. CASE Fail(r)
            <3>1. UNCHANGED <<tables, todo, owed>> /\ failed'[r] = failed[r] \cup {j.driver}
                  BY <1>2, <2>9 DEF Fail, TypeOK
            <3>2. \A s \in owed[r] : s \in redeemed \/ Owner[s] \in failed'[r] \/ Owner[s] \in todo[r]
                  BY <2>1, <3>1 DEF InHand
            <3> QED BY <2>1, <3>1, <3>2 DEF CoverSound, tables
      <2>10. CASE NextDriver(r)
            <3>1. PICK d \in todo[r] : /\ job' = [job EXCEPT ![r].driver = d]
                                       /\ todo' = [todo EXCEPT ![r] = @ \ {d}]
                  BY <2>10 DEF NextDriver
            <3>2. /\ UNCHANGED <<tables, failed, owed>> /\ step[r] = "next" /\ step'[r] = "count"
                  /\ todo'[r] = todo[r] \ {d} /\ job'[r] = [j EXCEPT !.driver = d]
                  BY <2>10, <3>1 DEF NextDriver, Goto, TypeOK
            <3>3. job'[r].driver = d
                  BY <2>0, <3>2 DEF JobSound, Jobs
            <3>4. \A s \in owed[r] : \/ s \in redeemed \/ Owner[s] \in failed[r] \/ Owner[s] \in todo'[r]
                                     \/ InHand(r, s)'
                  BY <2>1, <3>2, <3>3 DEF InHand
            <3> HIDE DEF InHand
            <3> QED BY <2>1, <3>2, <3>4 DEF CoverSound, tables
      <2>12. CASE Report(r)
             BY <2>12 DEF Report, Forget, TypeOK, CoverSound
      <2>13. ~ (ReadProduct(r) \/ DecrementStock(r) \/ LockCash(r) \/ ReadCash(r))
             BY <1>2, <2>0 DEF ReadProduct, DecrementStock, LockCash, ReadCash, StepSound, Redeeming
      <2>14. Refuse(r) \/ Expire(r) => Fail(r)
             BY DEF Refuse, Expire
      <2> HIDE DEF IInv, j
      <2> QED BY <1>2, <2>3, <2>4, <2>5, <2>6, <2>7, <2>8, <2>9, <2>10, <2>12, <2>13, <2>14 DEF Proceed
<1>3. ASSUME Proceed(r) \/ Expire(r), step[r] # "idle", job[r].kind # "reset"
      PROVE  CoverSound(r)'
      <2>1. step'[r] # "idle" => job'[r].kind # "reset"
            <3>1. CASE CountStamps(r)
                  <4> DEFINE n == Cardinality(Outstanding(job[r].driver))
                  <4>1. Answer(r) \/ (job' = [job EXCEPT ![r].amount = n] /\ job[r] \in Jobs)
                        BY <1>3, <3>1 DEF CountStamps, JobsSound, JobSound
                  <4>2. Answer(r) => step'[r] = "idle"
                        BY <1>3 DEF Answer, Goto, TypeOK
                  <4> HIDE DEF n
                  <4>3. job' = [job EXCEPT ![r].amount = n] /\ job[r] \in Jobs => job'[r].kind = job[r].kind
                        BY DEF TypeOK, Jobs
                  <4> QED BY <1>3, <4>1, <4>2, <4>3
            <3>2. CASE Commit(r) \/ Fail(r)
                  BY <1>3, <3>2 DEF Commit, Fail, Answer, Goto, TypeOK
            <3>3. CASE CheckDriver(r) \/ ReadProduct(r) \/ DecrementStock(r) \/ PickStamps(r) \/ MarkStamp(r)
                  BY <1>3, <3>3 DEF CheckDriver, ReadProduct, DecrementStock, PickStamps, MarkStamp, private
            <3>4. CASE CompareMarked(r) \/ LockCash(r) \/ ReadCash(r)
                  BY <1>3, <3>4 DEF CompareMarked, LockCash, ReadCash, private
            <3>5. CASE Report(r)
                  BY <3>5 DEF Report, Forget, TypeOK
            <3>6. ~ NextDriver(r)
                  BY <1>3 DEF NextDriver, JobsSound, StepSound
            <3> HIDE DEF IInv
            <3> QED BY <1>3, <3>1, <3>2, <3>3, <3>4, <3>5, <3>6 DEF Proceed, Refuse, Expire
      <2> QED BY <2>1 DEF CoverSound
<1>4. CASE Crash(r)
      BY <1>4 DEF Crash, Forget, TypeOK, CoverSound
<1>5. Proceed(r) \/ Expire(r) => step[r] # "idle"
      BY DEF Proceed, Expire, CountStamps, CheckDriver, ReadProduct, DecrementStock, PickStamps, MarkStamp,
             CompareMarked, LockCash, ReadCash, Commit, Refuse, NextDriver, Report, LoopDone
<1> HIDE DEF IInv
<1> QED BY <1>1, <1>2, <1>3, <1>4, <1>5 DEF Acts

LEMMA CoversNext == IInv /\ Ordered /\ CoversSound /\ [Next]_vars => CoversSound'
<1> SUFFICES ASSUME IInv, Ordered, CoversSound, [Next]_vars PROVE CoversSound'
    OBVIOUS
<1>1. CASE UNCHANGED vars
      <2>1. \A r \in Requests : Keeps(r)
            BY <1>1 DEF vars, private, Keeps
      <2> QED BY <2>1, OthersCover DEF CoversSound
<1>2. CASE Environment
      BY <1>2, EnvironmentKeeps, OthersCover DEF CoversSound
<1>3. ASSUME NEW q \in Requests, Acts(q) PROVE CoversSound'
      <2>1. \A r \in Requests \ {q} : CoverSound(r)'
            BY <1>3, Others, OthersCover DEF CoversSound
      <2> QED BY <1>3, <2>1, OwnCover DEF CoversSound
<1> QED BY <1>1, <1>2, <1>3 DEF Next, Acts

(* A reset that reports has taken every pechat that was there, or names    *)
(* its driver.                                                             *)
THEOREM ResetCoversHolds == Spec => []ResetCovers
<1>1. Init => CoversSound
      BY DEF Init, CoversSound, CoverSound
<1>2. Spec => []CoversSound
      BY <1>1, CoversNext, OrderedHolds, Invariance, PTL DEF Spec
<1>3. IInv /\ CoversSound => ResetCovers
      <2> SUFFICES ASSUME IInv, CoversSound, NEW r \in Requests, LoopDone(r), NEW s \in owed[r]
                   PROVE  s \in redeemed \/ Owner[s] \in failed[r]
          BY DEF ResetCovers
      <2>1. step[r] = "next" /\ job[r].kind = "reset"
            BY DEF IInv, JobsSound, StepSound, LoopDone
      <2>2. todo[r] = {} /\ ~ InHand(r, s)
            BY <2>1 DEF LoopDone, InHand
      <2> QED BY <2>1, <2>2 DEF CoversSound, CoverSound
<1> QED BY <1>2, <1>3, Invariance, PTL

-----------------------------------------------------------------------------
(* The rows.  A column is what the rows of one type sum to, per driver.    *)
Column(t) == [d \in Drivers |-> sum[d][t]]

Same(t) == \A d \in Drivers : sum'[d][t] = sum[d][t]
Moved(d, t, n) ==
    /\ sum'[d][t] = sum[d][t] + n
    /\ \A e \in Drivers, u \in Types : e # d \/ u # t => sum'[e][u] = sum[e][u]

LEMMA ColumnSum ==
    ASSUME TypeOK, NEW t \in Types
    PROVE  /\ SumFunction(Column(t)) = SumFunctionOnSet(Column(t), Drivers)
           /\ Weighs(Column(t), Drivers) /\ SumFunction(Column(t)) \in Int
<1>1. SumFunction(Column(t)) = SumFunctionOnSet(Column(t), Drivers)
      BY DEF SumFunction, Column
<1>2. \A d \in Drivers : Column(t)[d] \in Int
      BY DEF TypeOK, Column
<1> HIDE DEF Column
<1>3. Weighs(Column(t), Drivers)
      BY <1>2 DEF Weighs
<1>4. SumFunctionOnSet(Column(t), Drivers) \in Int
      BY <1>3, FiniteAssumption, SumInt
<1> QED BY <1>1, <1>3, <1>4

LEMMA ColumnMoves ==
    ASSUME TypeOK, TypeOK', NEW d \in Drivers, NEW t \in Types, NEW n \in Int, Moved(d, t, n)
    PROVE  SumFunction(Column(t)') = SumFunction(Column(t)) + n
<1> DEFINE w == Column(t)
           v == Column(t)'
<1>1. v[d] = w[d] + n /\ w[d] \in Int /\ v[d] \in Int /\ \A e \in Drivers \ {d} : w[e] = v[e]
      BY DEF Moved, Column, TypeOK
<1>2. Weighs(w, Drivers) /\ SumFunction(w) = SumFunctionOnSet(w, Drivers) /\ SumFunction(w) \in Int
      BY ColumnSum
<1>3. SumFunction(v) = SumFunctionOnSet(v, Drivers)
      BY DEF SumFunction, Column
<1>4. Weighs(v, Drivers)
      BY DEF Weighs, TypeOK, Column
<1> HIDE DEF w, v
<1>5. SumFunctionOnSet(v, Drivers) = SumFunctionOnSet(w, Drivers) + v[d] - w[d]
      BY <1>1, <1>2, <1>4, FiniteAssumption, SumChange
<1>6. SumFunction(v) = SumFunction(w) + n
      BY <1>1, <1>2, <1>3, <1>5
<1> QED BY <1>6 DEF w, v

LEMMA ColumnStays ==
    ASSUME NEW t, Same(t)
    PROVE  Column(t)' = Column(t)
BY DEF Same, Column

(* The row of a commit.                                                    *)
LEMMA CommitRow ==
    ASSUME IInv, NEW q \in Requests, Commit(q)
    PROVE  /\ job[q].driver \in Drivers /\ RowType(job[q]) \in Types /\ RowAmount(q) \in Int
           /\ Moved(job[q].driver, RowType(job[q]), RowAmount(q))
<1>1. job[q].driver \in Drivers /\ step[q] = "commit"
      BY DEF Commit, IInv, JobsSound, JobSound, Jobs
<1>2. RowType(job[q]) \in Types
      BY DEF RowType, Types
<1>3. RowAmount(q) \in Int
      BY <1>1, RowAmountInt
<1>4. sum' = [sum EXCEPT ![job[q].driver][RowType(job[q])] = @ + RowAmount(q)]
      BY DEF Commit
<1>5. sum \in [Drivers -> [Types -> Int]]
      BY DEF IInv, TypeOK
<1> HIDE DEF RowType, RowAmount
<1> QED BY <1>1, <1>2, <1>3, <1>4, <1>5 DEF Moved

LEMMA IssueRow ==
    ASSUME IInv, NEW s \in Stamps, IssueStamp(s)
    PROVE  Owner[s] \in Drivers /\ Worth[s] \in Int /\ Moved(Owner[s], "STAMP", Worth[s])
BY DEF IssueStamp, Moved, IInv, TypeOK, Types

(* Only a commit and a new stamp write rows.                               *)
LEMMA RowStep ==
    ASSUME IInv, [Next]_vars
    PROVE  \/ sum' = sum /\ UNCHANGED <<issued, redeemed, redemptions, stock>>
           \/ \E s \in Stamps : IssueStamp(s)
           \/ \E q \in Requests : Commit(q)
<1>1. UNCHANGED tables => sum' = sum /\ UNCHANGED <<issued, redeemed, redemptions, stock>>
      BY DEF tables
<1>2. UNCHANGED vars => UNCHANGED tables
      BY DEF vars
<1>3. ASSUME NEW q \in Requests, Acts(q), ~ Commit(q) PROVE UNCHANGED tables
      BY <1>3, OnlyCommitWrites
<1>4. Environment => \/ sum' = sum /\ UNCHANGED <<issued, redeemed, redemptions, stock>>
                     \/ \E s \in Stamps : IssueStamp(s)
      BY DEF Environment, SetStatus, SoftDelete, SetProductActive, DepositCash, HandOverCash
<1> QED BY <1>1, <1>2, <1>3, <1>4 DEF Next, Acts

-----------------------------------------------------------------------------
(* The marks and the rows.                                                 *)
LEMMA PointsNext == IInv /\ PointsMatchStamps /\ [Next]_vars => PointsMatchStamps'
<1> SUFFICES ASSUME IInv, PointsMatchStamps, [Next]_vars, NEW d \in Drivers
             PROVE  (sum[d]["STAMP"] + sum[d]["STAMP_REDEMPTION"] = WorthOf(Outstanding(d)))'
    BY DEF PointsMatchStamps
<1> DEFINE O == Outstanding(d)
           OO == Outstanding(d)'
<1>0. TypeOK /\ TypeOK' /\ redeemed \subseteq issued /\ issued \subseteq Stamps
      BY TypeNext DEF IInv, TypeOK
<1>1. O \in SUBSET Stamps /\ WorthOf(O) \in Nat /\ IsFiniteSet(O) /\ Weighs(Worth, O)
      BY <1>0, OutstandingStamps, WorthSum
<1>2. OO \in SUBSET Stamps /\ WorthOf(OO) \in Nat /\ IsFiniteSet(OO) /\ Weighs(Worth, OO)
      <2>1. OO \in SUBSET Stamps
            BY <1>0 DEF Outstanding, TypeOK
      <2> HIDE DEF OO
      <2> QED BY <2>1, WorthSum
<1>3. sum[d]["STAMP"] + sum[d]["STAMP_REDEMPTION"] = WorthOf(O)
      /\ sum[d]["STAMP"] \in Int /\ sum[d]["STAMP_REDEMPTION"] \in Int
      BY <1>0 DEF PointsMatchStamps, TypeOK, Types
<1>4. "STAMP" \in Types /\ "STAMP_REDEMPTION" \in Types
      BY DEF Types
<1>6. ASSUME sum'[d]["STAMP"] = sum[d]["STAMP"], sum'[d]["STAMP_REDEMPTION"] = sum[d]["STAMP_REDEMPTION"], OO = O
      PROVE  sum'[d]["STAMP"] + sum'[d]["STAMP_REDEMPTION"] = WorthOf(OO)
      BY <1>3, <1>6
<1>7. CASE sum' = sum /\ UNCHANGED <<issued, redeemed, redemptions, stock>>
      <2>1. OO = O
            BY <1>7 DEF Outstanding
      <2> HIDE DEF O, OO
      <2>2. sum'[d]["STAMP"] + sum'[d]["STAMP_REDEMPTION"] = WorthOf(OO)
            BY <1>6, <1>7, <2>1
      <2> QED BY <2>2 DEF OO, WorthOf
<1>8. ASSUME NEW s \in Stamps, IssueStamp(s)
      PROVE  sum'[d]["STAMP"] + sum'[d]["STAMP_REDEMPTION"] = WorthOf(OO)
      <2>1. s \notin issued /\ issued' = issued \cup {s} /\ redeemed' = redeemed
            BY <1>8 DEF IssueStamp
      <2>2. Moved(Owner[s], "STAMP", Worth[s]) /\ Worth[s] \in Int
            BY <1>8, IssueRow
      <2>3. sum'[d]["STAMP_REDEMPTION"] = sum[d]["STAMP_REDEMPTION"]
            BY <1>4, <2>2 DEF Moved
      <2>4. CASE Owner[s] = d
            <3>1. OO = O \cup {s} /\ s \notin O
                  BY <1>0, <2>1, <2>4 DEF Outstanding
            <3>2. sum'[d]["STAMP"] = sum[d]["STAMP"] + Worth[s]
                  BY <2>2, <2>4 DEF Moved
            <3> HIDE DEF O, OO
            <3>3. WorthOf(OO) = WorthOf(O) + Worth[s]
                  <4>1. Weighs(Worth, O \cup {s})
                        BY <1>2, <3>1
                  <4> QED BY <1>1, <3>1, <4>1, SumGrow DEF WorthOf
            <3> QED BY <1>1, <1>3, <2>2, <2>3, <3>2, <3>3
      <2>5. CASE Owner[s] # d
            <3>1. OO = O
                  BY <2>1, <2>5 DEF Outstanding
            <3>2. sum'[d]["STAMP"] = sum[d]["STAMP"]
                  BY <1>4, <2>2, <2>5 DEF Moved
            <3> HIDE DEF O, OO
            <3> QED BY <1>6, <2>3, <3>1, <3>2
      <2> QED BY <2>4, <2>5
<1>9. ASSUME NEW q \in Requests, Commit(q)
      PROVE  sum'[d]["STAMP"] + sum'[d]["STAMP_REDEMPTION"] = WorthOf(OO)
      <2>1. /\ RowType(job[q]) \in Types /\ RowAmount(q) \in Int
            /\ Moved(job[q].driver, RowType(job[q]), RowAmount(q))
            BY <1>9, CommitRow
      <2>2. /\ step[q] = "commit" /\ issued' = issued /\ redeemed' = redeemed \cup marked[q]
            /\ job[q].kind \in AllOperations /\ ViewSound(q)
            BY <1>9 DEF Commit, IInv, ViewsSound, JobsSound, JobSound, Jobs
      <2>3. /\ marked[q] = picked[q] /\ picked[q] \in SUBSET issued /\ picked[q] \cap redeemed = {}
            /\ \A s \in picked[q] : Owner[s] = job[q].driver
            BY <2>2 DEF ViewSound, Marking
      <2>4. RowType(job[q]) # "STAMP"
            BY DEF RowType
      <2>5. sum'[d]["STAMP"] = sum[d]["STAMP"]
            BY <1>4, <2>1, <2>4 DEF Moved
      <2>6. CASE job[q].driver = d /\ job[q].kind \in Redeeming
            <3>1. RowType(job[q]) = "STAMP_REDEMPTION" /\ RowAmount(q) = - WorthOf(picked[q])
                  BY <2>6 DEF RowType, RowAmount, Redeeming
            <3>2. sum'[d]["STAMP_REDEMPTION"] = sum[d]["STAMP_REDEMPTION"] - WorthOf(picked[q])
                  <4>1. sum'[d]["STAMP_REDEMPTION"] = sum[d]["STAMP_REDEMPTION"] + RowAmount(q)
                        BY <2>1, <2>6, <3>1 DEF Moved
                  <4>2. WorthOf(picked[q]) \in Int
                        BY <1>0, <2>3, WorthSum
                  <4> HIDE DEF RowAmount
                  <4> QED BY <1>3, <3>1, <4>1, <4>2
            <3>3. picked[q] \in SUBSET O /\ OO = O \ picked[q]
                  BY <2>2, <2>3, <2>6 DEF Outstanding
            <3> DEFINE P == picked[q]
            <3>4. IsFiniteSet(P) /\ WorthOf(P) \in Nat
                  BY <1>0, <2>3, WorthSum
            <3> HIDE DEF O, OO, P
            <3>5. O = OO \cup P /\ OO \cap P = {}
                  BY <3>3 DEF P
            <3>6. WorthOf(O) = WorthOf(OO) + WorthOf(P)
                  BY <1>1, <1>2, <3>4, <3>5, SumDisjoint DEF WorthOf
            <3>7. sum'[d]["STAMP_REDEMPTION"] = sum[d]["STAMP_REDEMPTION"] - WorthOf(P)
                  BY <3>2 DEF P
            <3> QED BY <1>1, <1>2, <1>3, <2>5, <3>4, <3>6, <3>7
      <2>7. CASE ~ (job[q].driver = d /\ job[q].kind \in Redeeming)
            <3>1. job[q].driver # d \/ RowType(job[q]) # "STAMP_REDEMPTION"
                  BY <2>2, <2>7 DEF RowType, AllOperations, Redeeming
            <3>2. sum'[d]["STAMP_REDEMPTION"] = sum[d]["STAMP_REDEMPTION"]
                  BY <1>4, <2>1, <3>1 DEF Moved
            <3>3. OO = O
                  <4>1. job[q].kind \notin Redeeming => picked[q] = {}
                        BY <2>2 DEF ViewSound
                  <4> QED BY <2>2, <2>3, <2>7, <4>1 DEF Outstanding
            <3> HIDE DEF O, OO
            <3> QED BY <1>6, <2>5, <3>2, <3>3
      <2> QED BY <2>6, <2>7
<1>10. sum'[d]["STAMP"] + sum'[d]["STAMP_REDEMPTION"] = WorthOf(OO)
          => (sum[d]["STAMP"] + sum[d]["STAMP_REDEMPTION"] = WorthOf(Outstanding(d)))'
       BY DEF OO, WorthOf
<1> HIDE DEF O, OO
<1> QED BY <1>7, <1>8, <1>9, <1>10, RowStep

-----------------------------------------------------------------------------
(* The stock and the rows.                                                 *)
Gone == [p \in Products |-> Price[p] * (InitialStock[p] - stock[p])]

LEMMA GoneSum ==
    ASSUME TypeOK
    PROVE  /\ SumFunction(Gone) = SumFunctionOnSet(Gone, Products)
           /\ Weighs(Gone, Products) /\ SumFunction(Gone) \in Int
<1>1. SumFunction(Gone) = SumFunctionOnSet(Gone, Products)
      BY DEF SumFunction, Gone
<1>2. ASSUME NEW p \in Products PROVE Gone[p] \in Int
      <2>1. Price[p] \in Int /\ InitialStock[p] - stock[p] \in Int
            BY DEF TypeOK
      <2>2. Price[p] * (InitialStock[p] - stock[p]) \in Int
            BY <2>1
      <2> QED BY <2>2 DEF Gone
<1>3. Weighs(Gone, Products)
      BY <1>2 DEF Weighs
<1>4. SumFunctionOnSet(Gone, Products) \in Int
      BY <1>3, FiniteAssumption, SumInt
<1> QED BY <1>1, <1>3, <1>4

LEMMA Distributes ==
    ASSUME NEW a \in Int, NEW b \in Int, NEW c \in Int, NEW d \in Int
    PROVE  a * (b - (c - d)) = a * (b - c) + a * d /\ a * (b - c) \in Int /\ a * d \in Int
OBVIOUS

LEMMA GoodsTrailInit == Init => GoodsTrail
<1> SUFFICES ASSUME Init PROVE GoodsTrail
    OBVIOUS
<1>0. TypeOK
      BY InitInv DEF IInv
<1>1. \A p \in Products : Gone[p] = 0
      <2> SUFFICES ASSUME NEW p \in Products PROVE Gone[p] = 0
          OBVIOUS
      <2>1. stock[p] = InitialStock[p] /\ InitialStock[p] \in Int /\ Price[p] \in Int
            BY DEF Init
      <2>2. Price[p] * (InitialStock[p] - stock[p]) = 0
            BY <2>1
      <2> QED BY <2>2 DEF Gone
<1>2. SumFunction(Gone) = 0
      BY <1>0, <1>1, GoneSum, FiniteAssumption, SumZero
<1>3. \A d \in Drivers : Column("GOODS_EXCHANGE")[d] = 0
      BY DEF Init, Column, Types
<1>4. SumFunction(Column("GOODS_EXCHANGE")) = 0
      <2>1. "GOODS_EXCHANGE" \in Types
            BY DEF Types
      <2> QED BY <1>0, <1>3, <2>1, ColumnSum, FiniteAssumption, SumZero
<1>5. \A p \in Products : stock[p] >= 0
      BY <1>0 DEF TypeOK
<1>6. SumFunction(Gone) = - SumFunction(Column("GOODS_EXCHANGE"))
      <2> HIDE DEF Gone, Column
      <2> QED BY <1>2, <1>4
<1> QED BY <1>5, <1>6 DEF GoodsTrail, Gone, Column

LEMMA GoodsNext == IInv /\ GoodsTrail /\ [Next]_vars => GoodsTrail'
<1> SUFFICES ASSUME IInv, GoodsTrail, [Next]_vars PROVE GoodsTrail'
    OBVIOUS
<1> DEFINE G == "GOODS_EXCHANGE"
<1>0. TypeOK /\ TypeOK' /\ G \in Types
      BY TypeNext DEF IInv, Types
<1>1. SumFunction(Gone) = - SumFunction(Column(G)) /\ SumFunction(Gone) \in Int /\ SumFunction(Column(G)) \in Int
      BY <1>0, GoneSum, ColumnSum DEF GoodsTrail, Gone, Column
<1>2. \A p \in Products : stock'[p] >= 0
      BY <1>0 DEF TypeOK
<1>3. ASSUME SumFunction(Gone)' = - SumFunction(Column(G))' PROVE GoodsTrail'
      BY <1>2, <1>3 DEF GoodsTrail, Gone, Column
<1>4. ASSUME stock' = stock, Same(G) PROVE GoodsTrail'
      <2>1. Gone' = Gone /\ Column(G)' = Column(G)
            BY <1>4, ColumnStays DEF Gone
      <2> HIDE DEF Gone, Column, G
      <2>2. SumFunction(Gone)' = - SumFunction(Column(G))'
            BY <1>1, <2>1
      <2> QED BY <1>3, <2>2
<1>5. CASE sum' = sum /\ UNCHANGED <<issued, redeemed, redemptions, stock>>
      BY <1>4, <1>5 DEF Same
<1>6. ASSUME NEW s \in Stamps, IssueStamp(s) PROVE GoodsTrail'
      <2>1. Same(G)
            BY <1>0, <1>6, IssueRow DEF Moved, Same
      <2> QED BY <1>4, <1>6, <2>1 DEF IssueStamp
<1>7. ASSUME NEW q \in Requests, Commit(q), job[q].kind # "goods" PROVE GoodsTrail'
      <2>1. RowType(job[q]) # G
            BY <1>7 DEF RowType
      <2>2. Same(G)
            BY <1>0, <1>7, <2>1, CommitRow DEF Moved, Same
      <2> QED BY <1>4, <1>7, <2>2 DEF Commit
<1>8. ASSUME NEW q \in Requests, Commit(q), job[q].kind = "goods" PROVE GoodsTrail'
      <2> DEFINE p == job[q].product
                 a == job[q].amount
      <2>1. /\ step[q] = "commit" /\ job[q] \in Jobs
            /\ stock' = [stock EXCEPT ![p] = @ - a]
            BY <1>8 DEF Commit, IInv, JobsSound, JobSound
      <2>2. p \in Products /\ a \in Int
            BY <2>1 DEF Jobs
      <2>3. Price[p] \in Int /\ InitialStock[p] \in Int /\ stock[p] \in Int /\ Price[p] * a \in Int
            BY <1>0, <2>2 DEF TypeOK
      <2>4. RowType(job[q]) = G /\ RowAmount(q) = - (Price[p] * a)
            BY <1>8 DEF RowType, RowAmount
      <2>5. SumFunction(Column(G)') = SumFunction(Column(G)) - Price[p] * a
            <3>1. /\ job[q].driver \in Drivers /\ RowAmount(q) \in Int
                  /\ Moved(job[q].driver, G, RowAmount(q))
                  BY <1>8, <2>4, CommitRow
            <3> HIDE DEF G, p, a, Column, RowAmount
            <3>2. SumFunction(Column(G)') = SumFunction(Column(G)) + RowAmount(q)
                  BY <1>0, <3>1, ColumnMoves
            <3> QED BY <1>1, <2>3, <2>4, <3>2
      <2>6. SumFunction(Gone') = SumFunction(Gone) + Price[p] * a
            <3> HIDE DEF p, a
            <3>1. stock'[p] = stock[p] - a /\ \A x \in Products \ {p} : stock'[x] = stock[x]
                  BY <1>0, <2>1, <2>2 DEF TypeOK
            <3>2. Gone'[p] = Gone[p] + Price[p] * a /\ Gone[p] \in Int /\ Gone'[p] \in Int
                  <4>1. /\ Gone'[p] = Price[p] * (InitialStock[p] - stock'[p])
                        /\ Gone[p] = Price[p] * (InitialStock[p] - stock[p])
                        BY <2>2 DEF Gone
                  <4>2. Gone'[p] = Price[p] * (InitialStock[p] - (stock[p] - a))
                        BY <3>1, <4>1
                  <4>3. a \in Int /\ InitialStock[p] \in Int /\ stock[p] \in Int /\ Price[p] \in Int
                        BY <2>2, <2>3
                  <4>4. /\ Price[p] * (InitialStock[p] - (stock[p] - a))
                             = Price[p] * (InitialStock[p] - stock[p]) + Price[p] * a
                        /\ Price[p] * (InitialStock[p] - stock[p]) \in Int
                        BY <4>3, Distributes
                  <4>5. Gone[p] \in Int /\ Gone'[p] = Gone[p] + Price[p] * a
                        BY <4>1, <4>2, <4>4
                  <4> HIDE DEF Gone
                  <4> QED BY <2>3, <4>5
            <3>3. \A x \in Products \ {p} : Gone[x] = Gone'[x]
                  BY <3>1 DEF Gone
            <3>4. /\ SumFunction(Gone) = SumFunctionOnSet(Gone, Products) /\ Weighs(Gone, Products)
                  /\ SumFunction(Gone') = SumFunctionOnSet(Gone', Products) /\ Weighs(Gone', Products)
                  <4>1. SumFunction(Gone') = SumFunctionOnSet(Gone', Products)
                        BY DEF SumFunction, Gone
                  <4>2. Weighs(Gone', Products)
                        <5>1. \A x \in Products : x # p => Gone'[x] = Gone[x]
                              BY <3>3
                        <5>2. \A x \in Products : Gone[x] \in Int
                              BY <1>0, GoneSum DEF Weighs
                        <5> HIDE DEF Gone
                        <5> QED BY <3>2, <5>1, <5>2 DEF Weighs
                  <4> QED BY <1>0, <4>1, <4>2, GoneSum
            <3> DEFINE w == Gone
                       v == Gone'
            <3>5. /\ w[p] \in Int /\ v[p] = w[p] + Price[p] * a /\ v[p] \in Int
                  /\ \A x \in Products \ {p} : w[x] = v[x]
                  /\ SumFunction(w) = SumFunctionOnSet(w, Products) /\ Weighs(w, Products)
                  /\ SumFunction(v) = SumFunctionOnSet(v, Products) /\ Weighs(v, Products)
                  /\ SumFunction(w) \in Int
                  BY <1>1, <3>2, <3>3, <3>4
            <3> HIDE DEF w, v
            <3>6. SumFunctionOnSet(v, Products) = SumFunctionOnSet(w, Products) + v[p] - w[p]
                  BY <2>2, <3>5, FiniteAssumption, SumChange
            <3>7. SumFunction(v) = SumFunction(w) + Price[p] * a
                  BY <2>3, <3>5, <3>6
            <3> QED BY <3>7 DEF w, v
      <2> HIDE DEF G, Gone, Column, p, a
      <2>7. SumFunction(Gone') = - SumFunction(Column(G)')
            BY <1>1, <2>3, <2>5, <2>6
      <2> QED BY <1>3, <2>7
<1> QED BY <1>5, <1>6, <1>7, <1>8, RowStep

(* The rows, the marks on the stamps and the stock tell one story.         *)
THEOREM BooksAgreeHolds == Spec => []BooksAgree
<1>1. Init => PointsMatchStamps
      <2> SUFFICES ASSUME Init, NEW d \in Drivers
                   PROVE  sum[d]["STAMP"] + sum[d]["STAMP_REDEMPTION"] = WorthOf(Outstanding(d))
          BY DEF PointsMatchStamps
      <2>1. Outstanding(d) = {} /\ sum[d]["STAMP"] = 0 /\ sum[d]["STAMP_REDEMPTION"] = 0
            BY DEF Init, Outstanding, Types
      <2> QED BY <2>1, SumEmpty DEF WorthOf
<1>2. Spec => []PointsMatchStamps
      BY <1>1, PointsNext, Invariance, PTL DEF Spec
<1>3. Spec => []GoodsTrail
      BY GoodsTrailInit, GoodsNext, Invariance, PTL DEF Spec
<1> QED BY <1>2, <1>3, PTL DEF BooksAgree

-----------------------------------------------------------------------------
(* The cash.  What left the drawers is what the rows say drivers were paid.*)
PaidFor == [i \in DOMAIN redemptions |->
               IF redemptions[i].pay = "CASH" THEN WorthOf(redemptions[i].stamps) ELSE 0]

LEMMA PaidForSum ==
    ASSUME TypeOK
    PROVE  /\ DOMAIN redemptions = 1 .. Len(redemptions) /\ Len(redemptions) \in Nat
           /\ IsFiniteSet(1 .. Len(redemptions))
           /\ \A i \in 1 .. Len(redemptions) : PaidFor[i] \in Int
           /\ CashRedeemed = SumFunctionOnSet(PaidFor, 1 .. Len(redemptions)) /\ CashRedeemed \in Int
<1>1. redemptions \in Seq(Redemptions)
      BY DEF TypeOK, Redemptions
<1>2. DOMAIN redemptions = 1 .. Len(redemptions) /\ Len(redemptions) \in Nat
      BY <1>1
<1>3. IsFiniteSet(1 .. Len(redemptions))
      BY <1>2, FS_Interval
<1>4. ASSUME NEW i \in 1 .. Len(redemptions) PROVE PaidFor[i] \in Int
      <2>1. redemptions[i] \in Redemptions
            BY <1>1, <1>2
      <2>2. redemptions[i].stamps \in SUBSET Stamps
            BY <2>1 DEF Redemptions
      <2>3. WorthOf(redemptions[i].stamps) \in Int
            BY <2>2, WorthSum
      <2>4. PaidFor[i] = IF redemptions[i].pay = "CASH" THEN WorthOf(redemptions[i].stamps) ELSE 0
            BY <1>2 DEF PaidFor
      <2> QED BY <2>3, <2>4
<1>5. CashRedeemed = SumFunctionOnSet(PaidFor, 1 .. Len(redemptions))
      <2>1. CashRedeemed = SumFunction(PaidFor)
            BY DEF CashRedeemed, PaidFor
      <2>2. DOMAIN PaidFor = 1 .. Len(redemptions)
            BY <1>2 DEF PaidFor
      <2> QED BY <2>1, <2>2 DEF SumFunction
<1>6. CashRedeemed \in Int
      <2>1. Weighs(PaidFor, 1 .. Len(redemptions))
            BY <1>4 DEF Weighs
      <2> QED BY <1>3, <1>5, <2>1, SumInt
<1> QED BY <1>2, <1>3, <1>4, <1>5, <1>6

(* A redemption row adds what it pays in cash.                             *)
LEMMA PaidForGrows ==
    ASSUME TypeOK, TypeOK', NEW q \in Requests, redemptions' = Append(redemptions, Redemption(q)),
           picked[q] \in SUBSET Stamps
    PROVE  /\ job[q].pay = "CASH" => CashRedeemed' = CashRedeemed + WorthOf(picked[q])
           /\ job[q].pay # "CASH" => CashRedeemed' = CashRedeemed
<1> DEFINE n == Len(redemptions)
           w == PaidFor
           v == PaidFor'
<1>1. redemptions \in Seq(Redemptions)
      BY DEF TypeOK, Redemptions
<1>2. /\ n \in Nat /\ Len(redemptions') = n + 1 /\ DOMAIN redemptions' = 1 .. n + 1
      /\ \A i \in 1 .. n : redemptions'[i] = redemptions[i]
      /\ redemptions'[n + 1] = Redemption(q)
      BY <1>1
<1>3. DOMAIN redemptions = 1 .. n /\ IsFiniteSet(1 .. n) /\ (\A i \in 1 .. n : w[i] \in Int)
      /\ CashRedeemed = SumFunctionOnSet(w, 1 .. n) /\ CashRedeemed \in Int
      BY PaidForSum
<1>4. 1 .. n + 1 = (1 .. n) \cup {n + 1} /\ n + 1 \notin 1 .. n
      <2> HIDE DEF n
      <2> QED BY <1>2
<1>5. \A i \in 1 .. n : v[i] = w[i]
      <2>1. \A i \in 1 .. n : i \in DOMAIN redemptions' /\ i \in DOMAIN redemptions
            BY <1>2, <1>3, <1>4
      <2>2. ASSUME NEW i \in 1 .. n PROVE v[i] = w[i]
            <3>1. v[i] = IF redemptions'[i].pay = "CASH" THEN WorthOf(redemptions'[i].stamps) ELSE 0
                  BY <2>1 DEF PaidFor, WorthOf
            <3>2. w[i] = IF redemptions[i].pay = "CASH" THEN WorthOf(redemptions[i].stamps) ELSE 0
                  BY <2>1 DEF PaidFor
            <3> HIDE DEF w, v
            <3> QED BY <1>2, <3>1, <3>2
      <2> QED BY <2>2
<1>6. v[n + 1] = IF job[q].pay = "CASH" THEN WorthOf(picked[q]) ELSE 0
      <2>1. n + 1 \in DOMAIN redemptions'
            BY <1>2, <1>4
      <2>2. v[n + 1] = IF redemptions'[n + 1].pay = "CASH" THEN WorthOf(redemptions'[n + 1].stamps) ELSE 0
            BY <2>1 DEF PaidFor, WorthOf
      <2>3. redemptions'[n + 1].pay = job[q].pay /\ redemptions'[n + 1].stamps = picked[q]
            BY <1>2 DEF Redemption
      <2> HIDE DEF v, n
      <2> QED BY <2>2, <2>3
<1>7. CashRedeemed' = SumFunctionOnSet(v, 1 .. n + 1)
      <2>1. CashRedeemed' = SumFunction(v)
            BY DEF CashRedeemed, PaidFor
      <2>2. DOMAIN v = 1 .. n + 1
            BY <1>2 DEF PaidFor
      <2> QED BY <2>1, <2>2 DEF SumFunction
<1>8. WorthOf(picked[q]) \in Int
      BY WorthSum
<1> HIDE DEF w, v, n
<1>9. Weighs(v, (1 .. n) \cup {n + 1})
      <2>1. v[n + 1] \in Int
            BY <1>6, <1>8
      <2> QED BY <1>3, <1>5, <2>1 DEF Weighs
<1>10. SumFunctionOnSet(v, (1 .. n) \cup {n + 1}) = SumFunctionOnSet(w, 1 .. n) + v[n + 1]
       <2> DEFINE I == 1 .. n
                  k == n + 1
       <2>1. IsFiniteSet(I) /\ k \notin I /\ Weighs(v, I \cup {k}) /\ \A i \in I : v[i] = w[i]
             BY <1>3, <1>4, <1>5, <1>9
       <2> HIDE DEF I, k
       <2>2. SumFunctionOnSet(v, I \cup {k}) = SumFunctionOnSet(w, I) + v[k]
             BY <2>1, SumGrow
       <2> QED BY <2>2 DEF I, k
<1>11. CashRedeemed' = CashRedeemed + v[n + 1]
       BY <1>3, <1>4, <1>7, <1>10
<1> QED BY <1>3, <1>6, <1>8, <1>11

LEMMA FloatInit == Init => Float!Init
<1> SUFFICES ASSUME Init PROVE Float!Init
    OBVIOUS
<1>0. TypeOK
      BY InitInv DEF IInv
<1>1. CashRedeemed = 0
      <2>1. Len(redemptions) = 0 /\ 1 .. 0 = {}
            BY DEF Init
      <2> QED BY <1>0, <2>1, PaidForSum, SumEmpty
<1>2. CashAdvanced = 0
      <2>1. \A d \in Drivers : Column("CASH_ADVANCE")[d] = 0
            BY DEF Init, Column, Types
      <2>2. "CASH_ADVANCE" \in Types
            BY DEF Types
      <2>3. SumFunction(Column("CASH_ADVANCE")) = 0
            BY <1>0, <2>1, <2>2, ColumnSum, FiniteAssumption, SumZero
      <2>4. CashAdvanced = - SumFunction(Column("CASH_ADVANCE"))
            BY DEF CashAdvanced, Column
      <2> HIDE DEF Column
      <2> QED BY <2>3, <2>4
<1>3. CashRedeemed + CashAdvanced = 0
      BY <1>1, <1>2
<1> QED BY <1>3 DEF Init, Float!Init

LEMMA FloatNext == IInv /\ [Next]_vars => [Float!Next]_Float!vars
<1> SUFFICES ASSUME IInv, [Next]_vars PROVE [Float!Next]_Float!vars
    OBVIOUS
<1> DEFINE A == "CASH_ADVANCE"
           Out == CashRedeemed + CashAdvanced
<1>0. TypeOK /\ TypeOK' /\ A \in Types
      BY TypeNext DEF IInv, Types
<1>1. CashAdvanced = - SumFunction(Column(A)) /\ CashAdvanced' = - SumFunction(Column(A)')
      BY DEF CashAdvanced, Column
<1>2. SumFunction(Column(A)) \in Int /\ CashRedeemed \in Int
      BY <1>0, ColumnSum, PaidForSum
<1>3. ASSUME Same(A) PROVE CashAdvanced' = CashAdvanced
      <2>1. Column(A)' = Column(A)
            BY <1>3, ColumnStays
      <2> HIDE DEF Column, A
      <2> QED BY <1>1, <2>1
<1>4. ASSUME redemptions' = redemptions PROVE CashRedeemed' = CashRedeemed
      BY <1>4 DEF CashRedeemed, WorthOf
<1>5. ASSUME Same(A), redemptions' = redemptions PROVE Out' = Out
      BY <1>3, <1>4, <1>5
<1>6. ASSUME UNCHANGED <<cash, deposited>>, Out' = Out PROVE UNCHANGED Float!vars
      BY <1>6 DEF Float!vars
<1>7. ASSUME UNCHANGED tables PROVE UNCHANGED Float!vars
      <2>1. Same(A) /\ UNCHANGED <<redemptions, cash, deposited>>
            BY <1>7 DEF Same, tables
      <2> QED BY <1>5, <1>6, <2>1
<1>8. CASE Environment
      <2>1. ASSUME NEW s \in Stamps, IssueStamp(s) PROVE UNCHANGED Float!vars
            <3>1. Same(A)
                  BY <1>0, <2>1, IssueRow DEF Moved, Same
            <3> QED BY <1>5, <1>6, <2>1, <3>1 DEF IssueStamp
      <2>2. ASSUME UNCHANGED <<sum, redemptions>> PROVE Out' = Out
            BY <1>5, <2>2 DEF Same
      <2>3. ASSUME NEW d, NEW s, SetStatus(d, s) \/ SoftDelete(d) PROVE UNCHANGED Float!vars
            BY <1>6, <2>2, <2>3 DEF SetStatus, SoftDelete
      <2>4. ASSUME NEW p, NEW b, SetProductActive(p, b) PROVE UNCHANGED Float!vars
            BY <1>6, <2>2, <2>4 DEF SetProductActive
      <2>5. ASSUME NEW o \in Operators, NEW a \in Amounts, DepositCash(o, a) PROVE Float!Next
            <3>1. Out' = Out /\ a \in SumsPaid
                  BY <2>2, <2>5 DEF DepositCash, SumsPaid
            <3>2. Float!Deposit(o, a)
                  BY <2>5, <3>1 DEF DepositCash, Float!Deposit
            <3> QED BY <3>1, <3>2 DEF Float!Next
      <2>6. ASSUME NEW o \in Operators, NEW p \in Operators, HandOverCash(o, p) PROVE Float!Next
            <3>1. Out' = Out
                  BY <2>2, <2>6 DEF HandOverCash
            <3>2. Float!HandOver(o, p)
                  BY <2>6, <3>1 DEF HandOverCash, Float!HandOver
            <3> QED BY <3>2 DEF Float!Next
      <2> QED BY <1>8, <2>1, <2>3, <2>4, <2>5, <2>6 DEF Environment
<1>9. ASSUME NEW q \in Requests, Commit(q) PROVE [Float!Next]_Float!vars
      <2>1. /\ step[q] = "commit" /\ job[q] \in Jobs /\ JobSound(job[q]) /\ CheckSound(q)
            /\ picked[q] \in SUBSET Stamps
            BY <1>9 DEF Commit, IInv, JobsSound, JobSound, ChecksSound, TypeOK
      <2>2. job[q].kind \in AllOperations /\ deposited' = deposited
            BY <1>9, <2>1 DEF Jobs, Commit
      <2>3. /\ job[q].driver \in Drivers /\ RowAmount(q) \in Int
            /\ Moved(job[q].driver, RowType(job[q]), RowAmount(q))
            BY <1>9, CommitRow
      <2>4. RowType(job[q]) # A => Same(A)
            BY <1>0, <2>3 DEF Moved, Same
      <2>5. CASE Paid(q)
            <3> DEFINE due == Due(q)
            <3>1. /\ due \in Nat /\ due > 0 /\ job[q].op \in Operators /\ due \in SumsPaid
                  BY <2>1, <2>5, DueNat
            <3>2. cash[job[q].op] >= due /\ cash' = [cash EXCEPT ![job[q].op] = @ - due]
                  BY <1>9, <2>1, <2>5 DEF Commit, CheckSound, Covered
            <3>3. Out' = Out + due
                  <4>1. CASE job[q].kind = "advance"
                        <5>1. RowType(job[q]) = A /\ RowAmount(q) = - due /\ redemptions' = redemptions
                              BY <1>9, <4>1 DEF RowType, RowAmount, Due, Commit
                        <5> HIDE DEF A, Column, RowAmount, due
                        <5>2. SumFunction(Column(A)') = SumFunction(Column(A)) + RowAmount(q)
                              BY <1>0, <2>3, <5>1, ColumnMoves
                        <5>3. CashAdvanced' = CashAdvanced + due
                              BY <1>1, <1>2, <3>1, <5>1, <5>2
                        <5>4. CashRedeemed' = CashRedeemed
                              BY <1>4, <5>1
                        <5>5. CashAdvanced \in Int
                              BY <1>1, <1>2
                        <5> QED BY <1>2, <3>1, <5>3, <5>4, <5>5
                  <4>2. CASE job[q].kind # "advance"
                        <5>1. job[q].kind \in Redeeming /\ job[q].pay = "CASH"
                              BY <2>2, <2>5, <4>2 DEF Paid, AllOperations, Redeeming
                        <5>2. RowType(job[q]) = "STAMP_REDEMPTION" /\ due = WorthOf(picked[q])
                              BY <4>2, <5>1 DEF RowType, Due, Redeeming
                        <5>3. redemptions' = Append(redemptions, Redemption(q))
                              BY <1>9, <5>2 DEF Commit, Redemption
                        <5>4. CashRedeemed' = CashRedeemed + WorthOf(picked[q])
                              BY <1>0, <2>1, <5>1, <5>3, PaidForGrows
                        <5>5. CashAdvanced' = CashAdvanced
                              BY <1>3, <2>4, <5>2
                        <5>6. CashAdvanced \in Int
                              <6> HIDE DEF A, Column
                              <6> QED BY <1>1, <1>2
                        <5> HIDE DEF due
                        <5>7. CashRedeemed' = CashRedeemed + due
                              BY <5>2, <5>4
                        <5> QED BY <1>2, <3>1, <5>5, <5>6, <5>7
                  <4> QED BY <4>1, <4>2
            <3> HIDE DEF due
            <3>4. Float!PayOut(job[q].op, due)
                  BY <2>2, <3>1, <3>2, <3>3 DEF Float!PayOut
            <3> QED BY <3>1, <3>4 DEF Float!Next
      <2>6. CASE ~ Paid(q)
            <3>1. cash' = cash /\ job[q].kind # "advance"
                  BY <1>9, <2>6 DEF Commit, Paid
            <3>2. Same(A)
                  BY <2>4, <3>1 DEF RowType
            <3>3. CashRedeemed' = CashRedeemed
                  <4>1. CASE job[q].kind \in Redeeming
                        <5>1. job[q].pay # "CASH" /\ RowType(job[q]) = "STAMP_REDEMPTION"
                              BY <2>6, <4>1 DEF Paid, RowType, Redeeming
                        <5>2. redemptions' = Append(redemptions, Redemption(q))
                              BY <1>9, <5>1 DEF Commit, Redemption
                        <5> QED BY <1>0, <2>1, <5>1, <5>2, PaidForGrows
                  <4>2. CASE job[q].kind \notin Redeeming
                        <5>1. RowType(job[q]) # "STAMP_REDEMPTION"
                              BY <2>2, <4>2 DEF RowType, AllOperations, Redeeming
                        <5>2. redemptions' = redemptions
                              BY <1>9, <5>1 DEF Commit
                        <5> QED BY <1>4, <5>2
                  <4> QED BY <4>1, <4>2
            <3>4. CashAdvanced' = CashAdvanced
                  BY <1>3, <3>2
            <3>5. Out' = Out
                  BY <3>3, <3>4
            <3> QED BY <1>6, <2>2, <3>1, <3>5
      <2> QED BY <2>5, <2>6
<1>10. ASSUME NEW q \in Requests, Acts(q), ~ Commit(q) PROVE UNCHANGED Float!vars
       BY <1>7, <1>10, OnlyCommitWrites
<1>11. UNCHANGED vars => UNCHANGED Float!vars
       BY <1>7 DEF vars
<1> QED BY <1>8, <1>9, <1>10, <1>11 DEF Next, Acts

(* The debits of the ledger are operations of the cash float: what leaves  *)
(* a drawer is what the row of that very step says a driver was paid.      *)
THEOREM Refinement == Spec => ImplementsCashFloat
BY FloatInit, FloatNext, Invariance, PTL DEF Spec, ImplementsCashFloat, Float!Spec
=============================================================================
