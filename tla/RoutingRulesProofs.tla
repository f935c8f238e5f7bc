------------------------- MODULE RoutingRulesProofs -------------------------
(***************************************************************************)
(* Lemmas about the operators of RoutingRules: what sums of weights are,   *)
(* for any number of versions, and what each write of the router makes of  *)
(* the routes and subsets of a rule.                                       *)
(*                                                                         *)
(* A sum is a fold, a function that the library defines by recursion over  *)
(* the subsets of its domain.  That the function exists, and what it adds  *)
(* up to, is shown here from the least set for which it would be wrong.    *)
(***************************************************************************)
EXTENDS RoutingRules, FiniteSetTheorems, TLAPS

(***************************************************************************)
(* Among finite sets there is a smallest.                                  *)
(***************************************************************************)
LEMMA Smallest ==
  ASSUME NEW F, F # {}, \A s \in F : IsFiniteSet(s)
  PROVE  \E s \in F : \A t \in F : ~(Cardinality(t) < Cardinality(s))
<1> DEFINE K == {Cardinality(s) : s \in F}
<1>1. K \subseteq Nat /\ K # {}
  BY FS_CardinalityType
<1>2. PICK k \in K : \A j \in K : <<j, k>> \notin OpToRel(<, Nat)
  BY <1>1, WFMin, NatLessThanWellFounded
<1>3. \A j \in K : ~(j < k)
  BY <1>1, <1>2 DEF OpToRel
<1>4. QED
  BY <1>3

LEMMA SmallestNat ==
  ASSUME NEW K, K # {}, K \subseteq Nat
  PROVE  \E k \in K : \A j \in K : ~(j < k)
<1>1. PICK k \in K : \A j \in K : <<j, k>> \notin OpToRel(<, Nat)
  BY WFMin, NatLessThanWellFounded
<1>2. QED
  BY <1>1 DEF OpToRel

-----------------------------------------------------------------------------
(* The function a sum folds with.                                          *)

Pick(s) == CHOOSE x \in s : TRUE
Adds(f, g, s) == g[s] = IF s = {} THEN 0 ELSE f[Pick(s)] + g[s \ {Pick(s)}]
Sums(f, T, g) ==
  g = [s \in SUBSET T |-> IF s = {} THEN 0 ELSE f[Pick(s)] + g[s \ {Pick(s)}]]

LEMMA SumFolds ==
  ASSUME NEW f, NEW T
  PROVE  SumFunctionOnSet(f, T) = (CHOOSE g : Sums(f, T, g))[T]
  BY DEF SumFunctionOnSet, FoldFunctionOnSet, MapThenFoldSet, Sums, Pick

\* It exists on the subsets of any size.
Small(T, k) == {s \in SUBSET T : Cardinality(s) <= k}

LEMMA SumsUpTo ==
  ASSUME NEW f, NEW T, IsFiniteSet(T), NEW k \in Nat
  PROVE  \E g : DOMAIN g = Small(T, k) /\ \A s \in Small(T, k) : Adds(f, g, s)
<1> DEFINE Good(n, g) == DOMAIN g = Small(T, n) /\ \A s \in Small(T, n) : Adds(f, g, s)
           K == {n \in Nat : ~\E g : Good(n, g)}
<1>1. ASSUME K # {} PROVE FALSE
  <2>1. PICK n \in K : \A j \in K : ~(j < n)
    BY <1>1, SmallestNat
  <2>2. CASE n = 0
    <3> DEFINE g == [s \in Small(T, 0) |-> 0]
    <3>1. \A s \in Small(T, 0) : s = {}
      BY FS_EmptySet, FS_Subset, FS_CardinalityType DEF Small
    <3>2. Good(0, g)
      BY <3>1 DEF Adds
    <3>3. QED
      BY <2>1, <2>2, <3>2
  <2>3. CASE n # 0
    <3>1. n - 1 \in Nat /\ n - 1 \notin K
      BY <2>1, <2>3
    <3>2. PICK h : Good(n - 1, h)
      BY <3>1
    <3> DEFINE g == [s \in Small(T, n) |->
                       IF s = {} THEN 0 ELSE f[Pick(s)] + h[s \ {Pick(s)}]]
    <3>3. \A s \in Small(T, n - 1) : s \in Small(T, n) /\ g[s] = h[s]
      <4>1. \A s \in Small(T, n - 1) : s \in Small(T, n)
        BY FS_Subset, FS_CardinalityType, <3>1 DEF Small
      <4>2. QED
        BY <3>2, <4>1 DEF Adds
    <3>4. \A s \in Small(T, n) : s # {} => s \ {Pick(s)} \in Small(T, n - 1)
      <4>1. ASSUME NEW s \in Small(T, n), s # {} PROVE s \ {Pick(s)} \in Small(T, n - 1)
        <5>1. Pick(s) \in s
          BY <4>1 DEF Pick
        <5>2. IsFiniteSet(s) /\ Cardinality(s) \in Nat
          BY FS_Subset, FS_CardinalityType DEF Small
        <5>3. Cardinality(s \ {Pick(s)}) = Cardinality(s) - 1
          BY <5>1, <5>2, FS_RemoveElement
        <5>4. QED
          BY <5>2, <5>3 DEF Small
      <4>2. QED
        BY <4>1
    <3>5. Good(n, g)
      BY <3>3, <3>4 DEF Adds
    <3>6. QED
      BY <2>1, <3>5
  <2>4. QED
    BY <2>2, <2>3
<1>2. QED
  BY <1>1

LEMMA SumsExist ==
  ASSUME NEW f, NEW T, IsFiniteSet(T)
  PROVE  \E g : Sums(f, T, g)
<1>1. Cardinality(T) \in Nat
  BY FS_CardinalityType
<1>2. Small(T, Cardinality(T)) = SUBSET T
  BY FS_Subset DEF Small
<1>3. PICK g : DOMAIN g = SUBSET T /\ \A s \in SUBSET T : Adds(f, g, s)
  BY <1>1, <1>2, SumsUpTo
<1> DEFINE h == [s \in SUBSET T |-> g[s]]
<1>4. \A s \in SUBSET T : h[s] = IF s = {} THEN 0 ELSE f[Pick(s)] + h[s \ {Pick(s)}]
  BY <1>3 DEF Adds
<1>5. Sums(f, T, h)
  BY <1>4 DEF Sums
<1>6. QED
  BY <1>5

LEMMA SumsAdd ==
  ASSUME NEW f, NEW T, NEW g, Sums(f, T, g), NEW s \in SUBSET T
  PROVE  Adds(f, g, s)
  BY DEF Sums, Adds

\* ... and is the same one wherever two of them are defined.
LEMMA SumsAgree ==
  ASSUME NEW f, NEW T, NEW U, IsFiniteSet(T), NEW g, NEW h, Sums(f, T, g), Sums(f, U, h),
         NEW s \in SUBSET T, s \subseteq U
  PROVE  g[s] = h[s]
<1> DEFINE F == {t \in SUBSET (T \cap U) : g[t] # h[t]}
<1>1. ASSUME F # {} PROVE FALSE
  <2>1. \A t \in F : IsFiniteSet(t)
    BY FS_Subset
  <2>2. PICK t \in F : \A u \in F : ~(Cardinality(u) < Cardinality(t))
    BY <1>1, <2>1, Smallest
  <2>3. Adds(f, g, t) /\ Adds(f, h, t)
    BY SumsAdd
  <2>4. t # {}
    BY <2>3 DEF Adds
  <2>5. Pick(t) \in t
    BY <2>4 DEF Pick
  <2>6. Cardinality(t \ {Pick(t)}) < Cardinality(t)
    BY <2>1, <2>5, FS_RemoveElement, FS_CardinalityType
  <2>7. g[t \ {Pick(t)}] = h[t \ {Pick(t)}]
    BY <2>2, <2>6
  <2>8. QED
    BY <2>3, <2>4, <2>7 DEF Adds
<1>2. QED
  BY <1>1

LEMMA SumsValue ==
  ASSUME NEW f, NEW T, IsFiniteSet(T), NEW g, Sums(f, T, g), NEW s \in SUBSET T
  PROVE  SumFunctionOnSet(f, s) = g[s]
<1> DEFINE h == CHOOSE h : Sums(f, s, h)
<1>1. IsFiniteSet(s)
  BY FS_Subset
<1>2. Sums(f, s, h)
  BY <1>1, SumsExist
<1>3. SumFunctionOnSet(f, s) = h[s]
  BY SumFolds
<1> HIDE DEF h
<1>4. QED
  BY <1>2, <1>3, SumsAgree

(***************************************************************************)
(* A sum over no index is 0, over others a value and the sum of the rest.  *)
(***************************************************************************)
LEMMA SumEmpty ==
  ASSUME NEW f PROVE SumFunctionOnSet(f, {}) = 0
<1>1. PICK g : Sums(f, {}, g)
  BY SumsExist, FS_EmptySet
<1>2. SumFunctionOnSet(f, {}) = g[{}] /\ Adds(f, g, {})
  BY <1>1, SumsValue, SumsAdd, FS_EmptySet
<1>3. QED
  BY <1>2 DEF Adds

LEMMA SumPick ==
  ASSUME NEW f, NEW T, IsFiniteSet(T), T # {}
  PROVE  /\ Pick(T) \in T
         /\ SumFunctionOnSet(f, T) = f[Pick(T)] + SumFunctionOnSet(f, T \ {Pick(T)})
<1>1. PICK g : Sums(f, T, g)
  BY SumsExist
<1>2. /\ SumFunctionOnSet(f, T) = g[T]
      /\ SumFunctionOnSet(f, T \ {Pick(T)}) = g[T \ {Pick(T)}]
  BY <1>1, SumsValue
<1>3. Adds(f, g, T)
  BY <1>1, SumsAdd
<1>4. QED
  BY <1>2, <1>3 DEF Adds, Pick

LEMMA SumNat ==
  ASSUME NEW f, NEW T, IsFiniteSet(T), \A t \in T : f[t] \in Nat
  PROVE  SumFunctionOnSet(f, T) \in Nat
<1> DEFINE F == {t \in SUBSET T : SumFunctionOnSet(f, t) \notin Nat}
<1>1. ASSUME F # {} PROVE FALSE
  <2>1. \A t \in F : IsFiniteSet(t)
    BY FS_Subset
  <2>2. PICK t \in F : \A u \in F : ~(Cardinality(u) < Cardinality(t))
    BY <1>1, <2>1, Smallest
  <2>3. t # {}
    BY SumEmpty
  <2>4. /\ Pick(t) \in t
        /\ SumFunctionOnSet(f, t) = f[Pick(t)] + SumFunctionOnSet(f, t \ {Pick(t)})
    BY <2>1, <2>3, SumPick
  <2>5. Cardinality(t \ {Pick(t)}) < Cardinality(t)
    BY <2>1, <2>4, FS_RemoveElement, FS_CardinalityType
  <2>6. SumFunctionOnSet(f, t \ {Pick(t)}) \in Nat
    BY <2>2, <2>5
  <2>7. QED
    BY <2>4, <2>6
<1>2. QED
  BY <1>1

(***************************************************************************)
(* The order in which values are added does not matter: any index may be   *)
(* taken out first.                                                        *)
(***************************************************************************)
LEMMA SumTakeOut ==
  ASSUME NEW f, NEW T, IsFiniteSet(T), \A t \in T : f[t] \in Nat, NEW x \in T
  PROVE  SumFunctionOnSet(f, T) = f[x] + SumFunctionOnSet(f, T \ {x})
<1> DEFINE S(t) == SumFunctionOnSet(f, t)
           F == {t \in SUBSET T : \E y \in t : S(t) # f[y] + S(t \ {y})}
<1>0. \A t \in SUBSET T : S(t) \in Nat /\ IsFiniteSet(t)
  BY SumNat, FS_Subset
<1>1. ASSUME F # {} PROVE FALSE
  <2>1. PICK t \in F : \A u \in F : ~(Cardinality(u) < Cardinality(t))
    BY <1>0, <1>1, Smallest
  <2>2. PICK y \in t : S(t) # f[y] + S(t \ {y})
    BY <2>1
  <2> DEFINE p == Pick(t)
  <2>3. p \in t /\ S(t) = f[p] + S(t \ {p})
    BY <1>0, <2>2, SumPick
  <2>4. p # y
    BY <2>2, <2>3
  <2>5. \A z \in t : Cardinality(t \ {z}) < Cardinality(t)
    <3>1. IsFiniteSet(t)
      BY <1>0
    <3>2. TAKE z \in t
    <3>3. Cardinality(t \ {z}) = Cardinality(t) - 1 /\ Cardinality(t) \in Nat
      BY <3>1, FS_RemoveElement, FS_CardinalityType
    <3>4. QED
      BY <3>3
  <2>6. S(t \ {p}) = f[y] + S((t \ {p}) \ {y})
    BY <2>1, <2>3, <2>4, <2>5
  <2>7. S(t \ {y}) = f[p] + S((t \ {y}) \ {p})
    BY <2>1, <2>3, <2>4, <2>5
  <2>8. (t \ {p}) \ {y} = (t \ {y}) \ {p}
    OBVIOUS
  <2>9. f[y] \in Nat /\ f[p] \in Nat /\ S((t \ {p}) \ {y}) \in Nat
    BY <1>0, <2>3
  <2> HIDE DEF S, p
  <2>10. f[p] + (f[y] + S((t \ {p}) \ {y})) = f[y] + (f[p] + S((t \ {p}) \ {y}))
    BY <2>9
  <2>11. QED
    BY <2>2, <2>3, <2>6, <2>7, <2>8, <2>10
<1>2. QED
  BY <1>1

(***************************************************************************)
(* Sums of equal functions are equal; one common value adds up to its      *)
(* multiple.                                                               *)
(***************************************************************************)
LEMMA SumSame ==
  ASSUME NEW f, NEW h, NEW T, IsFiniteSet(T), \A t \in T : f[t] = h[t]
  PROVE  SumFunctionOnSet(f, T) = SumFunctionOnSet(h, T)
<1> DEFINE F == {t \in SUBSET T : SumFunctionOnSet(f, t) # SumFunctionOnSet(h, t)}
<1>1. ASSUME F # {} PROVE FALSE
  <2>1. \A t \in F : IsFiniteSet(t)
    BY FS_Subset
  <2>2. PICK t \in F : \A u \in F : ~(Cardinality(u) < Cardinality(t))
    BY <1>1, <2>1, Smallest
  <2>3. t # {}
    BY SumEmpty
  <2>4. /\ Pick(t) \in t
        /\ SumFunctionOnSet(f, t) = f[Pick(t)] + SumFunctionOnSet(f, t \ {Pick(t)})
        /\ SumFunctionOnSet(h, t) = h[Pick(t)] + SumFunctionOnSet(h, t \ {Pick(t)})
    BY <2>1, <2>3, SumPick
  <2>5. Cardinality(t \ {Pick(t)}) < Cardinality(t)
    BY <2>1, <2>4, FS_RemoveElement, FS_CardinalityType
  <2>6. SumFunctionOnSet(f, t \ {Pick(t)}) = SumFunctionOnSet(h, t \ {Pick(t)})
    BY <2>2, <2>5
  <2>7. QED
    BY <2>4, <2>6
<1>2. QED
  BY <1>1

LEMMA SumConstant ==
  ASSUME NEW f, NEW T, IsFiniteSet(T), NEW c \in Nat, \A t \in T : f[t] = c
  PROVE  SumFunctionOnSet(f, T) = c * Cardinality(T)
<1> DEFINE F == {t \in SUBSET T : SumFunctionOnSet(f, t) # c * Cardinality(t)}
<1>1. ASSUME F # {} PROVE FALSE
  <2>1. \A t \in F : IsFiniteSet(t)
    BY FS_Subset
  <2>2. PICK t \in F : \A u \in F : ~(Cardinality(u) < Cardinality(t))
    BY <1>1, <2>1, Smallest
  <2>3. t # {}
    BY SumEmpty, FS_EmptySet
  <2>4. /\ Pick(t) \in t
        /\ SumFunctionOnSet(f, t) = f[Pick(t)] + SumFunctionOnSet(f, t \ {Pick(t)})
    BY <2>1, <2>3, SumPick
  <2>5. /\ Cardinality(t \ {Pick(t)}) = Cardinality(t) - 1
        /\ Cardinality(t \ {Pick(t)}) \in Nat /\ Cardinality(t) \in Nat
    BY <2>1, <2>4, FS_RemoveElement, FS_CardinalityType
  <2>6. SumFunctionOnSet(f, t \ {Pick(t)}) = c * (Cardinality(t) - 1)
    BY <2>2, <2>5
  <2>7. \A n \in Nat : c + c * (n - 1) = c * n
    BY SMT
  <2>8. QED
    BY <2>4, <2>5, <2>6, <2>7
<1>2. QED
  BY <1>1

LEMMA ImageFinite ==
  ASSUME NEW S, IsFiniteSet(S), NEW b
  PROVE  IsFiniteSet({b[x] : x \in S})
<1> DEFINE g == [x \in S |-> b[x]]
           T == {b[x] : x \in S}
<1>1. g \in [S -> T] /\ \A t \in T : \E x \in S : g[x] = t
  OBVIOUS
<1>2. g \in Surjection(S, T)
  BY <1>1 DEF Surjection
<1>3. QED
  BY <1>2, FS_Surjection

(***************************************************************************)
(* Renaming the indices, each to one of its own, keeps the sum; so does    *)
(* leaving out indices without a value.                                    *)
(***************************************************************************)
LEMMA SumRename ==
  ASSUME NEW S, IsFiniteSet(S), NEW f, NEW h, NEW b,
         \A x \in S : f[x] \in Nat /\ f[x] = h[b[x]],
         \A x, y \in S : b[x] = b[y] => x = y
  PROVE  SumFunctionOnSet(f, S) = SumFunctionOnSet(h, {b[x] : x \in S})
<1> DEFINE Im(t) == {b[x] : x \in t}
           F == {t \in SUBSET S : SumFunctionOnSet(f, t) # SumFunctionOnSet(h, Im(t))}
<1>1. ASSUME F # {} PROVE FALSE
  <2>1. \A t \in F : IsFiniteSet(t)
    BY FS_Subset
  <2>2. PICK t \in F : \A u \in F : ~(Cardinality(u) < Cardinality(t))
    BY <1>1, <2>1, Smallest
  <2>3. t # {}
    BY SumEmpty
  <2> DEFINE p == Pick(t)
  <2>4. p \in t /\ SumFunctionOnSet(f, t) = f[p] + SumFunctionOnSet(f, t \ {p})
    BY <2>1, <2>3, SumPick
  <2> HIDE DEF p
  <2>5. Cardinality(t \ {p}) < Cardinality(t)
    <3>1. Cardinality(t \ {p}) = Cardinality(t) - 1 /\ Cardinality(t) \in Nat
      BY <2>1, <2>4, FS_RemoveElement, FS_CardinalityType
    <3>2. QED
      BY <3>1
  <2>6. SumFunctionOnSet(f, t \ {p}) = SumFunctionOnSet(h, Im(t \ {p}))
    BY <2>2, <2>4, <2>5
  <2>7. b[p] \in Im(t) /\ Im(t) \ {b[p]} = Im(t \ {p})
    BY <2>4
  <2>8. IsFiniteSet(Im(t)) /\ \A n \in Im(t) : h[n] \in Nat
    <3>1. IsFiniteSet(Im(t))
      <4>1. IsFiniteSet(t)
        BY <2>1
      <4> HIDE DEF F
      <4>2. QED
        BY <4>1, ImageFinite
    <3>2. \A n \in Im(t) : h[n] \in Nat
      OBVIOUS
    <3>3. QED
      BY <3>1, <3>2
  <2> HIDE DEF Im
  <2>9. SumFunctionOnSet(h, Im(t)) = h[b[p]] + SumFunctionOnSet(h, Im(t) \ {b[p]})
    BY <2>7, <2>8, SumTakeOut
  <2>10. SumFunctionOnSet(f, t) = SumFunctionOnSet(h, Im(t))
    BY <2>4, <2>6, <2>7, <2>9
  <2>11. QED
    BY <2>2, <2>10
<1>2. QED
  BY <1>1

LEMMA SumDropZeros ==
  ASSUME NEW f, NEW T, IsFiniteSet(T), \A t \in T : f[t] \in Nat
  PROVE  SumFunctionOnSet(f, T) = SumFunctionOnSet(f, {t \in T : f[t] > 0})
<1> DEFINE Pos(t) == {x \in t : f[x] > 0}
           F == {t \in SUBSET T : SumFunctionOnSet(f, t) # SumFunctionOnSet(f, Pos(t))}
<1>1. ASSUME F # {} PROVE FALSE
  <2>1. \A t \in F : IsFiniteSet(t)
    BY FS_Subset
  <2>2. PICK t \in F : \A u \in F : ~(Cardinality(u) < Cardinality(t))
    BY <1>1, <2>1, Smallest
  <2>3. t # {}
    BY SumEmpty
  <2> DEFINE p == Pick(t)
  <2>4. p \in t /\ SumFunctionOnSet(f, t) = f[p] + SumFunctionOnSet(f, t \ {p})
    BY <2>1, <2>3, SumPick
  <2> HIDE DEF p
  <2>5. Cardinality(t \ {p}) < Cardinality(t)
    <3>1. Cardinality(t \ {p}) = Cardinality(t) - 1 /\ Cardinality(t) \in Nat
      BY <2>1, <2>4, FS_RemoveElement, FS_CardinalityType
    <3>2. QED
      BY <3>1
  <2>6. SumFunctionOnSet(f, t \ {p}) = SumFunctionOnSet(f, Pos(t \ {p}))
    BY <2>2, <2>4, <2>5
  <2>7. IsFiniteSet(Pos(t)) /\ f[p] \in Nat /\ \A x \in Pos(t) : f[x] \in Nat
    BY <2>1, <2>4, FS_Subset
  <2>8. SumFunctionOnSet(f, t \ {p}) \in Nat
    BY <2>1, <2>4, SumNat, FS_Subset
  <2>9. CASE f[p] = 0
    <3>1. Pos(t \ {p}) = Pos(t)
      BY <2>4, <2>9
    <3>2. 0 + SumFunctionOnSet(f, t \ {p}) = SumFunctionOnSet(f, t \ {p})
      BY <2>8
    <3>3. SumFunctionOnSet(f, t) = SumFunctionOnSet(f, t \ {p})
      BY <2>4, <2>9, <3>2
    <3> HIDE DEF Pos
    <3>4. SumFunctionOnSet(f, t) = SumFunctionOnSet(f, Pos(t))
      BY <2>6, <3>1, <3>3
    <3>5. QED
      BY <2>2, <3>4 DEF Pos
  <2>10. CASE f[p] > 0
    <3>1. p \in Pos(t) /\ Pos(t) \ {p} = Pos(t \ {p})
      BY <2>4, <2>10
    <3> HIDE DEF Pos
    <3>2. SumFunctionOnSet(f, Pos(t)) = f[p] + SumFunctionOnSet(f, Pos(t) \ {p})
      BY <2>7, <3>1, SumTakeOut
    <3>3. SumFunctionOnSet(f, t) = SumFunctionOnSet(f, Pos(t))
      BY <2>4, <2>6, <3>1, <3>2
    <3>4. QED
      BY <2>2, <3>3 DEF Pos
  <2>11. QED
    BY <2>7, <2>9, <2>10
<1>2. QED
  BY <1>1

-----------------------------------------------------------------------------
(* Versions and their subsets.                                             *)

LEMMA SubsetsDiffer ==
  ASSUME NEW u \in Nat, NEW v \in Nat, Subset(u) = Subset(v)
  PROVE  u = v
  BY DEF Subset

LEMMA VersionsFinite ==
  ASSUME NEW spec, Len(spec.candidates) \in Nat
  PROVE  /\ IsFiniteSet(Versions(spec)) /\ Versions(spec) \subseteq Nat /\ 0 \in Versions(spec)
         /\ IsFiniteSet(Versions(spec) \ {0})
         /\ Cardinality(Versions(spec) \ {0}) = Len(spec.candidates)
<1> DEFINE n == Len(spec.candidates)
<1>1. /\ Versions(spec) = 0..n /\ Versions(spec) \subseteq Nat /\ 0 \in Versions(spec)
      /\ Versions(spec) \ {0} = 1..n
  BY DEF Versions
<1>2. IsFiniteSet(0..n) /\ IsFiniteSet(1..n) /\ Cardinality(1..n) = n
  BY FS_Interval
<1>3. QED
  BY <1>1, <1>2

\* The routes UpdateTrafficSplit writes.
Split(spec, weights) ==
  [n \in {Subset(v) : v \in Versions(spec)} |->
     weights[CHOOSE v \in Versions(spec) : Subset(v) = n]]

LEMMA SplitWeight ==
  ASSUME NEW spec, Len(spec.candidates) \in Nat, NEW weights, NEW v \in Versions(spec)
  PROVE  Split(spec, weights)[Subset(v)] = weights[v]
<1> DEFINE u == CHOOSE u \in Versions(spec) : Subset(u) = Subset(v)
<1>1. u \in Versions(spec) /\ Subset(u) = Subset(v)
  OBVIOUS
<1>2. u = v
  BY <1>1, VersionsFinite, SubsetsDiffer
<1>3. QED
  BY <1>2 DEF Split

(***************************************************************************)
(* A split adds up to what the weights add up to.                          *)
(***************************************************************************)
LEMMA SplitTotal ==
  ASSUME NEW spec, Len(spec.candidates) \in Nat, NEW weights,
         \A v \in Versions(spec) : weights[v] \in Nat
  PROVE  SumFunction(Split(spec, weights)) = SumFunctionOnSet(weights, Versions(spec))
<1> DEFINE b == [v \in Versions(spec) |-> Subset(v)]
           h == Split(spec, weights)
<1>1. \A v \in Versions(spec) : b[v] = Subset(v)
  OBVIOUS
<1>2. \A v \in Versions(spec) : weights[v] = h[b[v]]
  BY <1>1, SplitWeight
<1>3. \A u, v \in Versions(spec) : b[u] = b[v] => u = v
  BY <1>1, VersionsFinite, SubsetsDiffer
<1>4. DOMAIN h = {b[v] : v \in Versions(spec)}
  BY <1>1 DEF Split
<1> HIDE DEF b, h
<1>5. SumFunctionOnSet(weights, Versions(spec)) = SumFunctionOnSet(h, {b[v] : v \in Versions(spec)})
  <2>1. IsFiniteSet(Versions(spec))
    BY VersionsFinite
  <2>2. \A v \in Versions(spec) : weights[v] \in Nat /\ weights[v] = h[b[v]]
    BY <1>2
  <2> DEFINE S == Versions(spec)
  <2> HIDE DEF S
  <2>3. SumFunctionOnSet(weights, S) = SumFunctionOnSet(h, {b[v] : v \in S})
    BY <1>3, <2>1, <2>2, SumRename DEF S
  <2>4. QED
    BY <2>3 DEF S
<1>6. QED
  BY <1>4, <1>5 DEF SumFunction, h

LEMMA SumEven ==
  ASSUME NEW spec, Len(spec.candidates) \in Nat, NEW weights, weights[0] \in Nat,
         NEW c \in Nat, \A v \in Versions(spec) \ {0} : weights[v] = c
  PROVE  SumFunctionOnSet(weights, Versions(spec)) = weights[0] + c * Len(spec.candidates)
<1>1. \A v \in Versions(spec) : weights[v] \in Nat
  OBVIOUS
<1>2. SumFunctionOnSet(weights, Versions(spec))
        = weights[0] + SumFunctionOnSet(weights, Versions(spec) \ {0})
  BY <1>1, VersionsFinite, SumTakeOut
<1>3. SumFunctionOnSet(weights, Versions(spec) \ {0}) = c * Len(spec.candidates)
  BY VersionsFinite, SumConstant
<1>4. QED
  BY <1>2, <1>3

(***************************************************************************)
(* UpdateBaseline routes everything to the baseline.                       *)
(***************************************************************************)
LEMMA BaselineTotal ==
  ASSUME NEW spec, Len(spec.candidates) \in Nat, NEW r, NEW e
  PROVE  TotalWeight(BaselineVirtualService(r, e, spec)) = 100
<1> DEFINE f == [v \in Versions(spec) |-> IF v = 0 THEN 100 ELSE 0]
           routes == [n \in {Subset(v) : v \in Versions(spec)} |-> IF n = Subset(0) THEN 100 ELSE 0]
<1>1. f[0] = 100 /\ (\A v \in Versions(spec) \ {0} : f[v] = 0)
      /\ \A v \in Versions(spec) : f[v] \in Nat
  BY VersionsFinite
<1> HIDE DEF f
<1>2. SumFunctionOnSet(f, Versions(spec)) = 100
  BY <1>1, SumEven
<1>3. routes = Split(spec, f)
  <2>1. \A v \in Versions(spec) : routes[Subset(v)] = f[v]
    <3> TAKE v \in Versions(spec)
    <3>1. Subset(v) = Subset(0) => v = 0
      BY VersionsFinite, SubsetsDiffer
    <3>2. QED
      BY <3>1 DEF f
  <2>2. \A v \in Versions(spec) : routes[Subset(v)] = Split(spec, f)[Subset(v)]
    <3> HIDE DEF routes
    <3> QED
      BY <2>1, SplitWeight
  <2> DEFINE h == Split(spec, f)
  <2>3. DOMAIN h = {Subset(v) : v \in Versions(spec)} /\ h = [n \in DOMAIN h |-> h[n]]
    BY DEF Split
  <2> HIDE DEF h
  <2>4. \A n \in {Subset(v) : v \in Versions(spec)} : routes[n] = h[n]
    BY <2>2 DEF h
  <2>5. QED
    BY <2>3, <2>4 DEF h
<1>4. BaselineVirtualService(r, e, spec).routes = routes
  BY DEF BaselineVirtualService
<1>5. QED
  BY <1>1, <1>2, <1>3, <1>4, SplitTotal DEF TotalWeight
=============================================================================
