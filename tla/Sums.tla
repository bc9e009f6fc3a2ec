--------------------------------- MODULE Sums ---------------------------------
(***************************************************************************)
(* Lemmas about SumFunctionOnSet of module Functions.  It is a recursive   *)
(* function over the subsets of a set that takes out one chosen element    *)
(* after the other; here it is shown to exist over every finite set, and   *)
(* not to depend on the choices.  Each induction is an argument about a    *)
(* least counterexample (WFMin).                                           *)
(***************************************************************************)
EXTENDS FiniteSetTheorems, TLAPS

Pick(s) == CHOOSE x \in s : TRUE
IsSum(g, f, D) == g = [s \in D |-> IF s = {} THEN 0 ELSE f[Pick(s)] + g[s \ {Pick(s)}]]

LEMMA PickIsIn ==
  ASSUME NEW s, s # {}
  PROVE  Pick(s) \in s
  BY DEF Pick

(* A set of numbers that is not empty has a least one. *)
LEMMA LeastNat ==
  ASSUME NEW B \in SUBSET Nat, B # {}
  PROVE  \E n \in B : \A m \in B : ~(m < n)
  <1>1. PICK n \in B : \A m \in B : ~(<<m, n>> \in OpToRel(<, Nat))
    BY NatLessThanWellFounded, WFMin
  <1>2. \A m \in B : <<m, n>> \in Nat \X Nat /\ <<m, n>>[1] = m /\ <<m, n>>[2] = n
    OBVIOUS
  <1> QED
    BY <1>1, <1>2 DEF OpToRel

(* A set of finite sets that is not empty has a least one. *)
LEMMA LeastSet ==
  ASSUME NEW S, IsFiniteSet(S), NEW B \in SUBSET SUBSET S, B # {}
  PROVE  \E s \in B : \A t \in B : t \subseteq s => t = s
  <1>1. B \subseteq FiniteSubsetsOf(S)
    BY FS_FiniteSubsetsOfFinite
  <1>2. PICK s \in B : \A t \in B : ~(<<t, s>> \in StrictSubsetOrdering(S))
    BY <1>1, FS_StrictSubsetOrderingWellFounded, WFMin
  <1> QED
    BY <1>2 DEF StrictSubsetOrdering

LEMMA SumExists ==
  ASSUME NEW f, NEW S, IsFiniteSet(S)
  PROVE  \E g : IsSum(g, f, SUBSET S)
  <1> DEFINE Upto(n) == {s \in SUBSET S : Cardinality(s) =< n}
             B == {n \in Nat : ~\E g : IsSum(g, f, Upto(n))}
  <1>1. \A s \in SUBSET S : IsFiniteSet(s) /\ Cardinality(s) \in Nat /\ Cardinality(s) =< Cardinality(S)
    BY FS_Subset, FS_CardinalityType
  <1>2. ASSUME B # {} PROVE FALSE
    <2>1. PICK n \in B : \A m \in B : ~(m < n)
      BY <1>2, LeastNat
    <2>2. CASE n = 0
      <3>1. \A s \in Upto(0) : s = {}
        BY <1>1, FS_EmptySet
      <3>2. [s \in Upto(0) |-> 0] = [s \in Upto(0) |-> IF s = {} THEN 0 ELSE
               f[Pick(s)] + [u \in Upto(0) |-> 0][s \ {Pick(s)}]]
        BY <3>1
      <3>3. IsSum([s \in Upto(0) |-> 0], f, Upto(0))
        BY <3>2 DEF IsSum
      <3> QED
        BY <2>1, <2>2, <3>3
    <2>3. CASE n # 0
      <3>1. n - 1 \in Nat /\ n - 1 \notin B
        <4>1. n \in Nat /\ n - 1 \in Nat /\ n - 1 < n
          BY <2>1, <2>3
        <4> HIDE DEF B
        <4> QED
          BY <2>1, <4>1
      <3>2. PICK g : IsSum(g, f, Upto(n - 1))
        BY <3>1
      <3> DEFINE h == [s \in Upto(n) |-> IF s = {} THEN 0 ELSE f[Pick(s)] + g[s \ {Pick(s)}]]
      <3>3. ASSUME NEW s \in Upto(n), s # {}
            PROVE  h[s \ {Pick(s)}] = g[s \ {Pick(s)}]
        <4>1. Pick(s) \in s
          BY <3>3, PickIsIn
        <4>2. Cardinality(s \ {Pick(s)}) = Cardinality(s) - 1
          BY <1>1, <4>1, FS_RemoveElement
        <4>3. PICK t : t = s \ {Pick(s)}
          OBVIOUS
        <4>4. t \in Upto(n - 1) /\ t \in Upto(n)
          BY <1>1, <2>1, <4>2, <4>3
        <4>5. h[t] = IF t = {} THEN 0 ELSE f[Pick(t)] + g[t \ {Pick(t)}]
          BY <4>4
        <4>6. g[t] = IF t = {} THEN 0 ELSE f[Pick(t)] + g[t \ {Pick(t)}]
          <5> HIDE DEF Upto
          <5> QED BY <3>2, <4>4 DEF IsSum
        <4> QED
          BY <4>3, <4>5, <4>6
      <3>4. h = [s \in Upto(n) |-> IF s = {} THEN 0 ELSE f[Pick(s)] + h[s \ {Pick(s)}]]
        BY <3>3
      <3>5. IsSum(h, f, Upto(n))
        BY <3>4 DEF IsSum
      <3> QED
        BY <2>1, <3>5
    <2> QED
      BY <2>2, <2>3
  <1>3. Cardinality(S) \in Nat /\ Upto(Cardinality(S)) = SUBSET S
    BY <1>1
  <1> QED
    BY <1>2, <1>3

LEMMA SumIs ==
  ASSUME NEW f, NEW S, IsFiniteSet(S)
  PROVE  \E g : IsSum(g, f, SUBSET S) /\ SumFunctionOnSet(f, S) = g[S]
  <1> DEFINE g == CHOOSE g : g = [s \in SUBSET S |-> IF s = {} THEN 0
                                    ELSE f[CHOOSE x \in s : TRUE] + g[s \ {CHOOSE x \in s : TRUE}]]
  <1>1. SumFunctionOnSet(f, S) = g[S]
    BY DEF SumFunctionOnSet, FoldFunctionOnSet, MapThenFoldSet
  <1>2. IsSum(g, f, SUBSET S)
    <2>1. \E h : h = [s \in SUBSET S |-> IF s = {} THEN 0
                        ELSE f[CHOOSE x \in s : TRUE] + h[s \ {CHOOSE x \in s : TRUE}]]
      <3>1. PICK h : IsSum(h, f, SUBSET S)
        BY SumExists
      <3>2. h = [s \in SUBSET S |-> IF s = {} THEN 0
                   ELSE f[CHOOSE x \in s : TRUE] + h[s \ {CHOOSE x \in s : TRUE}]]
        BY <3>1 DEF IsSum, Pick
      <3> QED
        BY <3>2
    <2>2. g = [s \in SUBSET S |-> IF s = {} THEN 0
                 ELSE f[CHOOSE x \in s : TRUE] + g[s \ {CHOOSE x \in s : TRUE}]]
      BY <2>1, Zenon
    <2> HIDE DEF g
    <2> QED
      BY <2>2, Zenon DEF IsSum, Pick
  <1> QED
    BY <1>1, <1>2

(* Over the same elements, sums of the same values are the same. *)
LEMMA SumsAgree ==
  ASSUME NEW f, NEW e, NEW S, NEW T, IsFiniteSet(S), NEW a, NEW b,
         IsSum(a, f, SUBSET S), IsSum(b, e, SUBSET T), NEW U, U \subseteq S, U \subseteq T,
         \A x \in U : f[x] = e[x]
  PROVE  a[U] = b[U]
  <1> DEFINE B == {s \in SUBSET U : a[s] # b[s]}
  <1>1. ASSUME B # {} PROVE FALSE
    <2>1. IsFiniteSet(U)
      BY FS_Subset
    <2>2. PICK s \in B : \A t \in B : t \subseteq s => t = s
      <3>1. B \in SUBSET SUBSET U
        OBVIOUS
      <3> HIDE DEF B
      <3> QED
        BY <1>1, <2>1, <3>1, LeastSet
    <2>3. s \in SUBSET S /\ s \in SUBSET T
      BY <2>2
    <2>4. a[s] = (IF s = {} THEN 0 ELSE f[Pick(s)] + a[s \ {Pick(s)}])
      BY <2>3 DEF IsSum
    <2>5. b[s] = (IF s = {} THEN 0 ELSE e[Pick(s)] + b[s \ {Pick(s)}])
      BY <2>3 DEF IsSum
    <2>6. s # {}
      BY <2>2, <2>4, <2>5
    <2>7. Pick(s) \in s
      BY <2>6, PickIsIn
    <2>8. s \ {Pick(s)} \notin B
      BY <2>2, <2>7
    <2>9. a[s \ {Pick(s)}] = b[s \ {Pick(s)}] /\ f[Pick(s)] = e[Pick(s)]
      BY <2>2, <2>7, <2>8
    <2> QED
      BY <2>2, <2>4, <2>5, <2>6, <2>9
  <1> QED
    BY <1>1

LEMMA SumCongruent ==
  ASSUME NEW f, NEW e, NEW S, IsFiniteSet(S), \A x \in S : f[x] = e[x]
  PROVE  SumFunctionOnSet(f, S) = SumFunctionOnSet(e, S)
  <1>1. PICK a : IsSum(a, f, SUBSET S) /\ SumFunctionOnSet(f, S) = a[S]
    BY SumIs
  <1>2. PICK b : IsSum(b, e, SUBSET S) /\ SumFunctionOnSet(e, S) = b[S]
    BY SumIs
  <1> QED
    BY <1>1, <1>2, SumsAgree

LEMMA SumEmpty ==
  ASSUME NEW f
  PROVE  SumFunctionOnSet(f, {}) = 0
  <1>1. PICK a : IsSum(a, f, SUBSET {}) /\ SumFunctionOnSet(f, {}) = a[{}]
    BY SumIs, FS_EmptySet
  <1> QED
    BY <1>1 DEF IsSum

LEMMA SumStep ==
  ASSUME NEW f, NEW S, IsFiniteSet(S), S # {}
  PROVE  SumFunctionOnSet(f, S) = f[Pick(S)] + SumFunctionOnSet(f, S \ {Pick(S)})
  <1>1. PICK a : IsSum(a, f, SUBSET S) /\ SumFunctionOnSet(f, S) = a[S]
    BY SumIs
  <1>2. PICK T : T = S \ {Pick(S)}
    OBVIOUS
  <1>3. T \subseteq S /\ IsFiniteSet(T)
    BY <1>2, FS_Subset
  <1>4. PICK b : IsSum(b, f, SUBSET T) /\ SumFunctionOnSet(f, T) = b[T]
    BY <1>3, SumIs
  <1>5. a[T] = b[T]
    BY <1>1, <1>3, <1>4, SumsAgree, SMTT(30)
  <1>6. a[S] = f[Pick(S)] + a[T]
    BY <1>1, <1>2 DEF IsSum
  <1> QED
    BY <1>1, <1>2, <1>4, <1>5, <1>6

(* Whichever element is taken out first. *)
LEMMA SumRemove ==
  ASSUME NEW f, NEW S, IsFiniteSet(S), \A x \in S : f[x] \in Int, NEW x \in S
  PROVE  /\ SumFunctionOnSet(f, S \ {x}) \in Int
         /\ SumFunctionOnSet(f, S) = f[x] + SumFunctionOnSet(f, S \ {x})
  <1> DEFINE Sum(T) == SumFunctionOnSet(f, T)
             Good(T) == /\ Sum(T) \in Int
                        /\ \A y \in T : Sum(T \ {y}) \in Int /\ Sum(T) = f[y] + Sum(T \ {y})
             B == {T \in SUBSET S : ~Good(T)}
  <1>1. ASSUME B # {} PROVE FALSE
    <2>1. PICK T \in B : \A U \in B : U \subseteq T => U = T
      <3>1. B \in SUBSET SUBSET S
        OBVIOUS
      <3> HIDE DEF B
      <3> QED
        BY <1>1, <3>1, LeastSet
    <2>2. T \subseteq S /\ ~Good(T) /\ IsFiniteSet(T)
      BY <2>1, FS_Subset
    <2>3. \A U \in SUBSET T : U # T => Good(U)
      BY <2>1
    <2>4. T # {}
      BY <2>2, SumEmpty
    <2>5. PICK p \in T : p = Pick(T)
      BY <2>4, PickIsIn
    <2>6. Sum(T) = f[p] + Sum(T \ {p})
      BY <2>2, <2>4, <2>5, SumStep
    <2> HIDE DEF Sum
    <2>7. f[p] \in Int /\ Sum(T \ {p}) \in Int /\ Sum(T) \in Int
      BY <2>2, <2>3, <2>5, <2>6
    <2>8. ASSUME NEW y \in T
          PROVE  Sum(T \ {y}) \in Int /\ Sum(T) = f[y] + Sum(T \ {y})
      <3>1. CASE y = p
        BY <2>6, <2>7, <3>1
      <3>2. CASE y # p
        <4>1. PICK P, Y, PY : P = T \ {p} /\ Y = T \ {y} /\ PY = T \ {p, y}
          OBVIOUS
        <4>2. PY = P \ {y} /\ PY = Y \ {p} /\ y \in P /\ p \in Y
          BY <3>2, <4>1
        <4>3. Good(P) /\ Good(Y)
          BY <2>3, <2>5, <2>8, <4>1
        <4>4. Sum(PY) \in Int /\ Sum(P) = f[y] + Sum(PY) /\ Sum(Y) = f[p] + Sum(PY) /\ Sum(Y) \in Int
          BY <4>2, <4>3
        <4>5. f[y] \in Int
          BY <2>2, <2>8
        <4>6. Sum(T) = f[p] + Sum(P)
          BY <2>6, <4>1
        <4>7. Sum(T) = f[y] + Sum(Y)
          BY <2>7, <4>4, <4>5, <4>6
        <4> QED
          BY <4>1, <4>4, <4>7
      <3> QED
        BY <3>1, <3>2
    <2> QED
      BY <2>2, <2>7, <2>8
  <1>2. Good(S)
    BY <1>1
  <1> QED
    BY <1>2

LEMMA SumType ==
  ASSUME NEW f, NEW S, IsFiniteSet(S), \A x \in S : f[x] \in Int
  PROVE  SumFunctionOnSet(f, S) \in Int
  <1>1. CASE S = {}
    BY <1>1, SumEmpty
  <1>2. ASSUME NEW x \in S
        PROVE  SumFunctionOnSet(f, S) \in Int
    <2>1. /\ SumFunctionOnSet(f, S \ {x}) \in Int
          /\ SumFunctionOnSet(f, S) = f[x] + SumFunctionOnSet(f, S \ {x})
      BY SumRemove
    <2> QED
      BY <2>1
  <1> QED
    BY <1>1, <1>2

LEMMA SumAdd ==
  ASSUME NEW f, NEW S, IsFiniteSet(S), NEW x, x \notin S, \A y \in S \cup {x} : f[y] \in Int
  PROVE  SumFunctionOnSet(f, S \cup {x}) = SumFunctionOnSet(f, S) + f[x]
  <1>1. PICK T : T = S \cup {x}
    OBVIOUS
  <1>2. IsFiniteSet(T) /\ x \in T /\ T \ {x} = S /\ \A y \in T : f[y] \in Int
    BY <1>1, FS_AddElement
  <1>3. /\ SumFunctionOnSet(f, T \ {x}) \in Int
        /\ SumFunctionOnSet(f, T) = f[x] + SumFunctionOnSet(f, T \ {x})
    BY <1>2, SumRemove
  <1>4. SumFunctionOnSet(f, S) \in Int /\ SumFunctionOnSet(f, T) = f[x] + SumFunctionOnSet(f, S)
    BY <1>2, <1>3
  <1>5. f[x] \in Int
    OBVIOUS
  <1>6. SumFunctionOnSet(f, T) = SumFunctionOnSet(f, S) + f[x]
    BY <1>4, <1>5
  <1> QED
    BY <1>1, <1>6

(* One value changes. *)
LEMMA SumChange ==
  ASSUME NEW f, NEW e, NEW S, IsFiniteSet(S), \A y \in S : f[y] \in Int /\ e[y] \in Int,
         NEW x \in S, \A y \in S \ {x} : e[y] = f[y]
  PROVE  SumFunctionOnSet(e, S) = SumFunctionOnSet(f, S) + (e[x] - f[x])
  <1>0. (\A y \in S : f[y] \in Int) /\ (\A y \in S : e[y] \in Int)
    OBVIOUS
  <1>1. IsFiniteSet(S \ {x})
    BY FS_Subset
  <1>2. PICK T : T = S \ {x}
    OBVIOUS
  <1>3. SumFunctionOnSet(f, T) = SumFunctionOnSet(e, T)
    BY <1>1, <1>2, SumCongruent
  <1>4. /\ SumFunctionOnSet(f, S \ {x}) \in Int
        /\ SumFunctionOnSet(f, S) = f[x] + SumFunctionOnSet(f, S \ {x})
    BY <1>0, SumRemove
  <1>5. SumFunctionOnSet(e, S) = e[x] + SumFunctionOnSet(e, S \ {x})
    BY <1>0, SumRemove
  <1>6. e[x] \in Int /\ f[x] \in Int
    OBVIOUS
  <1> QED
    BY <1>2, <1>3, <1>4, <1>5, <1>6

LEMMA SumPlus ==
  ASSUME NEW f, NEW e, NEW S, IsFiniteSet(S), \A x \in S : f[x] \in Int /\ e[x] \in Int,
         NEW g, \A x \in S : g[x] = f[x] + e[x]
  PROVE  SumFunctionOnSet(g, S) = SumFunctionOnSet(f, S) + SumFunctionOnSet(e, S)
  <1> DEFINE B == {T \in SUBSET S : SumFunctionOnSet(g, T) # SumFunctionOnSet(f, T) + SumFunctionOnSet(e, T)}
  <1>1. ASSUME B # {} PROVE FALSE
    <2>1. PICK T \in B : \A U \in B : U \subseteq T => U = T
      <3>1. B \in SUBSET SUBSET S
        OBVIOUS
      <3> HIDE DEF B
      <3> QED
        BY <1>1, <3>1, LeastSet
    <2>2. T \in SUBSET S /\ IsFiniteSet(T)
      BY <2>1, FS_Subset
    <2>3. CASE T = {}
      BY <2>1, <2>3, SumEmpty
    <2>4. ASSUME NEW x \in T
          PROVE  FALSE
      <3>1. PICK U : U = T \ {x}
        OBVIOUS
      <3>2. U \notin B /\ U \in SUBSET S
        BY <2>1, <2>2, <2>4, <3>1
      <3>3. SumFunctionOnSet(g, U) = SumFunctionOnSet(f, U) + SumFunctionOnSet(e, U)
        BY <3>2
      <3>4. /\ f[x] \in Int /\ e[x] \in Int /\ g[x] = f[x] + e[x]
            /\ \A y \in T : f[y] \in Int /\ e[y] \in Int /\ g[y] \in Int
        BY <2>2, <2>4
      <3>5. SumFunctionOnSet(f, T \ {x}) \in Int /\ SumFunctionOnSet(f, T) = f[x] + SumFunctionOnSet(f, T \ {x})
        BY <2>2, <2>4, <3>4, SumRemove
      <3>6. SumFunctionOnSet(e, T \ {x}) \in Int /\ SumFunctionOnSet(e, T) = e[x] + SumFunctionOnSet(e, T \ {x})
        BY <2>2, <2>4, <3>4, SumRemove
      <3>7. SumFunctionOnSet(g, T) = g[x] + SumFunctionOnSet(g, T \ {x})
        BY <2>2, <2>4, <3>4, SumRemove
      <3>8. SumFunctionOnSet(g, T) = SumFunctionOnSet(f, T) + SumFunctionOnSet(e, T)
        BY <3>1, <3>3, <3>4, <3>5, <3>6, <3>7
      <3> QED
        BY <2>1, <3>8
    <2> QED
      BY <2>3, <2>4
  <1>2. S \notin B
    BY <1>1
  <1> QED
    BY <1>2

LEMMA SumLessOrEqual ==
  ASSUME NEW f, NEW e, NEW S, IsFiniteSet(S), \A x \in S : f[x] \in Int /\ e[x] \in Int /\ f[x] =< e[x]
  PROVE  SumFunctionOnSet(f, S) =< SumFunctionOnSet(e, S)
  <1> DEFINE B == {T \in SUBSET S : ~(SumFunctionOnSet(f, T) =< SumFunctionOnSet(e, T))}
  <1>1. ASSUME B # {} PROVE FALSE
    <2>1. PICK T \in B : \A U \in B : U \subseteq T => U = T
      <3>1. B \in SUBSET SUBSET S
        OBVIOUS
      <3> HIDE DEF B
      <3> QED
        BY <1>1, <3>1, LeastSet
    <2>2. T \in SUBSET S /\ IsFiniteSet(T)
      BY <2>1, FS_Subset
    <2>3. CASE T = {}
      BY <2>1, <2>3, SumEmpty
    <2>4. ASSUME NEW x \in T
          PROVE  FALSE
      <3>1. PICK U : U = T \ {x}
        OBVIOUS
      <3>2. U \notin B /\ U \in SUBSET S
        BY <2>1, <2>2, <2>4, <3>1
      <3>3. SumFunctionOnSet(f, U) =< SumFunctionOnSet(e, U)
        BY <3>2
      <3>4. /\ f[x] \in Int /\ e[x] \in Int /\ f[x] =< e[x]
            /\ \A y \in T : f[y] \in Int /\ e[y] \in Int
        BY <2>2, <2>4
      <3>5. SumFunctionOnSet(f, T \ {x}) \in Int /\ SumFunctionOnSet(f, T) = f[x] + SumFunctionOnSet(f, T \ {x})
        BY <2>2, <2>4, <3>4, SumRemove
      <3>6. SumFunctionOnSet(e, T \ {x}) \in Int /\ SumFunctionOnSet(e, T) = e[x] + SumFunctionOnSet(e, T \ {x})
        BY <2>2, <2>4, <3>4, SumRemove
      <3>7. SumFunctionOnSet(f, T) =< SumFunctionOnSet(e, T)
        BY <3>1, <3>3, <3>4, <3>5, <3>6
      <3> QED
        BY <2>1, <3>7
    <2> QED
      BY <2>3, <2>4
  <1>2. S \notin B
    BY <1>1
  <1> QED
    BY <1>2

(* A sum of as many ones as there are elements. *)
LEMMA SumOnes ==
  ASSUME NEW f, NEW S, IsFiniteSet(S), \A x \in S : f[x] = 1
  PROVE  SumFunctionOnSet(f, S) = Cardinality(S)
  <1> DEFINE B == {T \in SUBSET S : SumFunctionOnSet(f, T) # Cardinality(T)}
  <1>1. ASSUME B # {} PROVE FALSE
    <2>1. PICK T \in B : \A U \in B : U \subseteq T => U = T
      <3>1. B \in SUBSET SUBSET S
        OBVIOUS
      <3> HIDE DEF B
      <3> QED
        BY <1>1, <3>1, LeastSet
    <2>2. T \in SUBSET S /\ IsFiniteSet(T)
      BY <2>1, FS_Subset
    <2>3. CASE T = {}
      BY <2>1, <2>3, SumEmpty, FS_EmptySet
    <2>4. ASSUME NEW x \in T
          PROVE  FALSE
      <3>1. PICK U : U = T \ {x}
        OBVIOUS
      <3>2. U \notin B /\ U \in SUBSET S
        BY <2>1, <2>2, <2>4, <3>1
      <3>3. SumFunctionOnSet(f, U) = Cardinality(U)
        BY <3>2
      <3>4. f[x] = 1 /\ \A y \in T : f[y] \in Int
        BY <2>2, <2>4
      <3>5. SumFunctionOnSet(f, T) = f[x] + SumFunctionOnSet(f, T \ {x})
        BY <2>2, <2>4, <3>4, SumRemove
      <3>6. Cardinality(T \ {x}) = Cardinality(T) - 1 /\ Cardinality(T) \in Nat
        BY <2>2, <2>4, FS_RemoveElement, FS_CardinalityType
      <3>7. SumFunctionOnSet(f, T) = Cardinality(T)
        BY <3>1, <3>3, <3>4, <3>5, <3>6
      <3> QED
        BY <2>1, <3>7
    <2> QED
      BY <2>3, <2>4
  <1>2. S \notin B
    BY <1>1
  <1> QED
    BY <1>2

(* Summing over a part is summing over the whole with nothing outside the part. *)
LEMMA SumMask ==
  ASSUME NEW f, NEW S, IsFiniteSet(S), NEW T, T \subseteq S, \A x \in T : f[x] \in Int,
         NEW m, \A x \in S : m[x] = IF x \in T THEN f[x] ELSE 0
  PROVE  SumFunctionOnSet(f, T) = SumFunctionOnSet(m, S)
  <1> DEFINE B == {U \in SUBSET S : SumFunctionOnSet(f, U \cap T) # SumFunctionOnSet(m, U)}
  <1>1. ASSUME B # {} PROVE FALSE
    <2>1. PICK U \in B : \A V \in B : V \subseteq U => V = U
      <3>1. B \in SUBSET SUBSET S
        OBVIOUS
      <3> HIDE DEF B
      <3> QED
        BY <1>1, <3>1, LeastSet
    <2>2. U \in SUBSET S /\ IsFiniteSet(U)
      BY <2>1, FS_Subset
    <2>3. CASE U = {}
      <3>1. U \cap T = {}
        BY <2>3
      <3> QED
        BY <2>1, <2>3, <3>1, SumEmpty
    <2>4. ASSUME NEW x \in U
          PROVE  FALSE
      <3>1. PICK V, VT, UT : V = U \ {x} /\ VT = V \cap T /\ UT = U \cap T
        OBVIOUS
      <3>2. V \notin B /\ V \in SUBSET S
        BY <2>1, <2>2, <2>4, <3>1
      <3>3. SumFunctionOnSet(f, VT) = SumFunctionOnSet(m, V)
        BY <3>1, <3>2
      <3>4. \A y \in U : m[y] \in Int
        BY <2>2
      <3>5. SumFunctionOnSet(m, U \ {x}) \in Int /\ SumFunctionOnSet(m, U) = m[x] + SumFunctionOnSet(m, U \ {x})
        BY <2>2, <2>4, <3>4, SumRemove
      <3>6. SumFunctionOnSet(m, V) \in Int /\ SumFunctionOnSet(m, U) = m[x] + SumFunctionOnSet(m, V)
        BY <3>1, <3>5
      <3>7. CASE x \in T
        <4>1. IsFiniteSet(UT) /\ x \in UT /\ VT = UT \ {x} /\ \A y \in UT : f[y] \in Int
          BY <2>2, <2>4, <3>1, <3>7, FS_Subset
        <4>2. SumFunctionOnSet(f, UT) = f[x] + SumFunctionOnSet(f, UT \ {x})
          BY <4>1, SumRemove
        <4>3. m[x] = f[x]
          BY <2>2, <2>4, <3>7
        <4>4. SumFunctionOnSet(f, UT) = SumFunctionOnSet(m, U)
          BY <3>3, <3>6, <4>1, <4>2, <4>3
        <4> QED
          BY <2>1, <3>1, <4>4
      <3>8. CASE x \notin T
        <4>1. UT = VT /\ m[x] = 0
          BY <2>2, <2>4, <3>1, <3>8
        <4>2. SumFunctionOnSet(f, UT) = SumFunctionOnSet(m, U)
          BY <3>3, <3>6, <4>1
        <4> QED
          BY <2>1, <3>1, <4>2
      <3> QED
        BY <3>7, <3>8
    <2> QED
      BY <2>3, <2>4
  <1>2. S \notin B
    BY <1>1
  <1>3. PICK R : R = S \cap T
    OBVIOUS
  <1>4. R = T
    BY <1>3
  <1> QED
    BY <1>2, <1>3, <1>4

(* Nothing adds up to nothing. *)
LEMMA SumOfZeros ==
  ASSUME NEW S, IsFiniteSet(S), NEW f, \A x \in S : f[x] = 0
  PROVE  SumFunctionOnSet(f, S) = 0
  <1>1. PICK T : T = {}
    OBVIOUS
  <1>2. T \subseteq S /\ \A x \in T : f[x] \in Int
    BY <1>1
  <1>3. \A x \in S : f[x] = IF x \in T THEN f[x] ELSE 0
    BY <1>1
  <1>4. SumFunctionOnSet(f, T) = SumFunctionOnSet(f, S)
    BY <1>2, <1>3, SumMask
  <1> QED
    BY <1>1, <1>4, SumEmpty

(* A part of a sum of natural numbers is no more than the whole. *)
LEMMA SumOfPart ==
  ASSUME NEW f, NEW S, IsFiniteSet(S), NEW T, T \subseteq S, \A x \in S : f[x] \in Nat
  PROVE  /\ SumFunctionOnSet(f, S) \in Nat /\ SumFunctionOnSet(f, T) \in Nat
         /\ SumFunctionOnSet(f, T) =< SumFunctionOnSet(f, S)
  <1>1. ASSUME NEW U, NEW V, U \subseteq V, V \subseteq S
        PROVE  SumFunctionOnSet(f, U) =< SumFunctionOnSet(f, V)
    <2>1. PICK m : m = [x \in V |-> IF x \in U THEN f[x] ELSE 0]
      OBVIOUS
    <2>2. IsFiniteSet(V) /\ (\A x \in U : f[x] \in Int) /\ (\A x \in V : m[x] = IF x \in U THEN f[x] ELSE 0)
      BY <1>1, <2>1, FS_Subset
    <2>3. SumFunctionOnSet(f, U) = SumFunctionOnSet(m, V)
      BY <1>1, <2>2, SumMask
    <2>4. \A x \in V : m[x] \in Int /\ f[x] \in Int /\ m[x] =< f[x]
      BY <1>1, <2>1
    <2>5. SumFunctionOnSet(m, V) =< SumFunctionOnSet(f, V)
      BY <2>2, <2>4, SumLessOrEqual
    <2> QED
      BY <2>3, <2>5
  <1>2. IsFiniteSet(T) /\ \A x \in T : f[x] \in Int
    BY FS_Subset
  <1>3. SumFunctionOnSet(f, S) \in Int /\ SumFunctionOnSet(f, T) \in Int
    BY <1>2, SumType
  <1>4. SumFunctionOnSet(f, {}) = 0
    BY SumEmpty
  <1>5. SumFunctionOnSet(f, {}) =< SumFunctionOnSet(f, T) /\ SumFunctionOnSet(f, T) =< SumFunctionOnSet(f, S)
    BY <1>1
  <1> QED
    BY <1>3, <1>4, <1>5

(* One element changes its value, comes in or goes out. *)
LEMMA SumMove ==
  ASSUME NEW f, NEW e, NEW S, IsFiniteSet(S), \A y \in S : f[y] \in Int /\ e[y] \in Int,
         NEW x \in S, \A y \in S \ {x} : e[y] = f[y],
         NEW T, NEW V, T \subseteq S, V \subseteq S, T \ {x} = V \ {x}
  PROVE  /\ SumFunctionOnSet(f, T) \in Int
         /\ SumFunctionOnSet(e, V) = SumFunctionOnSet(f, T)
              + ((IF x \in V THEN e[x] ELSE 0) - (IF x \in T THEN f[x] ELSE 0))
  <1>1. PICK m, n : /\ m = [y \in S |-> IF y \in T THEN f[y] ELSE 0]
                    /\ n = [y \in S |-> IF y \in V THEN e[y] ELSE 0]
    OBVIOUS
  <1>2. SumFunctionOnSet(f, T) = SumFunctionOnSet(m, S)
    <2>1. (\A y \in T : f[y] \in Int) /\ \A y \in S : m[y] = IF y \in T THEN f[y] ELSE 0
      BY <1>1
    <2> QED
      BY <2>1, SumMask
  <1>3. SumFunctionOnSet(e, V) = SumFunctionOnSet(n, S)
    <2>1. (\A y \in V : e[y] \in Int) /\ \A y \in S : n[y] = IF y \in V THEN e[y] ELSE 0
      BY <1>1
    <2> QED
      BY <2>1, SumMask
  <1>4. \A y \in S : m[y] \in Int /\ n[y] \in Int
    BY <1>1
  <1>5. \A y \in S \ {x} : n[y] = m[y]
    <2>1. \A y \in S \ {x} : y \in T <=> y \in V
      OBVIOUS
    <2> QED
      BY <1>1, <2>1
  <1>6. SumFunctionOnSet(n, S) = SumFunctionOnSet(m, S) + (n[x] - m[x])
    BY <1>4, <1>5, SumChange
  <1>7. SumFunctionOnSet(m, S) \in Int
    BY <1>4, SumType
  <1>8. m[x] = (IF x \in T THEN f[x] ELSE 0) /\ n[x] = (IF x \in V THEN e[x] ELSE 0)
    BY <1>1
  <1> QED
    BY <1>2, <1>3, <1>6, <1>7, <1>8
=============================================================================
