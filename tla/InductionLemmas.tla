--------------------------- MODULE InductionLemmas ---------------------------
(***************************************************************************)
(* Induction as a fact about sets.  The theorems of the library that state *)
(* it for a predicate cannot be used by the provers; that the numbers and  *)
(* the subsets of a finite set are well-founded can.  What follows from it *)
(* here is what the proofs about the models need: least and greatest       *)
(* numbers, induction over numbers and finite sets, and that the recursive *)
(* functions of the models and the folds of the library exist.             *)
(***************************************************************************)
EXTENDS FiniteSetsExt, FiniteSetTheorems, TLAPS

-----------------------------------------------------------------------------
(* Numbers.                                                                *)

\* Every set of natural numbers that is not empty has a least element.
LEMMA NatMin ==
  ASSUME NEW T \in SUBSET Nat, T # {}
  PROVE  Min(T) \in T /\ \A n \in T : Min(T) <= n
<1> DEFINE R == OpToRel(<, Nat)
<1>1. IsWellFoundedOn(R, Nat) BY NatLessThanWellFounded
<1>2. \A x, y \in Nat : x < y => << x, y >> \in R BY DEF OpToRel
<1> HIDE DEF R
<1>3. PICK m \in T : \A n \in T : ~ (<< n, m >> \in R) BY <1>1, WFMin
<1>4. ASSUME NEW n \in T, ~(m <= n) PROVE FALSE
  <2>1. n \in Nat /\ m \in Nat OBVIOUS
  <2>2. n < m BY <2>1, <1>4
  <2>3. << n, m >> \in R BY <2>1, <2>2, <1>2
  <2> QED BY <2>3, <1>3
<1>5. \E x \in T : \A n \in T : x <= n BY <1>4
<1> QED BY <1>5 DEF Min

\* And a greatest one, if it is bounded: the least of its upper bounds.
LEMMA NatMax ==
  ASSUME NEW T \in SUBSET Nat, T # {}, NEW b \in Nat, \A n \in T : n <= b
  PROVE  Max(T) \in T /\ \A n \in T : n <= Max(T)
<1> DEFINE Bounds == { m \in Nat : \A n \in T : n <= m }
<1>1. PICK m \in Bounds : \A n \in Bounds : m <= n
  <2>1. b \in Bounds OBVIOUS
  <2> QED BY <2>1, NatMin
<1>2. m \in T
  <2>1. SUFFICES ASSUME m \notin T PROVE FALSE OBVIOUS
  <2>2. \A n \in T : n <= m - 1 BY <2>1
  <2>3. m - 1 \in Nat
    <3>1. PICK n \in T : TRUE OBVIOUS
    <3>2. n \in Nat /\ n <= m - 1 BY <2>2
    <3> QED BY <3>2
  <2>4. m - 1 \in Bounds BY <2>2, <2>3
  <2> QED BY <1>1, <2>3, <2>4
<1>3. \E x \in T : \A n \in T : x >= n BY <1>2
<1> QED BY <1>3 DEF Max

LEMMA NatInduct ==
  ASSUME NEW P, 0 \in P, \A n \in Nat : n \in P => n + 1 \in P
  PROVE  Nat \subseteq P
<1> SUFFICES ASSUME Nat \ P # {} PROVE FALSE OBVIOUS
<1>1. PICK m \in Nat \ P : \A n \in Nat \ P : m <= n BY NatMin
<1>2. m - 1 \in Nat /\ m - 1 \in P BY <1>1
<1> QED BY <1>1, <1>2

\* The function f repeats a step N times, from a first value on.
Repeats(f, first, step, N) ==
  f[0] = first /\ \A n \in 1 .. N : f[n] = step[f[n - 1]]

\* There is one for every step and every first value.
LEMMA Iterate ==
  ASSUME NEW V, NEW first \in V, NEW step \in [V -> V], NEW N \in Nat
  PROVE  \E f \in [0 .. N -> V] : Repeats(f, first, step, N)
<1> DEFINE P == { n \in Nat : \E f \in [0 .. n -> V] : Repeats(f, first, step, n) }
<1>1. 0 \in P
  <2>1. [k \in 0 .. 0 |-> first] \in [0 .. 0 -> V] OBVIOUS
  <2>2. Repeats([k \in 0 .. 0 |-> first], first, step, 0) BY DEF Repeats
  <2> QED BY <2>1, <2>2
<1>2. ASSUME NEW n \in Nat, n \in P PROVE n + 1 \in P
  <2>1. PICK f \in [0 .. n -> V] : Repeats(f, first, step, n) BY <1>2
  <2> DEFINE g == [k \in 0 .. (n + 1) |-> IF k = n + 1 THEN step[f[n]] ELSE f[k]]
  <2>2. n \in 0 .. n /\ 0 \in 0 .. n OBVIOUS
  <2>3. g \in [0 .. (n + 1) -> V]
    <3>1. \A k \in 0 .. (n + 1) : (IF k = n + 1 THEN step[f[n]] ELSE f[k]) \in V
      BY <2>2
    <3> QED BY <3>1
  <2>4. \A k \in 0 .. n : g[k] = f[k] OBVIOUS
  <2>5. g[n + 1] = step[f[n]] OBVIOUS
  <2> HIDE DEF g
  <2>6. g[0] = first BY <2>1, <2>2, <2>4 DEF Repeats
  <2>7. \A k \in 1 .. (n + 1) : g[k] = step[g[k - 1]]
    <3> SUFFICES ASSUME NEW k \in 1 .. (n + 1) PROVE g[k] = step[g[k - 1]] OBVIOUS
    <3>1. k - 1 \in 0 .. n OBVIOUS
    <3>2. CASE k = n + 1 BY <2>4, <2>5, <3>1, <3>2
    <3>3. CASE k \in 1 .. n
      <4>1. f[k] = step[f[k - 1]] BY <2>1, <3>3 DEF Repeats
      <4> QED BY <2>4, <3>1, <3>3, <4>1
    <3> QED BY <3>2, <3>3
  <2>8. Repeats(g, first, step, n + 1) BY <2>6, <2>7 DEF Repeats
  <2> QED BY <2>3, <2>8
<1> HIDE DEF P
<1>3. N \in P BY <1>1, <1>2, NatInduct
<1> QED BY <1>3 DEF P

-----------------------------------------------------------------------------
(* Finite sets.                                                            *)

\* The empty set is in P, and every other one if those with an element less are.
Hereditary(P, S) ==
  /\ {} \in P
  /\ \A s \in (SUBSET S) \ {{}} : (\A x \in s : s \ {x} \in P) => s \in P

LEMMA SetInduct ==
  ASSUME NEW S, IsFiniteSet(S), NEW P, Hereditary(P, S)
  PROVE  SUBSET S \subseteq P
<1> SUFFICES ASSUME (SUBSET S) \ P # {} PROVE FALSE OBVIOUS
<1> DEFINE Bad == (SUBSET S) \ P
<1>1. Bad \subseteq FiniteSubsetsOf(S) BY FS_FiniteSubsetsOfFinite
<1>2. IsWellFoundedOn(StrictSubsetOrdering(S), FiniteSubsetsOf(S))
  BY FS_StrictSubsetOrderingWellFounded
<1>3. PICK s \in Bad : \A u \in Bad : ~ (<< u, s >> \in StrictSubsetOrdering(S))
  <2> HIDE DEF Bad
  <2>1. Bad # {} BY DEF Bad
  <2> QED BY <1>1, <1>2, <2>1, WFMin
<1>4. ASSUME NEW x \in s PROVE s \ {x} \in P
  <2>1. << s \ {x}, s >> \in StrictSubsetOrdering(S) BY DEF StrictSubsetOrdering
  <2>2. s \ {x} \notin Bad BY <1>3, <2>1
  <2> QED BY <2>2
<1> QED BY <1>4 DEF Hereditary

\* A finite set of natural numbers has a greatest element.
LEMMA FiniteMax ==
  ASSUME NEW T \in SUBSET Nat, T # {}, IsFiniteSet(T)
  PROVE  Max(T) \in T /\ \A n \in T : n <= Max(T)
<1> DEFINE P == { s \in SUBSET T : \E b \in Nat : \A n \in s : n <= b }
<1>1. {} \in P OBVIOUS
<1>2. ASSUME NEW s \in (SUBSET T) \ {{}}, \A x \in s : s \ {x} \in P PROVE s \in P
  <2>0. PICK x \in s : s \ {x} \in P BY <1>2
  <2>1. PICK b \in Nat : \A n \in s \ {x} : n <= b BY <2>0
  <2>2. x \in Nat BY <2>0
  <2>3. b + x \in Nat /\ \A n \in s : n <= b + x BY <2>1, <2>2
  <2> QED BY <2>3
<1> HIDE DEF P
<1>3. Hereditary(P, T) BY <1>1, <1>2 DEF Hereditary
<1>4. T \in P BY <1>3, SetInduct
<1>5. PICK b \in Nat : \A n \in T : n <= b BY <1>4 DEF P
<1> QED BY <1>5, NatMax

\* The function f goes through the subsets of S: from the set without the element
\* that ch chooses by a step for that element, and from the empty set on.
FoldsOver(f, S, base, ch, step) ==
  /\ f[{}] = base
  /\ \A s \in (SUBSET S) \ {{}} : f[s] = step[ch[s]][f[s \ {ch[s]}]]

\* There is one for every finite set.
LEMMA SetRecursion ==
  ASSUME NEW S, IsFiniteSet(S), NEW V, NEW base \in V,
         NEW ch \in [(SUBSET S) \ {{}} -> S], \A s \in (SUBSET S) \ {{}} : ch[s] \in s,
         NEW step \in [S -> [V -> V]]
  PROVE  \E f \in [SUBSET S -> V] : FoldsOver(f, S, base, ch, step)
<1> DEFINE F == [SUBSET S -> V]
           after(g, s) == IF s = {} THEN base ELSE step[ch[s]][g[s \ {ch[s]}]]
           next == [g \in F |-> [s \in SUBSET S |-> after(g, s)]]
           N == Cardinality(S) + 1
<1>1. N \in Nat BY FS_CardinalityType
<1>2. \A s \in (SUBSET S) \ {{}} : s \ {ch[s]} \in SUBSET S OBVIOUS
<1>3. \A g \in F : \A s \in SUBSET S : after(g, s) \in V
  <2> SUFFICES ASSUME NEW g \in F, NEW s \in SUBSET S, s # {} PROVE after(g, s) \in V OBVIOUS
  <2>1. ch[s] \in S /\ g[s \ {ch[s]}] \in V BY <1>2
  <2> QED BY <2>1
<1>4. next \in [F -> F]
  <2> HIDE DEF after
  <2>1. \A g \in F : [s \in SUBSET S |-> after(g, s)] \in F BY <1>3
  <2> HIDE DEF F
  <2> QED BY <2>1
<1> DEFINE init == [s \in SUBSET S |-> base]
<1>5. init \in F OBVIOUS
<1>6. PICK h \in [0 .. (N + 1) -> F] : \A n \in 1 .. (N + 1) : h[n] = next[h[n - 1]]
  <2> DEFINE M == N + 1
  <2>1. M \in Nat BY <1>1
  <2> HIDE DEF F, next, N, init, M
  <2>2. \E h \in [0 .. M -> F] : Repeats(h, init, next, M)
    BY <1>4, <1>5, <2>1, Iterate
  <2> QED BY <2>2 DEF M, Repeats
<1>7. \A n \in 0 .. N : h[n] \in F /\ \A s \in SUBSET S : h[n + 1][s] = after(h[n], s)
  <2> SUFFICES ASSUME NEW n \in 0 .. N
               PROVE  h[n] \in F /\ \A s \in SUBSET S : h[n + 1][s] = after(h[n], s)
    OBVIOUS
  <2> HIDE DEF N
  <2>1. n \in 0 .. (N + 1) /\ n + 1 \in 1 .. (N + 1) /\ (n + 1) - 1 = n BY <1>1
  <2>2. h[n] \in F BY <2>1
  <2>3. h[n + 1] = next[h[n]]
    <3> HIDE DEF next
    <3> QED BY <1>6, <2>1
  <2>4. next[h[n]] = [s \in SUBSET S |-> after(h[n], s)]
    <3> HIDE DEF F, after
    <3> QED BY <2>2
  <2> QED BY <2>2, <2>3, <2>4
<1> HIDE DEF next, F
<1> DEFINE P == { n \in Nat : n <= N =>
                   \A s \in SUBSET S : Cardinality(s) < n => h[n + 1][s] = h[n][s] }
<1>8. \A s \in SUBSET S : /\ Cardinality(s) \in Nat /\ Cardinality(s) < N
                          /\ \A x \in s : Cardinality(s \ {x}) = Cardinality(s) - 1
  <2> SUFFICES ASSUME NEW s \in SUBSET S
               PROVE  /\ Cardinality(s) \in Nat /\ Cardinality(s) < N
                      /\ \A x \in s : Cardinality(s \ {x}) = Cardinality(s) - 1
    OBVIOUS
  <2>1. IsFiniteSet(s) /\ Cardinality(s) <= Cardinality(S) BY FS_Subset
  <2> QED BY <2>1, FS_CardinalityType, FS_RemoveElement
<1> HIDE DEF N
<1>9. 0 \in P BY <1>8
<1>10. ASSUME NEW n \in Nat, n \in P PROVE n + 1 \in P
  <2> SUFFICES ASSUME n + 1 <= N, NEW s \in SUBSET S, Cardinality(s) < n + 1
               PROVE  h[n + 2][s] = h[n + 1][s]
    OBVIOUS
  <2>1. h[n + 2][s] = after(h[n + 1], s) /\ h[n + 1][s] = after(h[n], s)
    <3>1. n \in 0 .. N /\ n + 1 \in 0 .. N /\ (n + 1) + 1 = n + 2 BY <1>1
    <3> HIDE DEF after
    <3> QED BY <1>7, <3>1
  <2>2. CASE s = {} BY <2>1, <2>2
  <2>3. CASE s # {}
    <3>1. ch[s] \in s /\ s \ {ch[s]} \in SUBSET S BY <1>2, <2>3
    <3>2. Cardinality(s \ {ch[s]}) < n BY <1>8, <3>1
    <3>3. h[n + 1][s \ {ch[s]}] = h[n][s \ {ch[s]}] BY <1>1, <1>10, <3>1, <3>2
    <3> QED BY <2>1, <2>3, <3>3
  <2> QED BY <2>2, <2>3
<1> HIDE DEF P
<1>11. N \in P BY <1>1, <1>9, <1>10, NatInduct
<1>12. \A s \in SUBSET S : h[N + 1][s] = h[N][s] BY <1>8, <1>11 DEF P
<1>13. \A s \in SUBSET S : h[N][s] = after(h[N], s)
  <2>1. N \in 0 .. N BY <1>1
  <2> HIDE DEF after
  <2> QED BY <1>7, <1>12, <2>1
<1>14. h[N] \in [SUBSET S -> V]
  <2>1. N \in 0 .. (N + 1) BY <1>1
  <2>2. h[N] \in F BY <2>1
  <2> QED BY <2>2 DEF F
<1> QED BY <1>13, <1>14 DEF FoldsOver

-----------------------------------------------------------------------------
(* Sums.                                                                   *)

\* sum has the sums of w over the subsets of S, with the library's of S.
SumsUp(sum, w, S) ==
  /\ sum[S] = SumFunctionOnSet(w, S)
  /\ sum[{}] = 0
  /\ \A s \in (SUBSET S) \ {{}} : \E x \in s : sum[s] = w[x] + sum[s \ {x}]

LEMMA SumUnfolds ==
  ASSUME NEW S, IsFiniteSet(S), NEW w \in [S -> Nat]
  PROVE  \E sum \in [SUBSET S -> Nat] : SumsUp(sum, w, S)
<1> DEFINE Ch(s) == CHOOSE x \in s : TRUE
           ch == [s \in (SUBSET S) \ {{}} |-> Ch(s)]
           step == [x \in S |-> [n \in Nat |-> w[x] + n]]
           Sums(it) == it = [s \in SUBSET S |-> IF s = {} THEN 0
                               ELSE w[Ch(s)] + it[s \ {Ch(s)}]]
           sum == CHOOSE it : Sums(it)
<1>1. SumFunctionOnSet(w, S) = sum[S]
  BY DEF SumFunctionOnSet, FoldFunctionOnSet, MapThenFoldSet
<1>2. \A s \in (SUBSET S) \ {{}} : Ch(s) \in s OBVIOUS
<1>3. PICK f \in [SUBSET S -> Nat] : FoldsOver(f, S, 0, ch, step)
  <2> HIDE DEF Ch
  <2>1. ch \in [(SUBSET S) \ {{}} -> S] /\ \A s \in (SUBSET S) \ {{}} : ch[s] \in s BY <1>2
  <2>2. step \in [S -> [Nat -> Nat]] OBVIOUS
  <2>3. 0 \in Nat OBVIOUS
  <2> HIDE DEF ch, step
  <2> QED BY <2>1, <2>2, <2>3, SetRecursion
<1>4. Sums(f)
  <2> HIDE DEF Ch
  <2>1. f[{}] = 0 BY <1>3 DEF FoldsOver
  <2>2. ASSUME NEW s \in SUBSET S, s # {} PROVE f[s] = w[Ch(s)] + f[s \ {Ch(s)}]
    <3>1. Ch(s) \in S /\ s \ {Ch(s)} \in SUBSET S /\ f[s \ {Ch(s)}] \in Nat BY <1>2, <2>2
    <3>2. f[s] = step[ch[s]][f[s \ {ch[s]}]] BY <1>3, <2>2 DEF FoldsOver
    <3> QED BY <2>2, <3>1, <3>2
  <2> QED BY <2>1, <2>2
<1>5. Sums(sum)
  <2> HIDE DEF Sums
  <2> QED BY <1>4
<1> HIDE DEF sum
<1>6. sum[{}] = 0 /\ \A s \in (SUBSET S) \ {{}} : sum[s] = w[Ch(s)] + sum[s \ {Ch(s)}]
  <2> HIDE DEF Ch
  <2> QED BY <1>5
<1>7. sum \in [SUBSET S -> Nat]
  <2> DEFINE P == { s \in SUBSET S : sum[s] \in Nat }
  <2> HIDE DEF Ch
  <2>1. {} \in P BY <1>6
  <2>2. ASSUME NEW s \in (SUBSET S) \ {{}}, \A x \in s : s \ {x} \in P PROVE s \in P
    <3>1. Ch(s) \in s /\ w[Ch(s)] \in Nat /\ sum[s \ {Ch(s)}] \in Nat BY <1>2, <2>2
    <3>2. sum[s] = w[Ch(s)] + sum[s \ {Ch(s)}] BY <1>6
    <3>3. sum[s] \in Nat BY <3>1, <3>2
    <3> QED BY <3>3
  <2> HIDE DEF P
  <2>3. Hereditary(P, S) BY <2>1, <2>2 DEF Hereditary
  <2>4. SUBSET S \subseteq P BY <2>3, SetInduct
  <2>5. \E it : sum = [s \in SUBSET S |-> it[s]] BY <1>5
  <2> QED BY <2>4, <2>5 DEF P
<1> QED BY <1>1, <1>2, <1>6, <1>7 DEF SumsUp

\* A sum of numbers of at most m is at most m for each of them.
LEMMA SumBound ==
  ASSUME NEW S, IsFiniteSet(S), NEW w \in [S -> Nat], NEW m \in Nat
  PROVE  /\ SumFunctionOnSet(w, S) \in Nat
         /\ (\A x \in S : w[x] <= m) => SumFunctionOnSet(w, S) <= m * Cardinality(S)
<1>0. PICK sum \in [SUBSET S -> Nat] : SumsUp(sum, w, S) BY SumUnfolds
<1>1. /\ sum[S] = SumFunctionOnSet(w, S)
      /\ sum[{}] = 0
      /\ \A s \in (SUBSET S) \ {{}} : \E x \in s : sum[s] = w[x] + sum[s \ {x}]
  BY <1>0 DEF SumsUp
<1>2. ASSUME \A x \in S : w[x] <= m PROVE sum[S] <= m * Cardinality(S)
  <2> DEFINE P == { s \in SUBSET S : sum[s] <= m * Cardinality(s) }
  <2>1. {} \in P BY <1>1, FS_EmptySet
  <2>2. ASSUME NEW s \in (SUBSET S) \ {{}}, \A x \in s : s \ {x} \in P PROVE s \in P
    <3>1. PICK x \in s : sum[s] = w[x] + sum[s \ {x}] BY <1>1
    <3>2. sum[s \ {x}] <= m * Cardinality(s \ {x}) BY <2>2
    <3>3. w[x] \in Nat /\ w[x] <= m /\ sum[s \ {x}] \in Nat BY <1>2
    <3>4. IsFiniteSet(s) /\ Cardinality(s) \in Nat BY FS_Subset, FS_CardinalityType
    <3>5. Cardinality(s \ {x}) = Cardinality(s) - 1 BY <3>4, FS_RemoveElement
    <3>6. m * (Cardinality(s) - 1) = m * Cardinality(s) - m BY <3>4
    <3>7. m * Cardinality(s) \in Nat BY <3>4
    <3>8. sum[s] <= m * Cardinality(s)
      <4> HIDE DEF P
      <4> QED BY <3>1, <3>2, <3>3, <3>5, <3>6, <3>7
    <3> QED BY <3>8
  <2> HIDE DEF P
  <2>3. Hereditary(P, S) BY <2>1, <2>2 DEF Hereditary
  <2>4. S \in P BY <2>3, SetInduct
  <2> QED BY <2>4 DEF P
<1> QED BY <1>1, <1>2

\* A sum of numbers up to m reaches its bound only if all of them are m.
LEMMA SumAtBound ==
  ASSUME NEW S, IsFiniteSet(S), NEW w \in [S -> Nat], NEW m \in Nat,
         \A x \in S : w[x] <= m,
         SumFunctionOnSet(w, S) = m * Cardinality(S)
  PROVE  \A x \in S : w[x] = m
<1>0. PICK sum \in [SUBSET S -> Nat] : SumsUp(sum, w, S) BY SumUnfolds
<1>1. /\ sum[S] = SumFunctionOnSet(w, S)
      /\ sum[{}] = 0
      /\ \A s \in (SUBSET S) \ {{}} : \E x \in s : sum[s] = w[x] + sum[s \ {x}]
  BY <1>0 DEF SumsUp
<1> DEFINE bounded(s) == /\ sum[s] <= m * Cardinality(s)
                         /\ (sum[s] = m * Cardinality(s) => \A x \in s : w[x] = m)
           P == { s \in SUBSET S : bounded(s) }
<1>2. {} \in P
  <2>1. bounded({}) BY <1>1, FS_EmptySet
  <2> HIDE DEF bounded
  <2> QED BY <2>1
<1>3. ASSUME NEW s \in (SUBSET S) \ {{}}, \A x \in s : s \ {x} \in P PROVE s \in P
  <2>1. PICK x \in s : sum[s] = w[x] + sum[s \ {x}] BY <1>1
  <2>2. /\ sum[s \ {x}] <= m * Cardinality(s \ {x})
        /\ sum[s \ {x}] = m * Cardinality(s \ {x}) => \A y \in s \ {x} : w[y] = m
    <3> HIDE DEF bounded
    <3>1. bounded(s \ {x}) BY <1>3
    <3> QED BY <3>1 DEF bounded
  <2>3. w[x] \in Nat /\ w[x] <= m /\ sum[s \ {x}] \in Nat OBVIOUS
  <2>4. IsFiniteSet(s) /\ Cardinality(s) \in Nat BY FS_Subset, FS_CardinalityType
  <2>5. Cardinality(s \ {x}) = Cardinality(s) - 1 BY <2>4, FS_RemoveElement
  <2>6. m * (Cardinality(s) - 1) = m * Cardinality(s) - m BY <2>4
  <2>7. m * Cardinality(s) \in Nat BY <2>4
  <2> HIDE DEF P
  <2>8. sum[s] <= m * Cardinality(s) BY <2>1, <2>2, <2>3, <2>5, <2>6, <2>7
  <2>9. ASSUME sum[s] = m * Cardinality(s) PROVE \A y \in s : w[y] = m
    <3>1. w[x] = m /\ sum[s \ {x}] = m * Cardinality(s \ {x})
      BY <2>1, <2>2, <2>3, <2>5, <2>6, <2>7, <2>9
    <3> QED BY <2>2, <3>1
  <2>10. bounded(s) BY <2>8, <2>9
  <2> HIDE DEF bounded
  <2> QED BY <2>10 DEF P
<1> HIDE DEF P
<1>4. Hereditary(P, S) BY <1>2, <1>3 DEF Hereditary
<1>5. S \in P BY <1>4, SetInduct
<1>6. bounded(S)
  <2> HIDE DEF bounded
  <2> QED BY <1>5 DEF P
<1> QED BY <1>1, <1>6
=============================================================================
