----------------------------- MODULE SumLemmas -----------------------------
(***************************************************************************)
(* Lemmas about finite sums, that is SumFunctionOnSet of the community     *)
(* modules, which is defined by recursion over the subsets of the set.     *)
(* What would be an induction is a minimal counterexample here.            *)
(***************************************************************************)
EXTENDS Integers, Functions, FiniteSetTheorems, WellFoundedInduction, TLAPS

\* Every set of natural numbers has a least one, which serves as induction.
LEMMA LeastNumber ==
  ASSUME NEW S, S \subseteq Nat, S # {}
  PROVE  \E least \in S : \A n \in S : least <= n
<1>1. PICK least \in S : \A n \in S : <<n, least>> \notin OpToRel(<, Nat)
  BY WFMin, NatLessThanWellFounded, Zenon
<1>2. ASSUME NEW n \in S PROVE ~(n < least)
  BY <1>1, Zenon DEF OpToRel
<1>3. ASSUME NEW n \in S PROVE least <= n
  BY <1>2
<1> QED BY <1>3

\* Counting up from 0 reaches every number.
LEMMA CountingUp ==
  ASSUME NEW n \in Nat, NEW Good, 0 \in Good, \A k \in 1..n : k - 1 \in Good => k \in Good
  PROVE  \A k \in 0..n : k \in Good
<1> DEFINE Bad == {k \in 0..n : k \notin Good}
<1> SUFFICES ASSUME Bad # {} PROVE FALSE
  OBVIOUS
<1>0. Bad \subseteq Nat
  OBVIOUS
<1>1. PICK least \in Bad : \A k \in Bad : least <= k
  <2> HIDE DEF Bad
  <2> QED BY <1>0, LeastNumber
<1>2. least \in 1..n /\ least - 1 \in 0..n /\ least \notin Good
  BY <1>1
<1>3. least - 1 \in Good
  <2> SUFFICES ASSUME least - 1 \in Bad PROVE FALSE
    BY <1>2
  <2> QED BY <1>1, <1>2
<1> QED BY <1>2, <1>3

----------------------------------------------------------------------------
(* The recursion has a solution.                                           *)

Pick(s) == CHOOSE x \in s : TRUE

\* sum is the recursive function that MapThenFoldSet defines on the subsets of S.
Sums(S, v, sum) ==
  sum = [s \in SUBSET S |-> IF s = {} THEN 0 ELSE v[Pick(s)] + sum[s \ {Pick(s)}]]

SumOf(S, v) == (CHOOSE sum : Sums(S, v, sum))[S]

LEMMA SumIsRecursive ==
  ASSUME NEW S, NEW v
  PROVE  SumFunctionOnSet(v, S) = SumOf(S, v)
BY DEF SumFunctionOnSet, FoldFunctionOnSet, MapThenFoldSet, SumOf, Sums, Pick

\* The subsets with at most n elements, and a solution on them.
UpTo(S, n) == {s \in SUBSET S : Cardinality(s) <= n}

SumsUpTo(S, v, n, sum) ==
  /\ sum \in [UpTo(S, n) -> Int]
  /\ \A s \in UpTo(S, n) :
       sum[s] = IF s = {} THEN 0 ELSE v[Pick(s)] + sum[s \ {Pick(s)}]

\* Taking the element picked from a set leaves a smaller one.
LEMMA PickOne ==
  ASSUME NEW S, IsFiniteSet(S), NEW s \in SUBSET S, s # {}
  PROVE  /\ Pick(s) \in s /\ s \ {Pick(s)} \in SUBSET S
         /\ Cardinality(s) \in Nat /\ Cardinality(s \ {Pick(s)}) \in Nat
         /\ Cardinality(s) = Cardinality(s \ {Pick(s)}) + 1
<1>1. Pick(s) \in s
  BY DEF Pick
<1>2. IsFiniteSet(s)
  BY FS_Subset
<1>3. Cardinality(s \ {Pick(s)}) = Cardinality(s) - 1 /\ IsFiniteSet(s \ {Pick(s)})
  BY <1>1, <1>2, FS_RemoveElement
<1>4. Cardinality(s) \in Nat /\ Cardinality(s \ {Pick(s)}) \in Nat
  BY <1>2, <1>3, FS_CardinalityType
<1> QED BY <1>1, <1>3, <1>4

LEMMA SumsExtend ==
  ASSUME NEW S, IsFiniteSet(S), NEW v, \A x \in S : v[x] \in Int,
         NEW n \in Nat, NEW sum, SumsUpTo(S, v, n, sum)
  PROVE  \E next : SumsUpTo(S, v, n + 1, next)
<1> DEFINE next == [s \in UpTo(S, n + 1) |->
                      IF s = {} THEN 0 ELSE v[Pick(s)] + sum[s \ {Pick(s)}]]
<1>1. \A s \in UpTo(S, n) : s \in UpTo(S, n + 1) /\ next[s] = sum[s]
  <2> SUFFICES ASSUME NEW s \in UpTo(S, n)
               PROVE  s \in UpTo(S, n + 1) /\ next[s] = sum[s]
    OBVIOUS
  <2>1. s \in SUBSET S /\ Cardinality(s) <= n
    BY DEF UpTo
  <2>2. Cardinality(s) \in Nat
    BY <2>1, FS_Subset, FS_CardinalityType
  <2>3. s \in UpTo(S, n + 1)
    BY <2>1, <2>2 DEF UpTo
  <2>4. sum[s] = IF s = {} THEN 0 ELSE v[Pick(s)] + sum[s \ {Pick(s)}]
    BY DEF SumsUpTo
  <2> QED BY <2>3, <2>4
<1>2. ASSUME NEW s \in UpTo(S, n + 1), s # {}
      PROVE  Pick(s) \in S /\ s \ {Pick(s)} \in UpTo(S, n)
  <2>1. s \in SUBSET S /\ Cardinality(s) <= n + 1
    BY DEF UpTo
  <2>2. /\ Pick(s) \in s /\ s \ {Pick(s)} \in SUBSET S
        /\ Cardinality(s) \in Nat /\ Cardinality(s \ {Pick(s)}) \in Nat
        /\ Cardinality(s) = Cardinality(s \ {Pick(s)}) + 1
    BY <1>2, <2>1, PickOne
  <2>3. Cardinality(s \ {Pick(s)}) <= n
    BY <2>1, <2>2
  <2> QED BY <2>1, <2>2, <2>3 DEF UpTo
<1>3. next \in [UpTo(S, n + 1) -> Int]
  <2>1. \A s \in UpTo(S, n) : sum[s] \in Int
    BY DEF SumsUpTo
  <2>2. ASSUME NEW s \in UpTo(S, n + 1)
        PROVE  (IF s = {} THEN 0 ELSE v[Pick(s)] + sum[s \ {Pick(s)}]) \in Int
    BY <1>2, <2>1
  <2> QED BY <2>2
<1>4. ASSUME NEW s \in UpTo(S, n + 1)
      PROVE  next[s] = IF s = {} THEN 0 ELSE v[Pick(s)] + next[s \ {Pick(s)}]
  <2>1. next[s] = IF s = {} THEN 0 ELSE v[Pick(s)] + sum[s \ {Pick(s)}]
    OBVIOUS
  <2> HIDE DEF next
  <2> QED BY <1>1, <1>2, <2>1
<1> HIDE DEF next
<1> QED BY <1>3, <1>4 DEF SumsUpTo

LEMMA SumsExist ==
  ASSUME NEW S, IsFiniteSet(S), NEW v, \A x \in S : v[x] \in Int
  PROVE  \E sum : Sums(S, v, sum)
<1> DEFINE Bad == {n \in Nat : ~\E sum : SumsUpTo(S, v, n, sum)}
<1>1. 0 \notin Bad
  <2>1. UpTo(S, 0) = {{}}
    <3>1. ASSUME NEW s \in SUBSET S PROVE Cardinality(s) <= 0 <=> s = {}
      <4>1. IsFiniteSet(s) /\ Cardinality(s) \in Nat
        BY FS_Subset, FS_CardinalityType
      <4>2. Cardinality(s) = 0 <=> s = {}
        BY <4>1, FS_EmptySet
      <4> QED BY <4>1, <4>2
    <3> QED BY <3>1 DEF UpTo
  <2>2. SumsUpTo(S, v, 0, [s \in UpTo(S, 0) |-> 0])
    BY <2>1 DEF SumsUpTo
  <2> QED BY <2>2
<1>2. Bad = {}
  <2> SUFFICES ASSUME Bad # {} PROVE FALSE
    OBVIOUS
  <2>1. PICK least \in Bad : \A n \in Bad : least <= n
    BY LeastNumber
  <2>2. least \in Nat /\ least - 1 \in Nat /\ least - 1 \notin Bad
    BY <1>1, <2>1
  <2>3. \E sum : SumsUpTo(S, v, least - 1, sum)
    BY <2>2
  <2>4. \E sum : SumsUpTo(S, v, (least - 1) + 1, sum)
    BY <2>2, <2>3, SumsExtend
  <2> QED BY <2>1, <2>2, <2>4
<1>3. Cardinality(S) \in Nat
  BY FS_CardinalityType
<1>4. PICK sum : SumsUpTo(S, v, Cardinality(S), sum)
  BY <1>2, <1>3
<1>5. UpTo(S, Cardinality(S)) = SUBSET S
  BY FS_Subset DEF UpTo
<1>6. /\ sum \in [SUBSET S -> Int]
      /\ \A s \in SUBSET S : sum[s] = IF s = {} THEN 0 ELSE v[Pick(s)] + sum[s \ {Pick(s)}]
  BY <1>4, <1>5 DEF SumsUpTo
<1>7. Sums(S, v, sum)
  BY <1>6 DEF Sums
<1> QED BY <1>7
----------------------------------------------------------------------------
(* What the sum is.                                                        *)

LEMMA SmallestSet ==
  ASSUME NEW S, IsFiniteSet(S), NEW C \in SUBSET SUBSET S, C # {}
  PROVE  \E s \in C : \A t \in C : Cardinality(s) <= Cardinality(t)
<1> DEFINE sizes == {Cardinality(s) : s \in C}
<1>1. \A s \in C : Cardinality(s) \in Nat
  BY FS_Subset, FS_CardinalityType
<1>2. PICK least \in sizes : \A n \in sizes : least <= n
  <2>1. sizes \subseteq Nat /\ sizes # {}
    BY <1>1
  <2> HIDE DEF sizes
  <2> QED BY <2>1, LeastNumber
<1> QED BY <1>2

\* Two solutions agree on a set on which their functions do.
LEMMA SumsAgree ==
  ASSUME NEW S, IsFiniteSet(S), NEW v, NEW sum, Sums(S, v, sum),
         NEW T, NEW w, NEW total, Sums(T, w, total)
  PROVE  \A s \in SUBSET (S \cap T) :
           (\A x \in s : v[x] = w[x]) => sum[s] = total[s]
<1> DEFINE C == {s \in SUBSET (S \cap T) : (\A x \in s : v[x] = w[x]) /\ sum[s] # total[s]}
<1>1. \A s \in SUBSET (S \cap T) :
        /\ sum[s] = IF s = {} THEN 0 ELSE v[Pick(s)] + sum[s \ {Pick(s)}]
        /\ total[s] = IF s = {} THEN 0 ELSE w[Pick(s)] + total[s \ {Pick(s)}]
  BY DEF Sums
<1> SUFFICES ASSUME C # {} PROVE FALSE
  OBVIOUS
<1>2. C \in SUBSET SUBSET S
  OBVIOUS
<1>3. PICK s \in C : \A t \in C : Cardinality(s) <= Cardinality(t)
  BY <1>2, SmallestSet
<1>4. /\ s \in SUBSET S /\ s \in SUBSET (S \cap T)
      /\ (\A x \in s : v[x] = w[x]) /\ sum[s] # total[s]
  BY <1>3
<1> HIDE DEF C
<1>5. s # {}
  BY <1>1, <1>4
<1>6. /\ Pick(s) \in s /\ s \ {Pick(s)} \in SUBSET S
      /\ Cardinality(s) \in Nat /\ Cardinality(s \ {Pick(s)}) \in Nat
      /\ Cardinality(s) = Cardinality(s \ {Pick(s)}) + 1
  BY <1>4, <1>5, PickOne
<1>7. s \ {Pick(s)} \notin C
  <2> SUFFICES ASSUME s \ {Pick(s)} \in C PROVE FALSE
    OBVIOUS
  <2>1. Cardinality(s) <= Cardinality(s \ {Pick(s)})
    BY <1>3
  <2> QED BY <1>6, <2>1
<1>8. sum[s \ {Pick(s)}] = total[s \ {Pick(s)}]
  BY <1>4, <1>7 DEF C
<1> QED BY <1>1, <1>4, <1>5, <1>6, <1>8

TakesAny(S, v, sum) ==
  \A s \in SUBSET S : sum[s] \in Int /\ \A x \in s : sum[s] = v[x] + sum[s \ {x}]

\* Any element may be taken first.
LEMMA SumsTake ==
  ASSUME NEW S, IsFiniteSet(S), NEW v, \A x \in S : v[x] \in Int,
         NEW sum, Sums(S, v, sum)
  PROVE  TakesAny(S, v, sum)
<1> DEFINE Good(s) == sum[s] \in Int /\ \A x \in s : sum[s] = v[x] + sum[s \ {x}]
           C == {s \in SUBSET S : ~Good(s)}
<1>1. \A s \in SUBSET S : sum[s] = IF s = {} THEN 0 ELSE v[Pick(s)] + sum[s \ {Pick(s)}]
  BY DEF Sums
<1> SUFFICES ASSUME C # {} PROVE FALSE
  BY DEF TakesAny
<1>2. PICK s \in C : \A t \in C : Cardinality(s) <= Cardinality(t)
  BY SmallestSet
<1>3. s \in SUBSET S /\ ~Good(s)
  BY <1>2
<1>4. s # {}
  <2> SUFFICES ASSUME s = {} PROVE Good(s)
    BY <1>3
  <2>1. sum[s] = 0
    BY <1>1, <1>3
  <2> QED BY <2>1
<1>5. /\ Pick(s) \in s /\ s \ {Pick(s)} \in SUBSET S
      /\ Cardinality(s) \in Nat /\ Cardinality(s \ {Pick(s)}) \in Nat
      /\ Cardinality(s) = Cardinality(s \ {Pick(s)}) + 1
  BY <1>3, <1>4, PickOne
<1>6. ASSUME NEW t \in SUBSET S, Cardinality(t) \in Nat, Cardinality(t) < Cardinality(s)
      PROVE  Good(t)
  BY <1>2, <1>5, <1>6
<1>7. ASSUME NEW x \in s
      PROVE  /\ Good(s \ {x}) /\ s \ {x} \in SUBSET S /\ v[x] \in Int
  <2>1. IsFiniteSet(s) /\ s \ {x} \in SUBSET S
    BY <1>3, FS_Subset
  <2>2. Cardinality(s \ {x}) = Cardinality(s) - 1 /\ IsFiniteSet(s \ {x})
    BY <2>1, FS_RemoveElement
  <2>3. Cardinality(s \ {x}) \in Nat
    BY <2>2, FS_CardinalityType
  <2>4. Cardinality(s \ {x}) < Cardinality(s)
    BY <1>5, <2>2, <2>3
  <2>5. Good(s \ {x})
    BY <1>6, <2>1, <2>3, <2>4
  <2> QED BY <1>3, <2>1, <2>5
<1> DEFINE p == Pick(s)
<1>8. sum[s] = v[p] + sum[s \ {p}] /\ sum[s] \in Int /\ p \in s
  <2>1. sum[s] = v[p] + sum[s \ {p}] /\ p \in s
    BY <1>1, <1>3, <1>4, <1>5
  <2>2. v[p] \in Int /\ Good(s \ {p})
    BY <1>7, <2>1
  <2>3. sum[s \ {p}] \in Int
    BY ONLY <2>2
  <2> QED BY ONLY <2>1, <2>2, <2>3
<1> HIDE DEF p
<1>9. ASSUME NEW x \in s PROVE sum[s] = v[x] + sum[s \ {x}]
  <2>1. CASE x = p
    BY <1>8, <2>1
  <2>2. CASE x # p
    <3>1. (s \ {p}) \ {x} = (s \ {x}) \ {p}
      OBVIOUS
    <3>2. x \in s \ {p} /\ p \in s \ {x}
      BY <1>8, <2>2
    <3>3. Good(s \ {p}) /\ Good(s \ {x}) /\ v[x] \in Int /\ v[p] \in Int
      BY <1>7, <1>8
    <3>4. sum[s \ {p}] = v[x] + sum[(s \ {p}) \ {x}]
      BY <3>2, <3>3
    <3>5. sum[s \ {x}] = v[p] + sum[(s \ {x}) \ {p}]
      BY <3>2, <3>3
    <3>6. sum[(s \ {p}) \ {x}] \in Int
      <4>1. s \ {p} \in SUBSET S /\ (s \ {p}) \ {x} \in SUBSET S
        BY <1>3
      <4>2. /\ IsFiniteSet(s \ {p}) /\ Cardinality(s \ {p}) = Cardinality(s) - 1
        BY <1>3, <1>8, FS_Subset, FS_RemoveElement
      <4>3. /\ Cardinality((s \ {p}) \ {x}) = Cardinality(s \ {p}) - 1
            /\ IsFiniteSet((s \ {p}) \ {x})
        BY <3>2, <4>2, FS_RemoveElement
      <4>4. Cardinality((s \ {p}) \ {x}) \in Nat
        BY <4>3, FS_CardinalityType
      <4>5. Cardinality((s \ {p}) \ {x}) < Cardinality(s)
        BY <1>5, <4>2, <4>3
      <4> QED BY <1>6, <4>1, <4>4, <4>5
    <3>7. PICK rest \in Int : rest = sum[(s \ {p}) \ {x}]
      BY <3>6
    <3>8. sum[s] = v[p] + (v[x] + rest) /\ sum[s \ {x}] = v[p] + rest
      BY <1>8, <3>1, <3>4, <3>5, <3>7
    <3>9. v[x] \in Int /\ v[p] \in Int
      BY <1>7, <1>8
    <3> QED BY ONLY <3>7, <3>8, <3>9
  <2> QED BY <2>1, <2>2
<1> QED BY <1>3, <1>8, <1>9

----------------------------------------------------------------------------
(* The sum of a function over a finite set.                                *)

LEMMA SumOfSums ==
  ASSUME NEW S, IsFiniteSet(S), NEW v, \A x \in S : v[x] \in Int
  PROVE  \E sum : Sums(S, v, sum) /\ SumFunctionOnSet(v, S) = sum[S]
<1>1. PICK sum : Sums(S, v, sum)
  BY SumsExist
<1> DEFINE chosen == CHOOSE total : Sums(S, v, total)
<1>2. Sums(S, v, chosen)
  BY <1>1
<1>3. SumFunctionOnSet(v, S) = chosen[S]
  BY SumIsRecursive DEF SumOf
<1> HIDE DEF chosen
<1> QED BY <1>2, <1>3

LEMMA SumAgree ==
  ASSUME NEW S, IsFiniteSet(S), NEW v, \A x \in S : v[x] \in Int,
         NEW w, \A x \in S : w[x] = v[x]
  PROVE  SumFunctionOnSet(w, S) = SumFunctionOnSet(v, S)
<1>1. PICK sum : Sums(S, v, sum) /\ SumFunctionOnSet(v, S) = sum[S]
  BY SumOfSums
<1>2. \A x \in S : w[x] \in Int
  OBVIOUS
<1>3. PICK total : Sums(S, w, total) /\ SumFunctionOnSet(w, S) = total[S]
  BY <1>2, SumOfSums
<1>4. S \in SUBSET (S \cap S) /\ \A x \in S : v[x] = w[x]
  OBVIOUS
<1>5. sum[S] = total[S]
  BY <1>1, <1>3, <1>4, SumsAgree
<1> QED BY <1>1, <1>3, <1>5

LEMMA SumEmpty == ASSUME NEW v PROVE SumFunctionOnSet(v, {}) = 0
<1>1. IsFiniteSet({})
  BY FS_EmptySet
<1>2. PICK sum : Sums({}, v, sum) /\ SumFunctionOnSet(v, {}) = sum[{}]
  BY <1>1, SumOfSums
<1> QED BY <1>2 DEF Sums

LEMMA SumTake ==
  ASSUME NEW S, IsFiniteSet(S), NEW v, \A x \in S : v[x] \in Int
  PROVE  /\ SumFunctionOnSet(v, S) \in Int
         /\ \A x \in S : SumFunctionOnSet(v, S) = v[x] + SumFunctionOnSet(v, S \ {x})
<1>1. PICK sum : Sums(S, v, sum) /\ SumFunctionOnSet(v, S) = sum[S]
  BY SumOfSums
<1>2. S \in SUBSET S
  OBVIOUS
<1>3. sum[S] \in Int /\ \A x \in S : sum[S] = v[x] + sum[S \ {x}]
  <2>1. \A s \in SUBSET S : sum[s] \in Int /\ \A x \in s : sum[s] = v[x] + sum[s \ {x}]
    <3>1. Sums(S, v, sum)
      BY <1>1
    <3>2. TakesAny(S, v, sum)
      BY <3>1, SumsTake
    <3> QED BY <3>2 DEF TakesAny
  <2> QED BY <1>2, <2>1
<1>4. ASSUME NEW x \in S PROVE sum[S \ {x}] = SumFunctionOnSet(v, S \ {x})
  <2>1. IsFiniteSet(S \ {x}) /\ \A y \in S \ {x} : v[y] \in Int
    BY FS_Subset
  <2>2. PICK total : Sums(S \ {x}, v, total) /\ SumFunctionOnSet(v, S \ {x}) = total[S \ {x}]
    BY <2>1, SumOfSums
  <2>3. S \ {x} \in SUBSET (S \cap (S \ {x}))
    OBVIOUS
  <2>4. sum[S \ {x}] = total[S \ {x}]
    BY <1>1, <2>2, <2>3, SumsAgree
  <2> QED BY <2>2, <2>4
<1> QED BY <1>1, <1>3, <1>4

\* A function that changes at one element changes its sum by as much.
LEMMA SumChange ==
  ASSUME NEW S, IsFiniteSet(S), NEW v, \A y \in S : v[y] \in Int,
         NEW w, NEW x \in S, w[x] \in Int, \A y \in S : y # x => w[y] = v[y]
  PROVE  SumFunctionOnSet(w, S) = SumFunctionOnSet(v, S) + (w[x] - v[x])
<1>1. \A y \in S : w[y] \in Int
  OBVIOUS
<1>2. SumFunctionOnSet(v, S) = v[x] + SumFunctionOnSet(v, S \ {x})
  BY SumTake
<1>3. SumFunctionOnSet(w, S) = w[x] + SumFunctionOnSet(w, S \ {x})
  BY <1>1, SumTake
<1>4. IsFiniteSet(S \ {x}) /\ \A y \in S \ {x} : v[y] \in Int /\ w[y] = v[y]
  BY FS_Subset
<1>5. /\ SumFunctionOnSet(w, S \ {x}) = SumFunctionOnSet(v, S \ {x})
      /\ SumFunctionOnSet(v, S \ {x}) \in Int
  BY <1>4, SumAgree, SumTake
<1>6. v[x] \in Int
  OBVIOUS
<1> QED BY <1>2, <1>3, <1>5, <1>6

LEMMA SumAdd ==
  ASSUME NEW S, IsFiniteSet(S), NEW v, NEW x, x \notin S,
         \A y \in S \union {x} : v[y] \in Int
  PROVE  SumFunctionOnSet(v, S \union {x}) = v[x] + SumFunctionOnSet(v, S)
<1>1. IsFiniteSet(S \union {x}) /\ x \in S \union {x} /\ (S \union {x}) \ {x} = S
  BY FS_AddElement
<1>2. SumFunctionOnSet(v, S \union {x}) = v[x] + SumFunctionOnSet(v, (S \union {x}) \ {x})
  BY <1>1, SumTake
<1> QED BY <1>1, <1>2

\* Taking an element of a finite set leaves a smaller one.
LEMMA Smaller ==
  ASSUME NEW S, IsFiniteSet(S), NEW x \in S
  PROVE  /\ IsFiniteSet(S \ {x}) /\ Cardinality(S) \in Nat /\ Cardinality(S \ {x}) \in Nat
         /\ Cardinality(S) = Cardinality(S \ {x}) + 1
         /\ ~(Cardinality(S) <= Cardinality(S \ {x}))
<1>1. IsFiniteSet(S \ {x}) /\ Cardinality(S \ {x}) = Cardinality(S) - 1
  BY FS_RemoveElement
<1>2. Cardinality(S) \in Nat /\ Cardinality(S \ {x}) \in Nat
  BY <1>1, FS_CardinalityType
<1> QED BY <1>1, <1>2

\* Elements where the function is zero do not count.
LEMMA SumWithout ==
  ASSUME NEW S, IsFiniteSet(S), NEW T \in SUBSET S, NEW v,
         \A x \in S : v[x] \in Int, \A x \in S \ T : v[x] = 0
  PROVE  SumFunctionOnSet(v, S) = SumFunctionOnSet(v, T)
<1> DEFINE C == {s \in SUBSET S : T \subseteq s /\ SumFunctionOnSet(v, s) # SumFunctionOnSet(v, T)}
<1> SUFFICES ASSUME C # {} PROVE FALSE
  OBVIOUS
<1>1. C \in SUBSET SUBSET S
  OBVIOUS
<1>2. PICK s \in C : \A t \in C : Cardinality(s) <= Cardinality(t)
  <2> HIDE DEF C
  <2> QED BY <1>1, SmallestSet
<1>3. s \in SUBSET S /\ T \subseteq s /\ SumFunctionOnSet(v, s) # SumFunctionOnSet(v, T)
  BY <1>2
<1>4. PICK x \in s : x \notin T
  BY <1>3
<1>5. IsFiniteSet(s) /\ (\A y \in s : v[y] \in Int) /\ v[x] = 0
  BY <1>3, <1>4, FS_Subset
<1>6. s \ {x} \notin C
  <2> SUFFICES ASSUME s \ {x} \in C PROVE FALSE
    OBVIOUS
  <2>1. Cardinality(s) <= Cardinality(s \ {x})
    BY <1>2
  <2> HIDE DEF C
  <2> QED BY <1>5, <2>1, Smaller
<1>7. SumFunctionOnSet(v, s \ {x}) = SumFunctionOnSet(v, T)
  BY <1>3, <1>4, <1>6
<1>8. SumFunctionOnSet(v, s) = v[x] + SumFunctionOnSet(v, s \ {x})
  BY <1>5, SumTake
<1>9. SumFunctionOnSet(v, s \ {x}) \in Int
  <2>1. IsFiniteSet(s \ {x}) /\ \A y \in s \ {x} : v[y] \in Int
    BY <1>5, FS_Subset
  <2> QED BY <2>1, SumTake
<1> HIDE DEF C
<1> QED BY <1>3, <1>5, <1>7, <1>8, <1>9

LEMMA SumPlus ==
  ASSUME NEW S, IsFiniteSet(S), NEW v, NEW w, NEW both,
         \A x \in S : v[x] \in Int /\ w[x] \in Int /\ both[x] = v[x] + w[x]
  PROVE  SumFunctionOnSet(both, S) = SumFunctionOnSet(v, S) + SumFunctionOnSet(w, S)
<1> DEFINE C == {s \in SUBSET S : SumFunctionOnSet(both, s)
                                   # SumFunctionOnSet(v, s) + SumFunctionOnSet(w, s)}
<1> SUFFICES ASSUME C # {} PROVE FALSE
  OBVIOUS
<1>1. C \in SUBSET SUBSET S
  OBVIOUS
<1>2. PICK s \in C : \A t \in C : Cardinality(s) <= Cardinality(t)
  <2> HIDE DEF C
  <2> QED BY <1>1, SmallestSet
<1>3. /\ s \in SUBSET S
      /\ SumFunctionOnSet(both, s) # SumFunctionOnSet(v, s) + SumFunctionOnSet(w, s)
  BY <1>2
<1>4. s # {}
  <2> SUFFICES ASSUME s = {} PROVE FALSE
    OBVIOUS
  <2>1. /\ SumFunctionOnSet(both, s) = 0
        /\ SumFunctionOnSet(v, s) = 0 /\ SumFunctionOnSet(w, s) = 0
    BY SumEmpty
  <2> QED BY <1>3, <2>1
<1>5. PICK x \in s : TRUE
  BY <1>4
<1>6. IsFiniteSet(s) /\ \A y \in s : v[y] \in Int /\ w[y] \in Int /\ both[y] \in Int
  BY <1>3, FS_Subset
<1>7. s \ {x} \notin C
  <2> SUFFICES ASSUME s \ {x} \in C PROVE FALSE
    OBVIOUS
  <2>1. Cardinality(s) <= Cardinality(s \ {x})
    BY <1>2
  <2> HIDE DEF C
  <2> QED BY <1>6, <2>1, Smaller
<1>8. SumFunctionOnSet(both, s \ {x}) = SumFunctionOnSet(v, s \ {x}) + SumFunctionOnSet(w, s \ {x})
  BY <1>3, <1>7
<1> HIDE DEF C
<1>9. /\ SumFunctionOnSet(both, s) = both[x] + SumFunctionOnSet(both, s \ {x})
      /\ SumFunctionOnSet(v, s) = v[x] + SumFunctionOnSet(v, s \ {x})
      /\ SumFunctionOnSet(w, s) = w[x] + SumFunctionOnSet(w, s \ {x})
  BY <1>6, SumTake
<1>10. SumFunctionOnSet(v, s \ {x}) \in Int /\ SumFunctionOnSet(w, s \ {x}) \in Int
  <2>1. IsFiniteSet(s \ {x}) /\ \A y \in s \ {x} : v[y] \in Int /\ w[y] \in Int
    BY <1>6, FS_Subset
  <2> QED BY <2>1, SumTake
<1>11. v[x] \in Int /\ w[x] \in Int /\ both[x] = v[x] + w[x]
  BY <1>3
<1> QED BY <1>3, <1>8, <1>9, <1>10, <1>11

LEMMA SumOnes ==
  ASSUME NEW S, IsFiniteSet(S), NEW v, \A x \in S : v[x] = 1
  PROVE  SumFunctionOnSet(v, S) = Cardinality(S)
<1> DEFINE C == {s \in SUBSET S : SumFunctionOnSet(v, s) # Cardinality(s)}
<1> SUFFICES ASSUME C # {} PROVE FALSE
  OBVIOUS
<1>1. C \in SUBSET SUBSET S
  OBVIOUS
<1>2. PICK s \in C : \A t \in C : Cardinality(s) <= Cardinality(t)
  <2> HIDE DEF C
  <2> QED BY <1>1, SmallestSet
<1>3. s \in SUBSET S /\ SumFunctionOnSet(v, s) # Cardinality(s)
  BY <1>2
<1>4. s # {}
  BY <1>3, SumEmpty, FS_EmptySet
<1>5. PICK x \in s : TRUE
  BY <1>4
<1>6. IsFiniteSet(s) /\ (\A y \in s : v[y] \in Int) /\ v[x] = 1
  BY <1>3, FS_Subset
<1>7. s \ {x} \notin C
  <2> SUFFICES ASSUME s \ {x} \in C PROVE FALSE
    OBVIOUS
  <2>1. Cardinality(s) <= Cardinality(s \ {x})
    BY <1>2
  <2> HIDE DEF C
  <2> QED BY <1>6, <2>1, Smaller
<1>8. SumFunctionOnSet(v, s \ {x}) = Cardinality(s \ {x})
  BY <1>3, <1>7
<1> HIDE DEF C
<1>9. SumFunctionOnSet(v, s) = v[x] + SumFunctionOnSet(v, s \ {x})
  BY <1>6, SumTake
<1>10. Cardinality(s \ {x}) \in Nat /\ Cardinality(s) = Cardinality(s \ {x}) + 1
  BY <1>6, Smaller
<1> QED BY <1>3, <1>6, <1>8, <1>9, <1>10

LEMMA SumNat ==
  ASSUME NEW S, IsFiniteSet(S), NEW v, \A x \in S : v[x] \in Nat
  PROVE  SumFunctionOnSet(v, S) \in Nat
<1> DEFINE C == {s \in SUBSET S : SumFunctionOnSet(v, s) \notin Nat}
<1> SUFFICES ASSUME C # {} PROVE FALSE
  OBVIOUS
<1>1. C \in SUBSET SUBSET S
  OBVIOUS
<1>2. PICK s \in C : \A t \in C : Cardinality(s) <= Cardinality(t)
  <2> HIDE DEF C
  <2> QED BY <1>1, SmallestSet
<1>3. s \in SUBSET S /\ SumFunctionOnSet(v, s) \notin Nat
  BY <1>2
<1>4. s # {}
  BY <1>3, SumEmpty
<1>5. PICK x \in s : TRUE
  BY <1>4
<1>6. IsFiniteSet(s) /\ (\A y \in s : v[y] \in Int) /\ v[x] \in Nat
  BY <1>3, FS_Subset
<1>7. s \ {x} \notin C
  <2> SUFFICES ASSUME s \ {x} \in C PROVE FALSE
    OBVIOUS
  <2>1. Cardinality(s) <= Cardinality(s \ {x})
    BY <1>2
  <2> HIDE DEF C
  <2> QED BY <1>6, <2>1, Smaller
<1>8. SumFunctionOnSet(v, s \ {x}) \in Nat
  BY <1>3, <1>7
<1> HIDE DEF C
<1>9. SumFunctionOnSet(v, s) = v[x] + SumFunctionOnSet(v, s \ {x})
  BY <1>6, SumTake
<1> QED BY <1>3, <1>6, <1>8, <1>9
=============================================================================
