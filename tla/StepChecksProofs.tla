-------------------------- MODULE StepChecksProofs -------------------------
(***************************************************************************)
(* Proofs about the parts that are checked on their own.  A run's shares   *)
(* of a saved number never overspend it, a pre-gate lets through what its  *)
(* doc comment says it does, and arguments whose dollars all belong to     *)
(* placeholders materialize as if every placeholder were replaced at once: *)
(* for every number, every width of u128 and i128, every string, template  *)
(* and sequence of shares.  The observer pairs the callbacks of a          *)
(* transaction with their data and tells how its sequence ended, however   *)
(* many there are.  The hop through the Authorizer spends nothing of the   *)
(* root's, for any callers, deposits and number of calls.  The static      *)
(* budgets of a step without a gate always suffice, and those of a gated   *)
(* step for the Direct policy only, for every set of gas values and        *)
(* leftovers.                                                              *)
(***************************************************************************)
EXTENDS GasBudget, StepValues, Authorizer, ObserverTrace, SumLemmas, SequenceTheorems

----------------------------------------------------------------------------
(* Shares of a saved number.                                               *)

\* What the provers need to be told of products.
LEMMA Product == ASSUME NEW i \in Nat, NEW j \in Nat PROVE i * j \in Nat
OBVIOUS

LEMMA Distributes ==
  ASSUME NEW i \in Nat, NEW j \in Nat, NEW k \in Nat PROVE i * (j + k) = i * j + i * k
OBVIOUS

LEMMA Grows ==
  ASSUME NEW i \in Nat, NEW j \in Nat, NEW k \in Nat, j <= k PROVE i * j <= i * k
<1>1. PICK d \in Nat : k = j + d
  <2>1. k - j \in Nat /\ k = j + (k - j)
    OBVIOUS
  <2> QED
    BY <2>1
<1>2. i * k = i * j + i * d /\ i * d \in Nat /\ i * j \in Nat
  BY <1>1, Distributes, Product
<1> QED
  BY <1>2

\* The rounding of one share is in the owner's favour: ten thousand times the
\* share is at most the number times its basis points.
LEMMA ShareRoundsDown ==
  ASSUME NEW n \in Nat, NEW bps \in Nat
  PROVE  Percent(n, bps) \in Nat /\ 10000 * Percent(n, bps) <= n * bps
<1> DEFINE product == n * bps
<1>1. product \in Nat
  OBVIOUS
<1> HIDE DEF product
<1>2. product \div 10000 \in Nat /\ 10000 * (product \div 10000) <= product
  BY <1>1
<1> QED
  BY <1>2 DEF Percent, product

\* A parser reads natural numbers, and at most one of them.
LEMMA RunsAreNat == ASSUME NEW s PROVE Runs(s) \subseteq Nat
BY DEF Runs, DigitRun

LEMMA MarksDiffer ==
  /\ Quote # Dollar /\ Quote # OpenBrace /\ Quote # CloseBrace /\ PlusSign # MinusSign
  /\ Invalid \notin {Quote, Dollar, OpenBrace, CloseBrace}
  /\ Replacement \notin {Quote, Dollar}
  /\ {Quote, Dollar, OpenBrace, CloseBrace, Invalid, Replacement} \subseteq Char
  /\ {Quote, Dollar, Invalid} \intersect DigitRun = {}
<1>1. DOMAIN Marks = 1..9 /\ Marks[1] = Quote /\ Marks[2] = Dollar /\ Marks[3] = OpenBrace
      /\ Marks[4] = CloseBrace /\ Marks[6] = PlusSign /\ Marks[7] = MinusSign
      /\ Marks[8] = Invalid /\ Marks[9] = Replacement
  BY DEF Marks
<1>2. \A i, j \in 1..9 : Marks[i] = Marks[j] => i = j
  BY <1>1, CharsAssumption DEF IsInjective
<1>3. \A i \in 1..9 : Marks[i] \in Range(Marks)
  BY <1>1 DEF Range
<1>4. {Quote, Dollar, OpenBrace, CloseBrace, Invalid, Replacement} \subseteq Range(Marks)
  BY <1>1, <1>3
<1> QED BY <1>1, <1>2, <1>4, CharsAssumption DEF Char

LEMMA ParseIsNat ==
  ASSUME NEW t, NEW n \in parse_u128_json(t)
  PROVE  n \in Nat
BY RunsAreNat DEF parse_u128_json, Unsigned

\* PercentU128 of bytes, at basis points within the whole, emits the share of the
\* number read, or fails.
LEMMA PercentEmitsShare ==
  ASSUME NEW t, NEW bps \in Nat, PercentU128(t, bps).error = "none"
  PROVE  \E n \in parse_u128_json(t) :
           PercentU128(t, bps).bytes[2].digits = Percent(n, bps)
<1> DEFINE number == CHOOSE n \in parse_u128_json(t) : TRUE
<1>3. ~(bps > 10000) /\ parse_u128_json(t) # {} /\ ~(number * bps > MaxU128)
  BY DEF PercentU128, Fails
<1>4. PercentU128(t, bps) = Succeeds(Quoted(Percent(number, bps)))
  BY <1>3 DEF PercentU128
<1>5. PercentU128(t, bps).bytes = Quoted(Percent(number, bps))
  BY <1>4 DEF Succeeds
<1>7. number \in parse_u128_json(t)
  BY <1>3
<1> HIDE DEF number
<1>8. Quoted(Percent(number, bps))[2].digits = Percent(number, bps)
  BY DEF Quoted, Digits
<1> QED
  BY <1>5, <1>7, <1>8

\* Bytes are one signed or unsigned number, or none.
LEMMA ReadsOnce ==
  ASSUME NEW t
  PROVE  /\ Unsigned(t) \subseteq Int /\ Negative(t) \subseteq Int
         /\ \A m, n \in Unsigned(t) \union Negative(t) : m = n
<1>1. \A n : Digits(n).digits = n
  BY DEF Digits
<1>2. ASSUME NEW m \in Unsigned(t)
      PROVE  m \in Nat /\ \/ Len(t) = 1 /\ t[1].digits = m
                          \/ Len(t) = 2 /\ t[1] = PlusSign /\ t[2].digits = m
  BY <1>1, RunsAreNat DEF Unsigned
<1>3. ASSUME NEW n \in Negative(t)
      PROVE  \E m \in Nat : n = 0 - m /\ Len(t) = 2 /\ t[1] = MinusSign /\ t[2].digits = m
  BY <1>1, RunsAreNat DEF Negative
<1>4. \A m \in Unsigned(t), n \in Negative(t) : FALSE
  BY <1>2, <1>3, MarksDiffer
<1> QED BY <1>2, <1>3, <1>4

LEMMA ParseIsFunction ==
  ASSUME NEW t, NEW m \in parse_u128_json(t), NEW n \in parse_u128_json(t)
  PROVE  m = n
BY ReadsOnce DEF parse_u128_json

\* The inductive invariant: what has been spent, in units of a ten-thousandth, is
\* at most the number times the basis points used.
SharesInv ==
  /\ shares.used \in Nat /\ shares.used <= 10000 /\ shares.spent \in Nat
  /\ shares # NoShares => request \in ShareRequests
  /\ request \in ShareRequests =>
       \A n \in parse_u128_json(request.shared) : 10000 * shares.spent <= n * shares.used

LEMMA SharesInitially == ValuesInit => SharesInv
<1> SUFFICES ASSUME ValuesInit PROVE SharesInv
  OBVIOUS
<1>1. shares = [used |-> 0, spent |-> 0]
  BY DEF ValuesInit, NoShares
<1>2. \A n \in Nat : 10000 * 0 <= n * 0
  OBVIOUS
<1> QED
  BY <1>1, <1>2, ParseIsNat, SharesAssumption DEF SharesInv, NoShares

\* One more share keeps it.
LEMMA ShareKeeps ==
  ASSUME SharesInv, NEW bps \in Bps, TakeShare(bps)
  PROVE  SharesInv'
<1>1. request \in ShareRequests /\ request' = request /\ bps \in Nat
  BY SharesAssumption DEF TakeShare
<1>2. PICK m \in parse_u128_json(request.shared) :
        PercentU128(request.shared, bps).bytes[2].digits = Percent(m, bps)
  BY <1>1, PercentEmitsShare DEF TakeShare
<1>3. m \in Nat /\ Percent(m, bps) \in Nat /\ 10000 * Percent(m, bps) <= m * bps
  <2>1. m \in Nat
    BY <1>1, <1>2, ParseIsNat
  <2> QED
    BY <1>1, <2>1, ShareRoundsDown
<1>4. /\ shares' = [used |-> shares.used + bps, spent |-> shares.spent + Percent(m, bps)]
      /\ shares.used + bps <= 10000
  BY <1>2 DEF TakeShare
<1>5. shares.used \in Nat /\ shares.spent \in Nat
  BY DEF SharesInv
<1>6. shares'.used \in Nat /\ shares'.used <= 10000 /\ shares'.spent \in Nat
  BY <1>1, <1>3, <1>4, <1>5
<1>7. ASSUME NEW n \in parse_u128_json(request'.shared)
      PROVE  10000 * shares'.spent <= n * shares'.used
  <2>1. n = m
    BY <1>1, <1>2, <1>7, ParseIsFunction
  <2>2. 10000 * shares.spent <= m * shares.used
    BY <1>1, <1>2 DEF SharesInv
  <2>3. m * (shares.used + bps) = m * shares.used + m * bps
    BY <1>1, <1>3, <1>5, Distributes
  <2>4. m * shares.used \in Nat /\ m * bps \in Nat
    BY <1>1, <1>3, <1>5, Product
  <2>5. 10000 * (shares.spent + Percent(m, bps)) <= m * (shares.used + bps)
    BY <1>3, <1>5, <2>2, <2>3, <2>4
  <2> QED
    BY <1>4, <2>1, <2>5
<1> QED
  BY <1>1, <1>6, <1>7 DEF SharesInv

LEMMA SharesInductive == SharesInv /\ [ValuesNext]_valueVars => SharesInv'
<1> SUFFICES ASSUME SharesInv, [ValuesNext]_valueVars PROVE SharesInv'
  OBVIOUS
<1>1. CASE EvaluateGate \/ Materialize \/ UNCHANGED valueVars
  BY <1>1 DEF EvaluateGate, Materialize, valueVars, SharesInv
<1>2. CASE \E bps \in Bps : TakeShare(bps)
  BY <1>2, ShareKeeps
<1> QED
  BY <1>1, <1>2 DEF ValuesNext

LEMMA SharesInvGivesSplits == SharesInv => SplitsNeverOverspend
<1> SUFFICES ASSUME SharesInv, shares # NoShares, NEW n \in parse_u128_json(request.shared)
             PROVE  shares.spent <= n
  BY DEF SplitsNeverOverspend
<1>1. n \in Nat
  BY ParseIsNat, SharesAssumption DEF SharesInv
<1>2. shares.used \in Nat /\ shares.used <= 10000 /\ shares.spent \in Nat
  BY DEF SharesInv
<1>3. 10000 * shares.spent <= n * shares.used
  BY DEF SharesInv
<1>4. n * shares.used <= n * 10000 /\ n * shares.used \in Nat
  BY <1>1, <1>2, Grows, Product
<1> QED
  BY <1>1, <1>2, <1>3, <1>4

\* Steps that share out a saved number never overspend it, whatever the number,
\* the width and the shares.
THEOREM SplitsSafe == ValuesSpec => []SplitsNeverOverspend
<1>1. ValuesInit => SharesInv
  BY SharesInitially
<1>2. SharesInv /\ [ValuesNext]_valueVars => SharesInv'
  BY SharesInductive
<1>3. SharesInv => SplitsNeverOverspend
  BY SharesInvGivesSplits
<1> QED
  BY <1>1, <1>2, <1>3, PTL DEF ValuesSpec

----------------------------------------------------------------------------
(* Pre-gates.                                                              *)

\* A parser reads integers, and at most one of them.
LEMMA ReadsFacts ==
  ASSUME NEW t, NEW comparison
  PROVE  /\ Reads(t, comparison) \subseteq Int
         /\ \A m, n \in Reads(t, comparison) : m = n
<1> DEFINE s == trim(trim_json_quotes(t))
<1>1. /\ Unsigned(s) \subseteq Int /\ Negative(s) \subseteq Int
      /\ \A m, n \in Unsigned(s) \union Negative(s) : m = n
  <2> HIDE DEF s
  <2> QED BY ReadsOnce
<1>2. Reads(t, comparison) \subseteq Unsigned(s) \union Negative(s)
  BY DEF Reads, parse_u128_json, parse_i128_json
<1> HIDE DEF s
<1> QED
  BY <1>1, <1>2

InOrder(s, t, comparison) == \E m \in Reads(s, comparison), n \in Reads(t, comparison) : m <= n

\* The outcome of a numeric comparison, branch by branch, against the definition:
\* an unreadable bound leaves no pair of numbers that are in order.
LEMMA NumericMeansRange ==
  ASSUME NEW actual, NEW min, NEW max, NEW comparison
  PROVE  NumericOutcome(actual, min, max, comparison) = "InRange" <=>
           /\ Reads(actual, comparison) # {}
           /\ min # Absent => InOrder(min, actual, comparison)
           /\ max # Absent => InOrder(actual, max, comparison)
<1> DEFINE R(t) == Reads(t, comparison)
           Below(b) == b # Absent /\ \E n \in R(actual), m \in R(b) : n < m
           Above(b) == b # Absent /\ \E n \in R(actual), m \in R(b) : n > m
           Unread(b) == b # Absent /\ R(b) = {}
<1>1. NumericOutcome(actual, min, max, comparison) = "InRange" <=>
        /\ R(actual) # {} /\ ~Unread(min) /\ ~Below(min)
        /\ ~Unread(max) /\ ~Above(max)
  BY DEF NumericOutcome
<1>2. /\ R(actual) \subseteq Int /\ \A m, n \in R(actual) : m = n
      /\ min # Absent => R(min) \subseteq Int /\ \A m, n \in R(min) : m = n
      /\ max # Absent => R(max) \subseteq Int /\ \A m, n \in R(max) : m = n
  BY ReadsFacts
<1> HIDE DEF R
<1>3. ASSUME NEW a \in R(actual)
      PROVE  /\ min # Absent => (~Unread(min) /\ ~Below(min)
                                 <=> \E m \in R(min), n \in R(actual) : m <= n)
             /\ max # Absent => (~Unread(max) /\ ~Above(max)
                                 <=> \E m \in R(actual), n \in R(max) : m <= n)
  BY <1>2
<1>4. min = Absent => ~Unread(min) /\ ~Below(min)
  OBVIOUS
<1>5. max = Absent => ~Unread(max) /\ ~Above(max)
  OBVIOUS
<1> QED
  BY <1>1, <1>3, <1>4, <1>5 DEF R, InOrder

\* What a gate evaluation answered stays its answer.
GateInv ==
  request \in GateRequests /\ answer # Absent =>
    answer = [outcome |-> evaluate_pre_gate(request.actual, request.min, request.max,
                                            request.comparison)]

LEMMA GateInductive == GateInv /\ [ValuesNext]_valueVars => GateInv'
<1> SUFFICES ASSUME GateInv, [ValuesNext]_valueVars PROVE GateInv'
  OBVIOUS
<1>1. CASE EvaluateGate
  BY <1>1 DEF EvaluateGate, GateInv
<1>2. CASE Materialize
  BY <1>2, RequestsAssumption DEF Materialize, GateInv
<1>3. CASE \E bps \in Bps : TakeShare(bps)
  <2>1. UNCHANGED <<request, answer>>
    BY <1>3 DEF TakeShare
  <2> QED
    BY <2>1 DEF GateInv
<1>4. CASE UNCHANGED valueVars
  BY <1>4 DEF valueVars, GateInv
<1> QED
  BY <1>1, <1>2, <1>3, <1>4 DEF ValuesNext

LEMMA GateInvGivesRange == GateInv => GateMeansRange
<1> SUFFICES ASSUME GateInv, request \in GateRequests, answer # Absent
             PROVE  GateMeansRange
  BY DEF GateMeansRange
<1>1. answer.outcome = evaluate_pre_gate(request.actual, request.min, request.max,
                                         request.comparison)
  BY DEF GateInv
<1>2. CASE request.comparison = "LexBytes"
  <2>1. answer.outcome = LexOutcome(request.actual, request.min, request.max)
    BY <1>1, <1>2 DEF evaluate_pre_gate
  <2>2. answer.outcome = "InRange" <=>
          /\ request.min # Absent => ~LexLess(request.actual, request.min)
          /\ request.max # Absent => ~LexLess(request.max, request.actual)
    BY <2>1 DEF LexOutcome
  <2> QED
    BY <1>2, <2>2 DEF GateMeansRange, Within
<1>3. CASE request.comparison # "LexBytes"
  <2>2. answer.outcome
          = NumericOutcome(request.actual, request.min, request.max, request.comparison)
    BY <1>1, <1>3 DEF evaluate_pre_gate
  <2>3. answer.outcome = "InRange" <=>
          /\ Reads(request.actual, request.comparison) # {}
          /\ request.min # Absent => InOrder(request.min, request.actual, request.comparison)
          /\ request.max # Absent => InOrder(request.actual, request.max, request.comparison)
    BY <2>2, NumericMeansRange
  <2> QED
    BY <1>3, <2>3, Zenon DEF GateMeansRange, Within, InOrder
<1> QED
  BY <1>2, <1>3

\* A gate answers InRange exactly when the answer and the bounds given are all
\* readable and both bounds hold: evaluate_pre_gate keeps its doc comment, for
\* every width and every quoting, padding, sign and size of the numbers.
THEOREM GateSafe == ValuesSpec => []GateMeansRange
<1>1. ValuesInit => GateInv
  BY DEF ValuesInit, GateInv
<1>2. GateInv /\ [ValuesNext]_valueVars => GateInv'
  BY GateInductive
<1>3. GateInv => GateMeansRange
  BY GateInvGivesRange
<1> QED
  BY <1>1, <1>2, <1>3, PTL DEF ValuesSpec

----------------------------------------------------------------------------
(* Putting sequences together: FlattenSeq of the community modules, whose  *)
(* recursion is over the number of sequences.                              *)

\* whole[k] is the first k of the sequences, put together.
Flattens(seqs, whole) ==
  /\ whole[0] = <<>>
  /\ \A k \in 1..Len(seqs) : whole[k] = whole[k - 1] \o seqs[k]

\* f is the recursive function that FlattenSeq defines.
Flattening(seqs, m, f) ==
  f = [i \in 1..m |-> IF i = 1 THEN seqs[i] ELSE f[i - 1] \o seqs[i]]

LEMMA FlatteningExists ==
  ASSUME NEW seqs, NEW n \in Nat
  PROVE  \E f : Flattening(seqs, n, f)
<1> DEFINE Good == {m \in Nat : \E f : Flattening(seqs, m, f)}
<1>1. 0 \in Good
  <2>1. Flattening(seqs, 0, [i \in 1..0 |-> seqs])
    BY DEF Flattening
  <2> QED BY <2>1
<1>2. ASSUME NEW k \in 1..n, k - 1 \in Good PROVE k \in Good
  <2>1. PICK f : Flattening(seqs, k - 1, f)
    BY <1>2
  <2> DEFINE g == [i \in 1..k |-> IF i = 1 THEN seqs[i] ELSE f[i - 1] \o seqs[i]]
  <2>2. ASSUME NEW i \in 1..(k - 1) PROVE g[i] = f[i]
    <3>1. f[i] = IF i = 1 THEN seqs[i] ELSE f[i - 1] \o seqs[i]
      BY <2>1 DEF Flattening
    <3>2. i \in 1..k
      OBVIOUS
    <3> QED BY <3>1, <3>2
  <2>3. Flattening(seqs, k, g)
    <3>1. \A i \in 1..k : i # 1 => i - 1 \in 1..(k - 1)
      OBVIOUS
    <3>2. \A i \in 1..k : i # 1 => f[i - 1] = g[i - 1]
      BY <2>2, <3>1
    <3> HIDE DEF g
    <3>3. g = [i \in 1..k |-> IF i = 1 THEN seqs[i] ELSE g[i - 1] \o seqs[i]]
      BY <3>2 DEF g
    <3> QED BY <3>3 DEF Flattening
  <2> QED BY <2>3
<1> HIDE DEF Good
<1>3. \A k \in 0..n : k \in Good
  BY <1>1, <1>2, CountingUp
<1> QED BY <1>3 DEF Good

LEMMA FlattenFacts ==
  ASSUME NEW X, NEW seqs \in Seq(Seq(X))
  PROVE  /\ FlattenSeq(seqs) \in Seq(X)
         /\ \E whole : /\ Flattens(seqs, whole) /\ FlattenSeq(seqs) = whole[Len(seqs)]
                       /\ \A k \in 0..Len(seqs) : whole[k] \in Seq(X)
<1> DEFINE n == Len(seqs)
<1>1. n \in Nat /\ DOMAIN seqs = 1..n /\ \A i \in 1..n : seqs[i] \in Seq(X)
  BY LenProperties, ElementOfSeq
<1>2. ASSUME NEW whole, Flattens(seqs, whole)
      PROVE  \A k \in 0..n : whole[k] \in Seq(X)
  <2> DEFINE Good == {k \in 0..n : whole[k] \in Seq(X)}
  <2>1. 0 \in Good
    <3>1. whole[0] = <<>>
      BY <1>2 DEF Flattens
    <3>2. <<>> \in Seq(X) /\ 0 \in 0..n
      BY <1>1
    <3> QED BY <3>1, <3>2
  <2>2. ASSUME NEW k \in 1..n, k - 1 \in Good PROVE k \in Good
    <3>1. whole[k] = whole[k - 1] \o seqs[k] /\ whole[k - 1] \in Seq(X) /\ seqs[k] \in Seq(X)
      BY <1>1, <1>2, <2>2 DEF Flattens
    <3>2. whole[k] \in Seq(X)
      BY ONLY <3>1, ConcatProperties
    <3> QED BY <1>1, <3>2
  <2> HIDE DEF Good, n
  <2>3. \A k \in 0..n : k \in Good
    BY <1>1, <2>1, <2>2, CountingUp
  <2> QED BY <2>3 DEF Good
<1>3. \E whole : Flattens(seqs, whole) /\ FlattenSeq(seqs) = whole[n]
  <2>1. CASE n = 0
    <3>1. seqs = <<>> /\ FlattenSeq(seqs) = <<>>
      BY <2>1, EmptySeq DEF FlattenSeq
    <3> DEFINE none == [k \in 0..n |-> <<>>]
    <3>2. Flattens(seqs, none) /\ none[n] = <<>>
      BY <2>1 DEF Flattens
    <3> QED BY <3>1, <3>2
  <2>2. CASE n # 0
    <3> DEFINE flatten == CHOOSE f : Flattening(seqs, n, f)
    <3>1. FlattenSeq(seqs) = flatten[n]
      BY <2>2 DEF FlattenSeq, Flattening
    <3>2. Flattening(seqs, n, flatten)
      BY <1>1, FlatteningExists
    <3> HIDE DEF flatten
    <3> DEFINE whole == [k \in 0..n |-> IF k = 0 THEN <<>> ELSE flatten[k]]
    <3>3. ASSUME NEW k \in 1..n PROVE whole[k] = whole[k - 1] \o seqs[k]
      <4>1. flatten[k] = IF k = 1 THEN seqs[k] ELSE flatten[k - 1] \o seqs[k]
        BY <3>2 DEF Flattening
      <4>2. CASE k = 1
        <5>1. whole[k] = seqs[k] /\ whole[k - 1] = <<>>
          BY <1>1, <4>1, <4>2
        <5> QED BY <1>1, <5>1, ConcatEmptySeq
      <4>3. CASE k # 1
        <5>1. k \in 0..n /\ k # 0 /\ k - 1 \in 0..n /\ k - 1 # 0
          BY <1>1, <4>3
        <5> QED BY <4>1, <4>3, <5>1
      <4> QED BY <4>2, <4>3
    <3>4. Flattens(seqs, whole)
      <4>1. whole[0] = <<>>
        BY <1>1
      <4> HIDE DEF whole
      <4> QED BY <3>3, <4>1 DEF Flattens
    <3>5. FlattenSeq(seqs) = whole[n]
      BY <1>1, <2>2, <3>1
    <3> QED BY <3>4, <3>5
  <2> QED BY <2>1, <2>2
<1> HIDE DEF n
<1>4. PICK whole : Flattens(seqs, whole) /\ FlattenSeq(seqs) = whole[n]
  BY <1>3
<1>5. \A k \in 0..n : whole[k] \in Seq(X)
  BY <1>2, <1>4
<1>6. FlattenSeq(seqs) \in Seq(X)
  BY <1>1, <1>4, <1>5
<1> QED BY <1>4, <1>5, <1>6 DEF n


LEMMA FlattenNone == FlattenSeq(<<>>) = <<>>
BY DEF FlattenSeq

LEMMA FlattenConcat ==
  ASSUME NEW X, NEW a \in Seq(Seq(X)), NEW b \in Seq(Seq(X))
  PROVE  FlattenSeq(a \o b) = FlattenSeq(a) \o FlattenSeq(b)
<1> DEFINE n == Len(a)
           m == Len(b)
           ab == a \o b
<1>0. ASSUME NEW s \in Seq(X), NEW t \in Seq(X), NEW u \in Seq(X)
      PROVE  (s \o t) \o u = s \o (t \o u)
  BY ConcatAssociative
<1>1. n \in Nat /\ m \in Nat /\ \A i \in 1..m : b[i] \in Seq(X)
  BY LenProperties, ElementOfSeq
<1>2. /\ ab \in Seq(Seq(X)) /\ Len(ab) = n + m
      /\ \A i \in 1..n : ab[i] = a[i]
      /\ \A i \in 1..m : ab[n + i] = b[i]
  <2>1. /\ ab \in Seq(Seq(X)) /\ Len(ab) = n + m
        /\ \A i \in 1..(n + m) : ab[i] = IF i <= n THEN a[i] ELSE b[i - n]
    BY ConcatProperties
  <2>2. \A i \in 1..n : i \in 1..(n + m) /\ i <= n
    BY <1>1
  <2>3. \A i \in 1..m : n + i \in 1..(n + m) /\ ~(n + i <= n) /\ (n + i) - n = i
    BY <1>1
  <2> HIDE DEF ab, n, m
  <2> QED BY <2>1, <2>2, <2>3
<1> HIDE DEF n, m, ab
<1>3. PICK wa : /\ Flattens(a, wa) /\ FlattenSeq(a) = wa[n]
                /\ \A k \in 0..n : wa[k] \in Seq(X)
  BY FlattenFacts DEF n
<1>4. PICK wb : /\ Flattens(b, wb) /\ FlattenSeq(b) = wb[m]
                /\ \A k \in 0..m : wb[k] \in Seq(X)
  BY FlattenFacts DEF m
<1>5. PICK w : /\ Flattens(ab, w) /\ FlattenSeq(ab) = w[n + m]
  <2>1. ab \in Seq(Seq(X))
    BY <1>2
  <2>2. \E w : Flattens(ab, w) /\ FlattenSeq(ab) = w[Len(ab)]
    BY <2>1, FlattenFacts
  <2> QED BY <1>2, <2>2
<1>6. w[n] = wa[n]
  <2> DEFINE Good == {k \in 0..n : w[k] = wa[k]}
  <2>1. 0 \in Good
    BY <1>1, <1>3, <1>5 DEF Flattens
  <2>2. ASSUME NEW k \in 1..n, k - 1 \in Good PROVE k \in Good
    <3>1. w[k] = w[k - 1] \o ab[k]
      <4>1. k \in 1..Len(ab)
        BY <1>1, <1>2
      <4> QED BY <1>5, <4>1 DEF Flattens
    <3>2. wa[k] = wa[k - 1] \o a[k]
      BY <1>3 DEF Flattens, n
    <3>3. w[k - 1] = wa[k - 1] /\ ab[k] = a[k]
      BY <1>2, <2>2
    <3>4. w[k] = wa[k] /\ k \in 0..n
      BY <3>1, <3>2, <3>3
    <3> QED BY ONLY <3>4
  <2> HIDE DEF Good
  <2>3. \A k \in 0..n : k \in Good
    BY <1>1, <2>1, <2>2, CountingUp
  <2> QED BY <1>1, <2>3 DEF Good
<1>7. wa[n] \in Seq(X)
  BY <1>1, <1>3
<1>8. w[n + m] = wa[n] \o wb[m]
  <2> DEFINE Good == {k \in 0..m : w[n + k] = wa[n] \o wb[k]}
  <2>1. 0 \in Good
    <3>1. wb[0] = <<>>
      BY <1>4 DEF Flattens
    <3>2. wa[n] \o wb[0] = wa[n]
      BY <1>7, <3>1, ConcatEmptySeq
    <3>3. n + 0 = n /\ 0 \in 0..m
      BY <1>1
    <3>4. w[n + 0] = wa[n] \o wb[0]
      BY <1>6, <3>2, <3>3
    <3> QED BY ONLY <3>3, <3>4
  <2>2. ASSUME NEW k \in 1..m, k - 1 \in Good PROVE k \in Good
    <3>1. w[n + k] = w[(n + k) - 1] \o ab[n + k]
      <4>1. n + k \in 1..Len(ab)
        BY <1>1, <1>2
      <4> QED BY <1>5, <4>1 DEF Flattens
    <3>2. wb[k] = wb[k - 1] \o b[k]
      BY <1>4 DEF Flattens, m
    <3>3. w[n + (k - 1)] = wa[n] \o wb[k - 1] /\ n + (k - 1) = (n + k) - 1
      <4>1. w[n + (k - 1)] = wa[n] \o wb[k - 1]
        BY ONLY <2>2
      <4>2. n + (k - 1) = (n + k) - 1
        BY <1>1
      <4> QED BY <4>1, <4>2
    <3>4. ab[n + k] = b[k] /\ b[k] \in Seq(X) /\ wb[k - 1] \in Seq(X)
      BY <1>1, <1>2, <1>4
    <3>5. (wa[n] \o wb[k - 1]) \o b[k] = wa[n] \o (wb[k - 1] \o b[k])
      <4>1. b[k] \in Seq(X)
        BY <3>4
      <4>2. wb[k - 1] \in Seq(X)
        BY <3>4
      <4> QED BY ONLY <1>0, <1>7, <4>1, <4>2
    <3>6. w[n + k] = wa[n] \o wb[k] /\ k \in 0..m
      <4>1. w[(n + k) - 1] = wa[n] \o wb[k - 1]
        BY ONLY <3>3
      <4>2. w[n + k] = (wa[n] \o wb[k - 1]) \o b[k]
        BY <3>1, <3>4, <4>1
      <4>3. wa[n] \o wb[k] = wa[n] \o (wb[k - 1] \o b[k])
        BY <3>2
      <4>4. k \in 0..m
        OBVIOUS
      <4> QED BY ONLY <3>5, <4>2, <4>3, <4>4
    <3> QED BY ONLY <3>6
  <2> HIDE DEF Good
  <2>3. \A k \in 0..m : k \in Good
    BY <1>1, <2>1, <2>2, CountingUp
  <2>4. m \in Good
    BY <1>1, <2>3
  <2> QED BY ONLY <2>4 DEF Good
<1> QED BY <1>3, <1>4, <1>5, <1>8 DEF ab

\* What a sequence holds.
Has(s, x) == \E j \in DOMAIN s : s[j] = x

LEMMA HasConcat ==
  ASSUME NEW X, NEW s \in Seq(X), NEW t \in Seq(X), NEW x
  PROVE  Has(s \o t, x) <=> Has(s, x) \/ Has(t, x)
<1>1. /\ DOMAIN s = 1..Len(s) /\ DOMAIN t = 1..Len(t) /\ Len(s) \in Nat /\ Len(t) \in Nat
  BY LenProperties
<1>2. /\ s \o t \in Seq(X) /\ Len(s \o t) = Len(s) + Len(t)
      /\ \A i \in 1..(Len(s) + Len(t)) :
           (s \o t)[i] = IF i <= Len(s) THEN s[i] ELSE t[i - Len(s)]
  BY ConcatProperties
<1>3. DOMAIN (s \o t) = 1..(Len(s) + Len(t))
  BY <1>2, LenProperties
<1>4. ASSUME Has(s \o t, x) PROVE Has(s, x) \/ Has(t, x)
  BY <1>1, <1>2, <1>3, <1>4 DEF Has
<1>5. ASSUME Has(s, x) PROVE Has(s \o t, x)
  BY <1>1, <1>2, <1>3, <1>5 DEF Has
<1>6. ASSUME Has(t, x) PROVE Has(s \o t, x)
  <2>1. PICK j \in 1..Len(t) : t[j] = x
    BY <1>1, <1>6 DEF Has
  <2>2. Len(s) + j \in 1..(Len(s) + Len(t)) /\ (Len(s) + j) - Len(s) = j
        /\ ~(Len(s) + j <= Len(s))
    BY <1>1
  <2>3. (s \o t)[Len(s) + j] = x
    BY <1>2, <2>1, <2>2
  <2> QED BY <1>3, <2>2, <2>3 DEF Has
<1> QED BY <1>4, <1>5, <1>6

LEMMA FlattenHas ==
  ASSUME NEW X, NEW seqs \in Seq(Seq(X)), NEW x
  PROVE  Has(FlattenSeq(seqs), x) <=> \E i \in DOMAIN seqs : Has(seqs[i], x)
<1> DEFINE n == Len(seqs)
<1>1. n \in Nat /\ DOMAIN seqs = 1..n /\ \A i \in 1..n : seqs[i] \in Seq(X)
  BY LenProperties, ElementOfSeq
<1>2. PICK whole : /\ Flattens(seqs, whole) /\ FlattenSeq(seqs) = whole[n]
                   /\ \A k \in 0..n : whole[k] \in Seq(X)
  BY FlattenFacts
<1> HIDE DEF n
<1> DEFINE Good == {k \in 0..n : Has(whole[k], x) <=> \E i \in 1..k : Has(seqs[i], x)}
<1>3. 0 \in Good
  <2>1. whole[0] = <<>>
    BY <1>2 DEF Flattens
  <2>2. ~Has(whole[0], x)
    BY <2>1 DEF Has
  <2> QED BY <1>1, <2>2
<1>4. ASSUME NEW k \in 1..n, k - 1 \in Good PROVE k \in Good
  <2>1. whole[k] = whole[k - 1] \o seqs[k] /\ whole[k - 1] \in Seq(X) /\ seqs[k] \in Seq(X)
    <3>1. whole[k] = whole[k - 1] \o seqs[k]
      BY <1>2 DEF Flattens, n
    <3>2. k - 1 \in 0..n
      BY <1>1
    <3> QED BY <1>1, <1>2, <3>1, <3>2
  <2>2. Has(whole[k], x) <=> Has(whole[k - 1], x) \/ Has(seqs[k], x)
    BY <2>1, HasConcat
  <2>3. Has(whole[k - 1], x) <=> \E i \in 1..(k - 1) : Has(seqs[i], x)
    BY <1>4
  <2>4. 1..k = 1..(k - 1) \union {k}
    BY <1>1
  <2>5. Has(whole[k], x) <=> \E i \in 1..k : Has(seqs[i], x)
    BY <2>2, <2>3, <2>4
  <2> QED BY <1>1, <2>5
<1> HIDE DEF Good
<1>5. \A k \in 0..n : k \in Good
  BY <1>1, <1>3, <1>4, CountingUp
<1> QED BY <1>1, <1>2, <1>5 DEF Good

\* Putting the elements of a sequence together one by one.
LEMMA FlattenSingles ==
  ASSUME NEW X, NEW s \in Seq(X)
  PROVE  FlattenSeq([i \in DOMAIN s |-> <<s[i]>>]) = s
<1> DEFINE n == Len(s)
           ones == [i \in DOMAIN s |-> <<s[i]>>]
<1>1. n \in Nat /\ DOMAIN s = 1..n /\ \A i \in 1..n : s[i] \in X
  BY LenProperties, ElementOfSeq
<1>2. ones \in Seq(Seq(X)) /\ Len(ones) = n /\ \A i \in 1..n : ones[i] = <<s[i]>>
  BY <1>1
<1> HIDE DEF n, ones
<1>3. PICK whole : Flattens(ones, whole) /\ FlattenSeq(ones) = whole[n]
  BY <1>2, FlattenFacts
<1> DEFINE Good == {k \in 0..n : whole[k] = SubSeq(s, 1, k)}
<1>4. 0 \in Good
  <2>1. whole[0] = <<>> /\ SubSeq(s, 1, 0) = <<>> /\ 0 \in 0..n
    BY <1>1, <1>3, SubSeqEmpty DEF Flattens
  <2> QED BY ONLY <2>1
<1>5. ASSUME NEW k \in 1..n, k - 1 \in Good PROVE k \in Good
  <2>1. whole[k] = whole[k - 1] \o <<s[k]>>
    BY <1>2, <1>3 DEF Flattens
  <2>2. whole[k - 1] = SubSeq(s, 1, k - 1)
    BY <1>5
  <2>3. SubSeq(s, 1, k) = SubSeq(s, 1, k - 1) \o <<s[k]>>
    BY <1>1, SubSeqRecursiveSecond DEF n
  <2> QED BY <1>1, <2>1, <2>2, <2>3
<1> HIDE DEF Good
<1>6. \A k \in 0..n : k \in Good
  BY <1>1, <1>4, <1>5, CountingUp
<1>7. whole[n] = SubSeq(s, 1, n)
  BY <1>1, <1>6 DEF Good
<1> QED BY <1>3, <1>7, SubSeqFull DEF n, ones

----------------------------------------------------------------------------
(* Placeholders in a string.  A word is written as placeholders are: quotes*)
(* at both ends and nowhere else, a dollar after the first.  A string put  *)
(* together of words and of blocks without a dollar holds a word where one *)
(* of the blocks is that word, and nowhere else.                           *)

IsWord(w) ==
  /\ w \in Document /\ Len(w) >= 3 /\ w[1] = Quote /\ w[2] = Dollar /\ w[Len(w)] = Quote
  /\ \A k \in 2..(Len(w) - 1) : w[k] # Quote

Bare(b) == \A i \in DOMAIN b : b[i] # Dollar
IsBlock(b) == b \in Document /\ (Bare(b) \/ IsWord(b))

\* w stands in s at i.
Stands(s, w, i) == \A k \in 1..Len(w) : s[i + k - 1] = w[k]

LEMMA WordStands ==
  ASSUME NEW s, NEW w, IsWord(w), NEW i \in Int
  PROVE  /\ Len(w) \in Nat /\ DOMAIN w = 1..Len(w)
         /\ Stands(s, w, i) => s[i] = Quote /\ s[i + 1] = Dollar
<1>1. w \in Document /\ Len(w) >= 3 /\ w[1] = Quote /\ w[2] = Dollar
  BY DEF IsWord
<1>2. Len(w) \in Nat /\ DOMAIN w = 1..Len(w)
  BY <1>1, LenProperties DEF Document
<1>3. 1 \in 1..Len(w) /\ 2 \in 1..Len(w) /\ i + 1 - 1 = i /\ i + 2 - 1 = i + 1
  BY <1>1, <1>2
<1>4. ASSUME Stands(s, w, i) PROVE s[i] = Quote /\ s[i + 1] = Dollar
  BY <1>1, <1>3, <1>4 DEF Stands
<1> QED BY <1>2, <1>4

\* Two words that stand at one place are the same.
LEMMA TwoWords ==
  ASSUME NEW s, NEW v, NEW w, IsWord(v), IsWord(w), NEW i \in Int,
         Stands(s, v, i), Stands(s, w, i)
  PROVE  v = w
<1>1. ASSUME NEW p, NEW q, IsWord(p), IsWord(q), Stands(s, p, i), Stands(s, q, i)
      PROVE  ~(Len(p) < Len(q))
  <2> SUFFICES ASSUME Len(p) < Len(q) PROVE FALSE
    OBVIOUS
  <2>1. /\ Len(p) \in Nat /\ Len(q) \in Nat /\ Len(p) >= 3 /\ p[Len(p)] = Quote
        /\ \A k \in 2..(Len(q) - 1) : q[k] # Quote
    BY <1>1, LenProperties DEF IsWord, Document
  <2>2. Len(p) \in 2..(Len(q) - 1) /\ Len(p) \in 1..Len(p) /\ Len(p) \in 1..Len(q)
    BY <2>1
  <2>3. p[Len(p)] = q[Len(p)]
    BY <1>1, <2>2 DEF Stands
  <2> QED BY <2>1, <2>2, <2>3
<1>2. Len(v) \in Nat /\ Len(w) \in Nat /\ v \in Seq(Char) /\ w \in Seq(Char)
  BY LenProperties DEF IsWord, Document
<1>3. Len(v) = Len(w)
  BY <1>1, <1>2
<1>4. \A k \in 1..Len(v) : v[k] = w[k]
  BY <1>3 DEF Stands
<1> QED BY <1>2, <1>3, <1>4, SeqEqual

\* Wherever a dollar follows a quote, a whole word stands.
Tidy(s) ==
  \A i \in 1..(Len(s) - 1) : s[i] = Quote /\ s[i + 1] = Dollar =>
    \E v : IsWord(v) /\ i + Len(v) - 1 <= Len(s) /\ Stands(s, v, i)

LEMMA StartsFacts ==
  ASSUME NEW s \in Document, NEW w, IsWord(w), NEW i
  PROVE  i \in Starts(s, w) <=> /\ i \in 1..Len(s) /\ i + Len(w) - 1 <= Len(s)
                                /\ Stands(s, w, i)
<1>1. DOMAIN s = 1..Len(s)
  BY LenProperties DEF Document
<1>2. DOMAIN w = 1..Len(w)
  BY LenProperties DEF IsWord, Document
<1> QED BY <1>1, <1>2 DEF Starts, Stands

\* Putting one more block at the end.
LEMMA ConcatFacts ==
  ASSUME NEW s \in Document, NEW b \in Document
  PROVE  /\ Len(s) \in Nat /\ Len(b) \in Nat /\ s \o b \in Document
         /\ DOMAIN s = 1..Len(s) /\ DOMAIN b = 1..Len(b)
         /\ Len(s \o b) = Len(s) + Len(b) /\ DOMAIN (s \o b) = 1..(Len(s) + Len(b))
         /\ \A i \in 1..Len(s) : (s \o b)[i] = s[i]
         /\ \A i \in 1..Len(b) : (s \o b)[Len(s) + i] = b[i]
<1>1. Len(s) \in Nat /\ Len(b) \in Nat /\ DOMAIN s = 1..Len(s) /\ DOMAIN b = 1..Len(b)
  BY LenProperties DEF Document
<1>2. /\ s \o b \in Document /\ Len(s \o b) = Len(s) + Len(b)
      /\ \A i \in 1..(Len(s) + Len(b)) :
           (s \o b)[i] = IF i <= Len(s) THEN s[i] ELSE b[i - Len(s)]
  BY ConcatProperties DEF Document
<1>3. DOMAIN (s \o b) = 1..(Len(s) + Len(b))
  BY <1>2, LenProperties DEF Document
<1>4. \A i \in 1..Len(s) : i \in 1..(Len(s) + Len(b)) /\ i <= Len(s)
  BY <1>1
<1>5. \A i \in 1..Len(b) : /\ Len(s) + i \in 1..(Len(s) + Len(b)) /\ ~(Len(s) + i <= Len(s))
                           /\ (Len(s) + i) - Len(s) = i
  BY <1>1
<1> QED BY <1>1, <1>2, <1>3, <1>4, <1>5

\* A quote with a dollar behind it was there before, or opens the new block.
LEMMA OpensWhere ==
  ASSUME NEW s \in Document, NEW b, IsBlock(b), NEW i \in 1..(Len(s) + Len(b) - 1),
         (s \o b)[i] = Quote, (s \o b)[i + 1] = Dollar
  PROVE  \/ i \in 1..(Len(s) - 1) /\ s[i] = Quote /\ s[i + 1] = Dollar
         \/ i = Len(s) + 1 /\ IsWord(b)
<1> DEFINE n == Len(s)
           m == Len(b)
<1>1. /\ n \in Nat /\ m \in Nat /\ DOMAIN b = 1..m
      /\ \A k \in 1..n : (s \o b)[k] = s[k]
      /\ \A k \in 1..m : (s \o b)[n + k] = b[k]
  BY ConcatFacts DEF IsBlock
<1> HIDE DEF n, m
<1>2. CASE i + 1 <= n
  <2>1. i \in 1..n /\ i + 1 \in 1..n /\ i \in 1..(n - 1)
    BY <1>1, <1>2
  <2> QED BY <1>1, <2>1 DEF n
<1>3. CASE i = n
  <2>1. 1 \in 1..m
    BY <1>1, <1>3 DEF n, m
  <2>2. b[1] = Dollar
    BY <1>1, <1>3, <2>1
  <2>3. ~Bare(b) /\ ~IsWord(b)
    BY <1>1, <2>1, <2>2, MarksDiffer DEF Bare, IsWord
  <2> QED BY <2>3 DEF IsBlock
<1>4. CASE i > n
  <2>1. PICK j \in 1..m : i = n + j /\ j + 1 \in 1..m
    <3>1. i - n \in 1..m /\ i = n + (i - n) /\ (i - n) + 1 \in 1..m
      BY <1>1, <1>4 DEF n, m
    <3> QED BY <3>1
  <2>2. b[j] = Quote
    BY <1>1, <2>1
  <2>3. b[j + 1] = Dollar
    <3>1. i + 1 = n + (j + 1)
      BY <1>1, <2>1
    <3> QED BY <1>1, <2>1, <3>1
  <2>4. IsWord(b)
    BY <1>1, <2>1, <2>3 DEF IsBlock, Bare
  <2>5. j = 1
    <3>1. j \notin 2..(m - 1)
      BY <2>2, <2>4 DEF IsWord, m
    <3> QED BY <1>1, <2>1, <3>1
  <2> QED BY <2>1, <2>4, <2>5 DEF n
<1> QED BY <1>1, <1>2, <1>3, <1>4

LEMMA StandsConcat ==
  ASSUME NEW s \in Document, NEW b \in Document, NEW v, IsWord(v)
  PROVE  /\ \A i \in 1..Len(s) : i + Len(v) - 1 <= Len(s) =>
              (Stands(s \o b, v, i) <=> Stands(s, v, i))
         /\ IsWord(b) => Stands(s \o b, b, Len(s) + 1)
<1> DEFINE n == Len(s)
<1>1. /\ n \in Nat /\ Len(b) \in Nat /\ \A k \in 1..n : (s \o b)[k] = s[k]
      /\ \A k \in 1..Len(b) : (s \o b)[n + k] = b[k]
  BY ConcatFacts
<1>2. Len(v) \in Nat
  BY LenProperties DEF IsWord, Document
<1> HIDE DEF n
<1>3. ASSUME NEW i \in 1..n, i + Len(v) - 1 <= n
      PROVE  Stands(s \o b, v, i) <=> Stands(s, v, i)
  <2>1. \A k \in 1..Len(v) : i + k - 1 \in 1..n
    BY <1>1, <1>2, <1>3
  <2> QED BY <1>1, <2>1 DEF Stands
<1>4. Stands(s \o b, b, n + 1)
  <2>1. \A k \in 1..Len(b) : (n + 1) + k - 1 = n + k
    BY <1>1
  <2> QED BY <1>1, <2>1 DEF Stands
<1> QED BY <1>3, <1>4 DEF n

LEMMA TidyConcat ==
  ASSUME NEW s \in Document, Tidy(s), NEW b, IsBlock(b)
  PROVE  Tidy(s \o b)
<1> DEFINE n == Len(s)
           whole == s \o b
<1>0. b \in Document
  BY DEF IsBlock
<1>1. n \in Nat /\ Len(b) \in Nat /\ Len(whole) = n + Len(b)
  BY <1>0, ConcatFacts
<1>2. ASSUME NEW i \in 1..(Len(whole) - 1), whole[i] = Quote, whole[i + 1] = Dollar
      PROVE  \E v : IsWord(v) /\ i + Len(v) - 1 <= Len(whole) /\ Stands(whole, v, i)
  <2>1. \/ i \in 1..(n - 1) /\ s[i] = Quote /\ s[i + 1] = Dollar
        \/ i = n + 1 /\ IsWord(b)
    <3>1. i \in 1..(Len(s) + Len(b) - 1)
      BY <1>1
    <3> QED BY <1>2, <3>1, OpensWhere
  <2>2. CASE i \in 1..(n - 1) /\ s[i] = Quote /\ s[i + 1] = Dollar
    <3>1. PICK v : IsWord(v) /\ i + Len(v) - 1 <= n /\ Stands(s, v, i)
      BY <2>2 DEF Tidy
    <3>2. Len(v) \in Nat /\ i \in 1..n
      BY <1>1, <2>2, <3>1, LenProperties DEF IsWord, Document
    <3>3. Stands(whole, v, i)
      BY <1>0, <3>1, <3>2, StandsConcat
    <3>4. i + Len(v) - 1 <= Len(whole)
      BY <1>1, <3>1, <3>2
    <3> QED BY <3>1, <3>3, <3>4
  <2>3. CASE i = n + 1 /\ IsWord(b)
    <3>1. Stands(whole, b, i)
      BY <1>0, <2>3, StandsConcat
    <3>2. i + Len(b) - 1 <= Len(whole)
      BY <1>1, <2>3
    <3> QED BY <2>3, <3>1, <3>2
  <2> QED BY <2>1, <2>2, <2>3
<1> HIDE DEF whole
<1>3. Tidy(whole)
  BY <1>2 DEF Tidy
<1> QED BY <1>3 DEF whole

LEMMA StartsConcat ==
  ASSUME NEW s \in Document, Tidy(s), NEW b, IsBlock(b), NEW w, IsWord(w)
  PROVE  Starts(s \o b, w) = Starts(s, w) \union (IF b = w THEN {Len(s) + 1} ELSE {})
<1> DEFINE n == Len(s)
           whole == s \o b
<1>0. b \in Document
  BY DEF IsBlock
<1>1. /\ n \in Nat /\ Len(b) \in Nat /\ Len(whole) = n + Len(b) /\ whole \in Document
      /\ Len(w) \in Nat /\ Len(w) >= 3
  BY <1>0, ConcatFacts, LenProperties DEF IsWord, Document
<1>2. ASSUME NEW i \in Starts(whole, w)
      PROVE  i \in Starts(s, w) \/ (b = w /\ i = n + 1)
  <2>1. i \in 1..Len(whole) /\ i + Len(w) - 1 <= Len(whole) /\ Stands(whole, w, i)
    BY <1>1, <1>2, StartsFacts
  <2>2. i \in 1..(n + Len(b) - 1)
    BY <1>1, <2>1
  <2>3. whole[i] = Quote /\ whole[i + 1] = Dollar
    <3>1. i \in Int
      BY <2>2
    <3> HIDE DEF whole
    <3> QED BY <2>1, <3>1, WordStands
  <2>4. \/ i \in 1..(n - 1) /\ s[i] = Quote /\ s[i + 1] = Dollar
        \/ i = n + 1 /\ IsWord(b)
    BY <2>2, <2>3, OpensWhere
  <2>5. CASE i \in 1..(n - 1) /\ s[i] = Quote /\ s[i + 1] = Dollar
    <3>1. PICK v : IsWord(v) /\ i + Len(v) - 1 <= n /\ Stands(s, v, i)
      BY <2>5 DEF Tidy
    <3>2. i \in 1..n
      BY <1>1, <2>5
    <3>3. Stands(whole, v, i)
      BY <1>0, <3>1, <3>2, StandsConcat
    <3>4. v = w
      BY <2>1, <3>1, <3>3, TwoWords
    <3> QED BY <3>1, <3>2, <3>4, StartsFacts
  <2>6. CASE i = n + 1 /\ IsWord(b)
    <3>1. Stands(whole, b, i)
      BY <1>0, <2>6, StandsConcat
    <3>2. b = w
      BY <2>1, <2>6, <3>1, TwoWords
    <3> QED BY <2>6, <3>2
  <2> QED BY <2>4, <2>5, <2>6
<1>3. ASSUME NEW i \in Starts(s, w) PROVE i \in Starts(whole, w)
  <2>1. i \in 1..n /\ i + Len(w) - 1 <= n /\ Stands(s, w, i)
    BY <1>3, StartsFacts
  <2>2. Stands(whole, w, i)
    BY <1>0, <2>1, StandsConcat
  <2>3. i \in 1..Len(whole) /\ i + Len(w) - 1 <= Len(whole)
    BY <1>1, <2>1
  <2> QED BY <1>1, <2>2, <2>3, StartsFacts
<1>4. ASSUME b = w PROVE n + 1 \in Starts(whole, w)
  <2>1. Stands(whole, w, n + 1)
    BY <1>0, <1>4, StandsConcat
  <2>2. n + 1 \in 1..Len(whole) /\ (n + 1) + Len(w) - 1 <= Len(whole)
    BY <1>1, <1>4
  <2> QED BY <1>1, <2>1, <2>2, StartsFacts
<1> HIDE DEF n, whole
<1>5. Starts(whole, w) = Starts(s, w) \union (IF b = w THEN {n + 1} ELSE {})
  BY <1>2, <1>3, <1>4
<1> QED BY <1>5 DEF n, whole

----------------------------------------------------------------------------
(* Replacing a word in such a string.                                      *)

\* No two of the places overlap.
Apart(places, len) == \A i, j \in places : j < i => j + len <= i

\* Then String::replace meets them all.
LEMMA MatchesAll ==
  ASSUME NEW s, NEW w, Apart(Starts(s, w), Len(w))
  PROVE  Matches(s, w) = Starts(s, w)
<1> DEFINE all == Starts(s, w)
           Found(found) == found = {i \in all : \A j \in found : j < i => j + Len(w) <= i}
<1>1. Matches(s, w) = CHOOSE found \in SUBSET all : Found(found)
  BY DEF Matches
<1>2. Apart(all, Len(w))
  OBVIOUS
<1> HIDE DEF all
<1>3. Found(all)
  BY <1>2 DEF Apart
<1>4. \A found \in SUBSET all : Found(found) => found = all
  BY <1>2 DEF Apart
<1> HIDE DEF Found
<1> QED BY <1>1, <1>3, <1>4 DEF all

\* What each character of a string becomes.
Cut(s, places, len, replacement) ==
  [i \in DOMAIN s |->
    IF i \in places THEN replacement
    ELSE IF \E j \in places : j < i /\ i < j + len THEN <<>> ELSE <<s[i]>>]

LEMMA CutFacts ==
  ASSUME NEW s \in Document, NEW places, NEW len, NEW replacement \in Document
  PROVE  /\ Cut(s, places, len, replacement) \in Seq(Document)
         /\ Len(Cut(s, places, len, replacement)) = Len(s)
<1>1. Len(s) \in Nat /\ DOMAIN s = 1..Len(s) /\ \A i \in 1..Len(s) : s[i] \in Char
  BY LenProperties, ElementOfSeq DEF Document
<1>2. <<>> \in Document /\ \A c \in Char : <<c>> \in Document
  BY DEF Document
<1>3. \A i \in 1..Len(s) :
        (IF i \in places THEN replacement
         ELSE IF \E j \in places : j < i /\ i < j + len THEN <<>> ELSE <<s[i]>>) \in Document
  BY <1>1, <1>2
<1> QED BY <1>1, <1>3 DEF Cut

LEMMA ReplacedIsCut ==
  ASSUME NEW s, NEW w, NEW replacement, Apart(Starts(s, w), Len(w))
  PROVE  Replaced(s, w, replacement) = FlattenSeq(Cut(s, Starts(s, w), Len(w), replacement))
BY MatchesAll DEF Replaced, Cut

LEMMA FlattenFirst ==
  ASSUME NEW X, NEW s \in Seq(X), NEW m \in Nat, m # 0
  PROVE  FlattenSeq([i \in 1..m |-> IF i = 1 THEN s ELSE <<>>]) = s
<1> DEFINE seqs == [i \in 1..m |-> IF i = 1 THEN s ELSE <<>>]
<1>1. seqs \in Seq(Seq(X)) /\ Len(seqs) = m
  OBVIOUS
<1>2. /\ \A i \in 1..m : seqs[i] = IF i = 1 THEN s ELSE <<>>
  OBVIOUS
<1> HIDE DEF seqs
<1>3. PICK whole : Flattens(seqs, whole) /\ FlattenSeq(seqs) = whole[m]
  BY <1>1, FlattenFacts
<1> DEFINE Good == {k \in 0..m : k = 0 \/ whole[k] = s}
<1>4. 0 \in Good
  OBVIOUS
<1>5. ASSUME NEW k \in 1..m, k - 1 \in Good PROVE k \in Good
  <2>1. whole[k] = whole[k - 1] \o seqs[k] /\ whole[0] = <<>>
    BY <1>1, <1>3 DEF Flattens
  <2>2. CASE k = 1
    <3>1. whole[k - 1] = <<>> /\ seqs[k] = s
      BY <1>2, <2>1, <2>2
    <3>2. <<>> \o s = s
      BY ConcatEmptySeq
    <3>3. whole[k] = s
      BY ONLY <2>1, <3>1, <3>2
    <3> QED BY <3>3
  <2>3. CASE k # 1
    <3>1. whole[k - 1] = s /\ seqs[k] = <<>>
      BY <1>2, <1>5, <2>3
    <3>2. whole[k] = s
      BY <2>1, <3>1, ConcatEmptySeq
    <3> QED BY <3>2
  <2> QED BY <2>2, <2>3
<1> HIDE DEF Good
<1>6. \A k \in 0..m : k \in Good
  BY <1>4, <1>5, CountingUp
<1>7. whole[m] = s
  BY <1>6 DEF Good
<1> QED BY <1>3, <1>7 DEF seqs

\* A string whose words are whole and do not overlap.
Scanned(s, w) == s \in Document /\ Tidy(s) /\ Apart(Starts(s, w), Len(w))

LEMMA ScannedConcat ==
  ASSUME NEW s, NEW w, IsWord(w), Scanned(s, w), NEW b, IsBlock(b)
  PROVE  Scanned(s \o b, w)
<1>1. s \in Document /\ Tidy(s) /\ b \in Document
  BY DEF Scanned, IsBlock
<1>2. s \o b \in Document /\ Tidy(s \o b)
  BY <1>1, ConcatFacts, TidyConcat
<1>3. Starts(s \o b, w) = Starts(s, w) \union (IF b = w THEN {Len(s) + 1} ELSE {})
  BY <1>1, StartsConcat
<1>4. /\ Len(s) \in Nat /\ Len(w) \in Nat
      /\ \A i \in Starts(s, w) : i \in 1..Len(s) /\ i + Len(w) - 1 <= Len(s)
  BY <1>1, LenProperties, StartsFacts DEF IsWord, Document
<1>5. Apart(Starts(s \o b, w), Len(w))
  <2> SUFFICES ASSUME NEW i \in Starts(s \o b, w), NEW j \in Starts(s \o b, w), j < i
               PROVE  j + Len(w) <= i
    BY DEF Apart
  <2>1. j \in Starts(s, w)
    BY <1>3, <1>4
  <2>2. CASE i \in Starts(s, w)
    BY <2>1, <2>2 DEF Scanned, Apart
  <2>3. CASE i = Len(s) + 1
    BY <1>4, <2>1, <2>3
  <2> QED BY <1>3, <2>2, <2>3
<1> QED BY <1>2, <1>5 DEF Scanned

LEMMA ReplacedConcat ==
  ASSUME NEW s, NEW w, IsWord(w), Scanned(s, w), NEW b, IsBlock(b), NEW rep \in Document
  PROVE  Replaced(s \o b, w, rep) = Replaced(s, w, rep) \o (IF b = w THEN rep ELSE b)
<1> DEFINE n == Len(s)
           m == Len(b)
           len == Len(w)
           old == Starts(s, w)
           new == Starts(s \o b, w)
           earlier == Cut(s, old, len, rep)
           later == IF b = w THEN [i \in 1..m |-> IF i = 1 THEN rep ELSE <<>>]
                             ELSE [i \in DOMAIN b |-> <<b[i]>>]
           both == Cut(s \o b, new, len, rep)
<1>1. s \in Document /\ Tidy(s) /\ b \in Document
  BY DEF Scanned, IsBlock
<1>2. /\ n \in Nat /\ m \in Nat /\ DOMAIN s = 1..n /\ DOMAIN b = 1..m
      /\ s \o b \in Document
      /\ Len(s \o b) = n + m /\ DOMAIN (s \o b) = 1..(n + m)
      /\ \A i \in 1..n : (s \o b)[i] = s[i]
      /\ \A i \in 1..m : (s \o b)[n + i] = b[i]
  BY <1>1, ConcatFacts
<1>3. /\ len \in Nat /\ len >= 3
      /\ \A i \in old : i \in 1..n /\ i + len - 1 <= n
  BY <1>1, LenProperties, StartsFacts DEF IsWord, Document
<1>4. new = old \union (IF b = w THEN {n + 1} ELSE {})
  BY <1>1, StartsConcat
<1>5. Replaced(s, w, rep) = FlattenSeq(earlier) /\ Replaced(s \o b, w, rep) = FlattenSeq(both)
  <2>1. Apart(Starts(s, w), Len(w)) /\ Apart(Starts(s \o b, w), Len(w))
    BY ScannedConcat DEF Scanned
  <2> QED BY <2>1, ReplacedIsCut
<1>6. earlier \in Seq(Document) /\ Len(earlier) = n /\ both \in Seq(Document) /\ Len(both) = n + m
  <2>1. earlier \in Seq(Document) /\ Len(earlier) = n
    BY <1>1, CutFacts
  <2>2. both \in Seq(Document) /\ Len(both) = Len(s \o b)
    <3> DEFINE sb == s \o b
    <3>1. sb \in Document
      BY <1>2
    <3> HIDE DEF sb
    <3>2. Cut(sb, new, len, rep) \in Seq(Document) /\ Len(Cut(sb, new, len, rep)) = Len(sb)
      BY <3>1, CutFacts
    <3> QED BY <3>2 DEF sb
  <2> QED BY <1>2, <2>1, <2>2
<1>7. later \in Seq(Document) /\ Len(later) = m
  <2>1. <<>> \in Document /\ \A i \in 1..m : <<b[i]>> \in Document
    BY <1>1, <1>2, ElementOfSeq DEF Document
  <2> QED BY <1>2, <2>1
<1>8. FlattenSeq(later) = IF b = w THEN rep ELSE b
  <2>1. CASE b = w
    <3>1. m # 0
      BY <1>3, <2>1
    <3>2. FlattenSeq([i \in 1..m |-> IF i = 1 THEN rep ELSE <<>>]) = rep
      BY <1>2, <3>1, FlattenFirst DEF Document
    <3> QED BY <2>1, <3>2
  <2>2. CASE b # w
    <3>1. FlattenSeq([i \in DOMAIN b |-> <<b[i]>>]) = b
      BY <1>1, FlattenSingles DEF Document
    <3> QED BY <2>2, <3>1
  <2> QED BY <2>1, <2>2
<1>9. \A i \in 1..n : earlier[i] = IF i \in old THEN rep
                                ELSE IF \E j \in old : j < i /\ i < j + len THEN <<>>
                                ELSE <<s[i]>>
  BY <1>2 DEF Cut
<1>10. \A i \in 1..(n + m) : both[i] = IF i \in new THEN rep
                                ELSE IF \E j \in new : j < i /\ i < j + len THEN <<>>
                                ELSE <<(s \o b)[i]>>
  BY <1>2 DEF Cut
<1>11. \A i \in 1..m : later[i] = IF b = w THEN (IF i = 1 THEN rep ELSE <<>>) ELSE <<b[i]>>
  BY <1>2
<1>12. b = w => m = len
  OBVIOUS
<1> HIDE DEF n, m, len, old, new, earlier, later, both
<1>13. ASSUME NEW i \in 1..n PROVE both[i] = earlier[i]
  <2>1. i \in new <=> i \in old
    BY <1>2, <1>4
  <2>2. (\E j \in new : j < i /\ i < j + len) <=> (\E j \in old : j < i /\ i < j + len)
    BY <1>2, <1>4
  <2>3. i \in 1..(n + m) /\ (s \o b)[i] = s[i]
    BY <1>2
  <2> QED BY <1>9, <1>10, <2>1, <2>2, <2>3, Zenon
<1>14. ASSUME NEW i \in 1..m PROVE both[n + i] = later[i]
  <2>1. n + i \in 1..(n + m) /\ (s \o b)[n + i] = b[i] /\ n + i \notin old
        /\ ~\E j \in old : j < n + i /\ n + i < j + len
    BY <1>2, <1>3
  <2>2. CASE b # w
    <3>1. new = old
      BY <1>4, <2>2
    <3> QED BY <1>10, <1>11, <2>1, <2>2, <3>1, Zenon
  <2>3. CASE b = w /\ i = 1
    <3>1. n + i \in new
      BY <1>4, <2>3
    <3> QED BY <1>10, <1>11, <2>1, <2>3, <3>1, Zenon
  <2>4. CASE b = w /\ i # 1
    <3>1. n + i \notin new
      BY <1>2, <1>4, <2>1, <2>4
    <3>2. n + 1 \in new /\ n + 1 < n + i /\ n + i < (n + 1) + len
      BY <1>2, <1>3, <1>4, <1>12, <2>4
    <3> QED BY <1>10, <1>11, <2>1, <2>4, <3>1, <3>2, Zenon
  <2> QED BY <2>2, <2>3, <2>4
<1>15. both = earlier \o later
  <2>1. /\ earlier \o later \in Seq(Document) /\ Len(earlier \o later) = n + m
        /\ \A i \in 1..(n + m) :
             (earlier \o later)[i] = IF i <= n THEN earlier[i] ELSE later[i - n]
    BY <1>6, <1>7, ConcatProperties
  <2>2. ASSUME NEW i \in 1..(n + m) PROVE both[i] = (earlier \o later)[i]
    <3>1. CASE i <= n
      <4>1. i \in 1..n
        BY <1>2, <3>1
      <4> QED BY <1>13, <2>1, <3>1, <4>1
    <3>2. CASE ~(i <= n)
      <4>1. i - n \in 1..m /\ n + (i - n) = i
        BY <1>2, <3>2
      <4>2. both[n + (i - n)] = later[i - n]
        BY ONLY <1>14, <4>1
      <4> QED BY <2>1, <3>2, <4>1, <4>2
    <3> QED BY <3>1, <3>2
  <2> QED BY <1>6, <2>1, <2>2, SeqEqual
<1>16. FlattenSeq(earlier \o later) = FlattenSeq(earlier) \o FlattenSeq(later)
  BY <1>6, <1>7, FlattenConcat DEF Document
<1> QED BY <1>5, <1>8, <1>15, <1>16

\* A word is replaced block by block, and found where a block is that word.
LEMMA ReplacedBlocks ==
  ASSUME NEW parts \in Seq(Document), \A i \in DOMAIN parts : IsBlock(parts[i]),
         NEW w, IsWord(w), NEW rep \in Document
  PROVE  /\ Starts(FlattenSeq(parts), w) # {} <=> \E i \in DOMAIN parts : parts[i] = w
         /\ Replaced(FlattenSeq(parts), w, rep)
              = FlattenSeq([i \in DOMAIN parts |-> IF parts[i] = w THEN rep ELSE parts[i]])
<1> DEFINE n == Len(parts)
           each == [i \in DOMAIN parts |-> IF parts[i] = w THEN rep ELSE parts[i]]
<1>1. n \in Nat /\ DOMAIN parts = 1..n /\ \A i \in 1..n : parts[i] \in Document
  BY LenProperties, ElementOfSeq
<1>2. /\ each \in Seq(Document) /\ Len(each) = n
      /\ \A i \in 1..n : each[i] = IF parts[i] = w THEN rep ELSE parts[i]
  BY <1>1
<1> HIDE DEF n, each
<1>r. ASSUME NEW s, Scanned(s, w), NEW b, IsBlock(b)
      PROVE  Replaced(s \o b, w, rep) = Replaced(s, w, rep) \o (IF b = w THEN rep ELSE b)
  BY <1>r, ReplacedConcat
<1>3. PICK whole : Flattens(parts, whole) /\ FlattenSeq(parts) = whole[n]
  BY FlattenFacts DEF n, Document
<1>4. PICK done : Flattens(each, done) /\ FlattenSeq(each) = done[n]
  BY <1>2, FlattenFacts DEF Document
<1> DEFINE Good == {k \in 0..n : /\ Scanned(whole[k], w)
                                 /\ Starts(whole[k], w) # {} <=> \E i \in 1..k : parts[i] = w
                                 /\ Replaced(whole[k], w, rep) = done[k]}
<1>5. 0 \in Good
  <2>1. whole[0] = <<>> /\ done[0] = <<>> /\ 0 \in 0..n
    BY <1>1, <1>3, <1>4 DEF Flattens
  <2>2. Starts(<<>>, w) = {} /\ <<>> \in Document /\ Tidy(<<>>)
    BY DEF Starts, Document, Tidy
  <2>3. Apart(Starts(<<>>, w), Len(w))
    BY <2>2 DEF Apart
  <2>4. Replaced(<<>>, w, rep) = <<>>
    <3>1. Cut(<<>>, Starts(<<>>, w), Len(w), rep) = <<>>
      BY DEF Cut
    <3> QED BY <2>3, <3>1, ReplacedIsCut, FlattenNone
  <2> QED BY <2>1, <2>2, <2>3, <2>4 DEF Scanned
<1>6. ASSUME NEW k \in 1..n, k - 1 \in Good PROVE k \in Good
  <2> DEFINE before == whole[k - 1]
             part == parts[k]
  <2>1. whole[k] = before \o part /\ done[k] = done[k - 1] \o each[k]
    BY <1>2, <1>3, <1>4 DEF Flattens, n
  <2>2. /\ Scanned(before, w) /\ Replaced(before, w, rep) = done[k - 1]
        /\ Starts(before, w) # {} <=> \E i \in 1..(k - 1) : parts[i] = w
    BY <1>6
  <2>3. IsBlock(part)
    BY <1>1
  <2> HIDE DEF before, part
  <2>4. Scanned(before \o part, w)
    BY <2>2, <2>3, ScannedConcat
  <2>5. Replaced(before \o part, w, rep)
          = Replaced(before, w, rep) \o (IF part = w THEN rep ELSE part)
    BY <1>r, <2>2, <2>3
  <2>6. Starts(before \o part, w)
          = Starts(before, w) \union (IF part = w THEN {Len(before) + 1} ELSE {})
    BY <2>2, <2>3, StartsConcat DEF Scanned
  <2>7. Starts(before \o part, w) # {} <=> \E i \in 1..k : parts[i] = w
    <3>1. 1..k = 1..(k - 1) \union {k}
      BY <1>1
    <3>2. Starts(before \o part, w) # {} <=> Starts(before, w) # {} \/ part = w
      BY ONLY <2>6
    <3>3. (\E i \in 1..k : parts[i] = w) <=> (\E i \in 1..(k - 1) : parts[i] = w) \/ part = w
      BY ONLY <3>1 DEF part
    <3> QED BY ONLY <2>2, <3>2, <3>3
  <2>8. each[k] = IF part = w THEN rep ELSE part
    BY <1>2 DEF part
  <2>9. k \in 0..n
    BY <1>1
  <2> QED BY ONLY <2>1, <2>2, <2>4, <2>5, <2>7, <2>8, <2>9
<1> HIDE DEF Good
<1>7. \A k \in 0..n : k \in Good
  BY <1>1, <1>5, <1>6, CountingUp
<1>8. n \in Good
  BY <1>1, <1>7
<1>9. /\ Starts(whole[n], w) # {} <=> \E i \in 1..n : parts[i] = w
      /\ Replaced(whole[n], w, rep) = done[n]
  BY ONLY <1>8 DEF Good
<1> QED BY <1>1, <1>3, <1>4, <1>9 DEF each

----------------------------------------------------------------------------
(* The rounds of materialize_args.                                         *)

LEMMA MaxFacts ==
  ASSUME NEW n \in Nat, NEW s \in SUBSET (1..n), s # {}
  PROVE  Max(s) \in s /\ \A y \in s : y <= Max(s)
<1> DEFINE gaps == {n - x : x \in s}
<1>1. gaps \subseteq Nat /\ gaps # {}
  <2>1. \A x \in s : n - x \in Nat
    OBVIOUS
  <2>2. \E x \in s : TRUE
    OBVIOUS
  <2> QED BY <2>1, <2>2
<1>2. PICK least \in gaps : \A g \in gaps : least <= g
  <2> HIDE DEF gaps
  <2> QED BY <1>1, LeastNumber
<1>3. PICK x \in s : least = n - x
  BY <1>2
<1>4. \A y \in s : x >= y
  <2> SUFFICES ASSUME NEW y \in s PROVE x >= y
    OBVIOUS
  <2>1. n - x <= n - y
    BY <1>2, <1>3
  <2> QED BY <2>1
<1>5. Max(s) \in s /\ \A y \in s : Max(s) >= y
  BY <1>3, <1>4 DEF Max
<1> QED BY <1>5

LEMMA WithoutMax ==
  ASSUME NEW k \in Nat, NEW s \in SUBSET (1..k), s # {}
  PROVE  s \ {Max(s)} \in SUBSET (1..(k - 1))
<1>1. Max(s) \in s /\ \A y \in s : y <= Max(s)
  BY MaxFacts
<1>2. Max(s) \in 1..k /\ \A y \in s : y \in 1..k
  BY <1>1
<1>3. ASSUME NEW y \in s \ {Max(s)} PROVE y \in 1..(k - 1)
  <2>1. y \in 1..k /\ y <= Max(s) /\ y # Max(s) /\ Max(s) \in 1..k /\ k \in Int
    BY <1>1, <1>2
  <2> QED BY ONLY <2>1
<1> QED BY <1>3

\* iter is the recursive function that the fold of materialize_args defines.
Iterates(n, template, subs, saved, iter) ==
  iter = [s \in SUBSET (1..n) |->
            IF s = {} THEN Succeeds(from_utf8_lossy(template))
            ELSE substitute(iter[s \ {Max(s)}], subs[Max(s)], saved)]

LEMMA MaterializeIterates ==
  ASSUME NEW template, NEW subs, NEW saved, NEW n, DOMAIN subs = 1..n
  PROVE  materialize_args(template, subs, saved)
           = (CHOOSE iter : Iterates(n, template, subs, saved, iter))[1..n]
BY DEF materialize_args, FoldLeft, MapThenFoldSet, Iterates

LEMMA IterationExists ==
  ASSUME NEW template, NEW subs, NEW saved, NEW n \in Nat
  PROVE  \E iter : Iterates(n, template, subs, saved, iter)
<1> DEFINE Good == {m \in Nat : \E iter : Iterates(m, template, subs, saved, iter)}
<1>1. 0 \in Good
  <2> DEFINE g == [s \in SUBSET (1..0) |-> Succeeds(from_utf8_lossy(template))]
  <2>1. SUBSET (1..0) = {{}}
    OBVIOUS
  <2>2. Iterates(0, template, subs, saved, g)
    BY <2>1 DEF Iterates
  <2> QED BY <2>2
<1>2. ASSUME NEW k \in 1..n, k - 1 \in Good PROVE k \in Good
  <2>1. PICK f : Iterates(k - 1, template, subs, saved, f)
    BY <1>2
  <2> DEFINE Round(h, s) == IF s = {} THEN Succeeds(from_utf8_lossy(template))
                            ELSE substitute(h[s \ {Max(s)}], subs[Max(s)], saved)
             g == [s \in SUBSET (1..k) |-> Round(f, s)]
  <2>2. ASSUME NEW s \in SUBSET (1..(k - 1)) PROVE g[s] = f[s]
    <3>1. f[s] = Round(f, s)
      BY <2>1 DEF Iterates
    <3>2. s \in SUBSET (1..k)
      OBVIOUS
    <3> QED BY <3>1, <3>2
  <2>3. ASSUME NEW s \in SUBSET (1..k), s # {} PROVE s \ {Max(s)} \in SUBSET (1..(k - 1))
    BY <2>3, WithoutMax
  <2>4. ASSUME NEW s \in SUBSET (1..k) PROVE Round(f, s) = Round(g, s)
    <3> HIDE DEF g
    <3> QED BY <2>2, <2>3
  <2>5. Iterates(k, template, subs, saved, g)
    <3> SUFFICES g = [s \in SUBSET (1..k) |-> Round(g, s)]
      BY DEF Iterates
    <3> QED BY <2>4
  <2> QED BY <2>5
<1> HIDE DEF Good
<1>3. \A k \in 0..n : k \in Good
  BY <1>1, <1>2, CountingUp
<1> QED BY <1>3 DEF Good

\* rounds[k] is the output after the first k substitutions.
Rounds(template, subs, saved, rounds) ==
  /\ rounds[0] = Succeeds(from_utf8_lossy(template))
  /\ \A k \in 1..Len(subs) : rounds[k] = substitute(rounds[k - 1], subs[k], saved)

LEMMA MaterializeRounds ==
  ASSUME NEW template, NEW Y, NEW subs \in Seq(Y), NEW saved
  PROVE  \E rounds : /\ Rounds(template, subs, saved, rounds)
                     /\ materialize_args(template, subs, saved) = rounds[Len(subs)]
<1> DEFINE n == Len(subs)
           iter == CHOOSE iter : Iterates(n, template, subs, saved, iter)
           rounds == [k \in 0..n |-> iter[1..k]]
<1>1. n \in Nat /\ DOMAIN subs = 1..n
  BY LenProperties
<1>2. materialize_args(template, subs, saved) = iter[1..n]
  BY <1>1, MaterializeIterates
<1>3. Iterates(n, template, subs, saved, iter)
  BY <1>1, IterationExists
<1> HIDE DEF iter, n
<1>4. rounds[0] = Succeeds(from_utf8_lossy(template))
  <2>1. 1..0 = {} /\ {} \in SUBSET (1..n)
    OBVIOUS
  <2>2. iter[{}] = Succeeds(from_utf8_lossy(template))
    BY <1>3, <2>1 DEF Iterates
  <2> QED BY <1>1, <2>1, <2>2
<1>5. ASSUME NEW k \in 1..n
      PROVE  rounds[k] = substitute(rounds[k - 1], subs[k], saved)
  <2>1. 1..k \in SUBSET (1..n) /\ 1..k # {} /\ k \in 1..k /\ k \in Nat
    BY <1>1
  <2>2. iter[1..k] = substitute(iter[(1..k) \ {Max(1..k)}], subs[Max(1..k)], saved)
    BY <1>3, <2>1 DEF Iterates
  <2>3. Max(1..k) = k
    <3>1. Max(1..k) \in 1..k /\ \A y \in 1..k : y <= Max(1..k)
      BY <2>1, MaxFacts
    <3> QED BY <2>1, <3>1
  <2>4. (1..k) \ {k} = 1..(k - 1)
    BY <2>1
  <2>5. rounds[k] = iter[1..k] /\ rounds[k - 1] = iter[1..(k - 1)]
    BY <1>1
  <2> QED BY <2>2, <2>3, <2>4, <2>5
<1>6. materialize_args(template, subs, saved) = rounds[n]
  BY <1>1, <1>2
<1> HIDE DEF rounds
<1>7. Rounds(template, subs, saved, rounds)
  BY <1>4, <1>5 DEF Rounds, n
<1> QED BY <1>6, <1>7 DEF n

----------------------------------------------------------------------------
(* Decoding.                                                               *)

LEMMA LossyFacts ==
  ASSUME NEW s \in Document
  PROVE  /\ from_utf8_lossy(s) \in Document /\ Len(from_utf8_lossy(s)) = Len(s)
         /\ Bare(s) => Bare(from_utf8_lossy(s))
         /\ (\A i \in DOMAIN s : s[i] # Invalid) => from_utf8_lossy(s) = s
<1>1. Len(s) \in Nat /\ DOMAIN s = 1..Len(s) /\ \A i \in 1..Len(s) : s[i] \in Char
  BY LenProperties, ElementOfSeq DEF Document
<1>2. from_utf8_lossy(s) \in Document /\ Len(from_utf8_lossy(s)) = Len(s)
  BY <1>1, MarksDiffer DEF from_utf8_lossy, Document
<1>3. Bare(s) => Bare(from_utf8_lossy(s))
  BY MarksDiffer DEF Bare, from_utf8_lossy
<1>4. ASSUME \A i \in DOMAIN s : s[i] # Invalid PROVE from_utf8_lossy(s) = s
  <2>1. from_utf8_lossy(s) = [i \in DOMAIN s |-> s[i]]
    BY <1>4 DEF from_utf8_lossy
  <2>2. s = [i \in 1..Len(s) |-> s[i]]
    BY <1>1 DEF Document
  <2> QED BY <1>1, <2>1, <2>2
<1> QED BY <1>2, <1>3, <1>4

LEMMA LossyConcat ==
  ASSUME NEW s \in Document, NEW t \in Document
  PROVE  from_utf8_lossy(s \o t) = from_utf8_lossy(s) \o from_utf8_lossy(t)
<1> DEFINE n == Len(s)
           m == Len(t)
           f(u) == from_utf8_lossy(u)
<1>1. /\ n \in Nat /\ m \in Nat /\ s \o t \in Document /\ Len(s \o t) = n + m
      /\ DOMAIN s = 1..n /\ DOMAIN t = 1..m /\ DOMAIN (s \o t) = 1..(n + m)
      /\ \A i \in 1..n : (s \o t)[i] = s[i]
      /\ \A i \in 1..m : (s \o t)[n + i] = t[i]
  BY ConcatFacts
<1>2. f(s) \in Document /\ f(t) \in Document /\ Len(f(s)) = n /\ Len(f(t)) = m
  BY LossyFacts
<1>3. f(s \o t) \in Document /\ Len(f(s \o t)) = n + m
  <2> DEFINE st == s \o t
  <2>1. st \in Document
    BY <1>1
  <2> HIDE DEF st
  <2>2. f(st) \in Document /\ Len(f(st)) = Len(st)
    BY <2>1, LossyFacts
  <2> QED BY <1>1, <2>2 DEF st
<1>4. /\ Len(f(s) \o f(t)) = n + m /\ f(s) \o f(t) \in Document
      /\ \A i \in 1..n : (f(s) \o f(t))[i] = f(s)[i]
      /\ \A i \in 1..m : (f(s) \o f(t))[n + i] = f(t)[i]
  <2> DEFINE fs == f(s)
             ft == f(t)
  <2>1. fs \in Document /\ ft \in Document /\ Len(fs) = n /\ Len(ft) = m
    BY <1>2
  <2> HIDE DEF fs, ft
  <2>2. /\ Len(fs \o ft) = n + m /\ fs \o ft \in Document
        /\ \A i \in 1..n : (fs \o ft)[i] = fs[i]
        /\ \A i \in 1..m : (fs \o ft)[n + i] = ft[i]
    <3>1. /\ Len(fs \o ft) = Len(fs) + Len(ft) /\ fs \o ft \in Document
          /\ \A i \in 1..Len(fs) : (fs \o ft)[i] = fs[i]
          /\ \A i \in 1..Len(ft) : (fs \o ft)[Len(fs) + i] = ft[i]
      BY ONLY <2>1, ConcatFacts
    <3> HIDE DEF n, m
    <3> QED BY ONLY <2>1, <3>1
  <2> QED BY <2>2 DEF fs, ft
<1>5. /\ \A i \in 1..n : f(s \o t)[i] = f(s)[i]
      /\ \A i \in 1..m : f(s \o t)[n + i] = f(t)[i]
  <2>1. /\ \A i \in 1..n : i \in 1..(n + m)
        /\ \A i \in 1..m : n + i \in 1..(n + m)
    BY <1>1
  <2> HIDE DEF n, m
  <2> QED BY <1>1, <2>1 DEF from_utf8_lossy
<1> HIDE DEF n, m, f
<1>6. ASSUME NEW i \in 1..(n + m) PROVE f(s \o t)[i] = (f(s) \o f(t))[i]
  <2>1. CASE i \in 1..n
    BY <1>4, <1>5, <2>1
  <2>2. CASE i \notin 1..n
    <3>1. i - n \in 1..m /\ n + (i - n) = i
      BY <1>1, <2>2
    <3>2. f(s \o t)[n + (i - n)] = (f(s) \o f(t))[n + (i - n)]
      BY ONLY <1>4, <1>5, <3>1
    <3> QED BY ONLY <3>1, <3>2
  <2> QED BY <2>1, <2>2
<1>7. f(s \o t) = f(s) \o f(t)
  BY <1>3, <1>4, <1>6, SeqEqual DEF Document
<1> QED BY <1>7 DEF f

LEMMA LossyFlatten ==
  ASSUME NEW seqs \in Seq(Document)
  PROVE  from_utf8_lossy(FlattenSeq(seqs))
           = FlattenSeq([i \in DOMAIN seqs |-> from_utf8_lossy(seqs[i])])
<1> DEFINE n == Len(seqs)
           each == [i \in DOMAIN seqs |-> from_utf8_lossy(seqs[i])]
<1>1. n \in Nat /\ DOMAIN seqs = 1..n /\ \A i \in 1..n : seqs[i] \in Document
  BY LenProperties, ElementOfSeq
<1>2. /\ each \in Seq(Document) /\ Len(each) = n
      /\ \A i \in 1..n : each[i] = from_utf8_lossy(seqs[i])
  <2>1. \A i \in 1..n : from_utf8_lossy(seqs[i]) \in Document
    BY <1>1, LossyFacts
  <2> QED BY <1>1, <2>1
<1> HIDE DEF n, each
<1>3. PICK whole : /\ Flattens(seqs, whole) /\ FlattenSeq(seqs) = whole[n]
                   /\ \A k \in 0..n : whole[k] \in Document
  BY FlattenFacts DEF n, Document
<1>4. PICK done : Flattens(each, done) /\ FlattenSeq(each) = done[n]
  BY <1>2, FlattenFacts DEF Document
<1> DEFINE Good == {k \in 0..n : from_utf8_lossy(whole[k]) = done[k]}
<1>5. 0 \in Good
  <2>1. whole[0] = <<>> /\ done[0] = <<>> /\ 0 \in 0..n
    BY <1>1, <1>3, <1>4 DEF Flattens
  <2>2. from_utf8_lossy(<<>>) = <<>>
    BY DEF from_utf8_lossy
  <2> QED BY ONLY <2>1, <2>2
<1>6. ASSUME NEW k \in 1..n, k - 1 \in Good PROVE k \in Good
  <2>1. whole[k] = whole[k - 1] \o seqs[k] /\ done[k] = done[k - 1] \o each[k]
    BY <1>2, <1>3, <1>4 DEF Flattens, n
  <2>2. whole[k - 1] \in Document /\ seqs[k] \in Document
    <3>1. k - 1 \in 0..n
      BY <1>1
    <3> QED BY <1>1, <1>3, <3>1
  <2>3. from_utf8_lossy(whole[k - 1] \o seqs[k])
          = from_utf8_lossy(whole[k - 1]) \o from_utf8_lossy(seqs[k])
    BY <2>2, LossyConcat
  <2>4. from_utf8_lossy(whole[k - 1]) = done[k - 1]
    BY ONLY <1>6
  <2>5. each[k] = from_utf8_lossy(seqs[k]) /\ k \in 0..n
    BY <1>1, <1>2
  <2> QED BY ONLY <2>1, <2>3, <2>4, <2>5
<1> HIDE DEF Good
<1>7. \A k \in 0..n : k \in Good
  BY <1>1, <1>5, <1>6, CountingUp
<1>8. n \in Good
  BY <1>1, <1>7
<1>9. from_utf8_lossy(whole[n]) = done[n]
  BY ONLY <1>8 DEF Good
<1> QED BY <1>3, <1>4, <1>9 DEF each

----------------------------------------------------------------------------
(* Substitutions.                                                          *)

\* A placeholder of a name without quotes is a word, and says which name.
LEMMA PlaceholderFacts ==
  ASSUME NEW name \in PlaceNames
  PROVE  /\ placeholder(name) \in Document /\ Len(placeholder(name)) = Len(name) + 5
         /\ from_utf8_lossy(placeholder(name)) = placeholder(name)
         /\ \A i \in 1..Len(name) : placeholder(name)[i + 3] = name[i]
         /\ name \in Names => IsWord(placeholder(name))
<1> DEFINE l == Len(name)
           w == placeholder(name)
           open == <<Quote, Dollar, OpenBrace>>
           close == <<CloseBrace, Quote>>
<1>1. name \in Document /\ l \in Nat /\ \A i \in 1..l : name[i] # Invalid
  <2>1. name \in Seq(Char \ {Invalid})
    BY CharsAssumption
  <2> QED BY <2>1, LenProperties, ElementOfSeq, SeqMonotonic DEF Document
<1>2. open \in Document /\ close \in Document /\ Len(open) = 3 /\ Len(close) = 2
  BY MarksDiffer DEF Document
<1>3. /\ open \o name \in Document /\ Len(open \o name) = 3 + l
      /\ \A i \in 1..3 : (open \o name)[i] = open[i]
      /\ \A i \in 1..l : (open \o name)[3 + i] = name[i]
  BY <1>1, <1>2, ConcatFacts
<1>4. w = (open \o name) \o close
  BY DEF placeholder
<1> DEFINE front == open \o name
<1> HIDE DEF front, close
<1>5. /\ w \in Document /\ Len(w) = (3 + l) + 2
      /\ \A i \in 1..(3 + l) : w[i] = front[i]
      /\ \A i \in 1..2 : w[(3 + l) + i] = close[i]
  <2>1. front \in Document /\ Len(front) = 3 + l
    BY <1>3 DEF front
  <2>2. w = front \o close
    BY <1>4 DEF front
  <2>3. /\ Len(front \o close) = Len(front) + Len(close) /\ front \o close \in Document
        /\ \A i \in 1..Len(front) : (front \o close)[i] = front[i]
        /\ \A i \in 1..Len(close) : (front \o close)[Len(front) + i] = close[i]
    <3>1. close \in Document
      BY <1>2 DEF close
    <3> QED BY ONLY <2>1, <3>1, ConcatFacts
  <2>4. Len(close) = 2
    BY <1>2 DEF close
  <2> HIDE DEF w, l
  <2> QED BY ONLY <2>1, <2>2, <2>3, <2>4
<1>6. w[1] = Quote /\ w[2] = Dollar /\ w[3] = OpenBrace
  BY <1>1, <1>3, <1>5 DEF front
<1>7. \A i \in 1..l : w[3 + i] = name[i]
  <2>1. \A i \in 1..l : 3 + i \in 1..(3 + l)
    BY <1>1
  <2>2. \A i \in 1..l : front[3 + i] = name[i]
    BY <1>3 DEF front
  <2> HIDE DEF w, l
  <2> QED BY ONLY <1>5, <2>1, <2>2
<1>8. w[l + 4] = CloseBrace /\ w[l + 5] = Quote
  <2>1. (3 + l) + 1 = l + 4 /\ (3 + l) + 2 = l + 5 /\ 1 \in 1..2 /\ 2 \in 1..2
    BY <1>1
  <2> HIDE DEF w
  <2> QED BY <1>5, <2>1 DEF close
<1>9. \A i \in 1..(l + 5) : \/ i \in {1, 2, 3, l + 4, l + 5}
                            \/ \E j \in 1..l : i = 3 + j
  <2> SUFFICES ASSUME NEW i \in 1..(l + 5), i \notin {1, 2, 3, l + 4, l + 5}
               PROVE  \E j \in 1..l : i = 3 + j
    OBVIOUS
  <2>1. i - 3 \in 1..l /\ i = 3 + (i - 3)
    BY <1>1
  <2> QED BY <2>1
<1>10. Len(w) = l + 5 /\ DOMAIN w = 1..(l + 5)
  <2>1. Len(w) = l + 5
    BY <1>1, <1>5
  <2> QED BY <1>5, <2>1, LenProperties DEF Document
<1> HIDE DEF w, l
<1>11. from_utf8_lossy(w) = w
  <2>1. ASSUME NEW i \in DOMAIN w PROVE w[i] # Invalid
    <3>1. CASE i \in {1, 2, 3, l + 4, l + 5}
      BY <1>6, <1>8, <3>1, MarksDiffer
    <3>2. CASE \E j \in 1..l : i = 3 + j
      BY <1>1, <1>7, <3>2
    <3> QED BY <1>9, <1>10, <3>1, <3>2
  <2>2. w \in Document
    BY <1>5
  <2> QED BY <2>1, <2>2, LossyFacts
<1>12. ASSUME name \in Names PROVE IsWord(w)
  <2>1. \A i \in 1..l : name[i] # Quote
    BY <1>12 DEF Names, Contains, l
  <2>2. ASSUME NEW i \in 2..(Len(w) - 1) PROVE w[i] # Quote
    <3>1. i \in 1..(l + 5) /\ i # 1 /\ i # l + 5
      BY <1>1, <1>10
    <3> QED BY <1>6, <1>7, <1>8, <1>9, <2>1, <3>1, MarksDiffer
  <2>3. Len(w) >= 3 /\ w[Len(w)] = Quote
    BY <1>1, <1>8, <1>10
  <2> QED BY <1>5, <1>6, <2>2, <2>3 DEF IsWord
<1>13. \A i \in 1..l : i + 3 = 3 + i
  BY <1>1
<1>14. \A i \in 1..l : w[i + 3] = name[i]
  BY <1>7, <1>13
<1> QED BY <1>5, <1>10, <1>11, <1>12, <1>14 DEF w, l

LEMMA PlaceholderTells ==
  ASSUME NEW m \in PlaceNames, NEW n \in PlaceNames, placeholder(m) = placeholder(n)
  PROVE  m = n
<1>1. m \in Seq(Char \ {Invalid}) /\ n \in Seq(Char \ {Invalid})
  BY CharsAssumption
<1>2. Len(m) \in Nat /\ Len(n) \in Nat
  BY <1>1, LenProperties
<1>3. Len(m) + 5 = Len(n) + 5
  BY PlaceholderFacts
<1>4. Len(m) = Len(n)
  BY <1>2, <1>3
<1>5. ASSUME NEW i \in 1..Len(m) PROVE m[i] = n[i]
  <2>1. placeholder(m)[i + 3] = m[i]
    BY PlaceholderFacts
  <2>2. placeholder(n)[i + 3] = n[i]
    BY <1>4, PlaceholderFacts
  <2> QED BY <2>1, <2>2
<1> QED BY <1>1, <1>4, <1>5, SeqEqual

\* The names in LETs of MaterializeIsSimultaneous, and what it supposes.
ResultOf(saved, sub) == apply_substitution_op(saved[sub.reference], sub.op)

CanDo(pieces, saved, sub) ==
  /\ saved[sub.reference] # Absent /\ ResultOf(saved, sub).error = "none"
  /\ \E i \in DOMAIN pieces : pieces[i] = placeholder(sub.reference)

Fills(subs, i, piece) == placeholder(subs[i].reference) = piece

Fitting(piece) == \/ \E name \in Names : piece = placeholder(name)
                  \/ ~Contains(piece, Dollar)

Supposed(pieces, subs, saved) ==
  /\ \A i \in DOMAIN pieces : Fitting(pieces[i])
  /\ \A name \in PlaceNames : saved[name] # Absent => ~Contains(saved[name], Dollar)
  /\ \A i \in DOMAIN subs : subs[i].reference \in Names
  /\ \A i, j \in DOMAIN subs : subs[i].reference = subs[j].reference => i = j

Sub == [reference: PlaceNames, op: Op]

Materials(pieces, subs, saved) ==
  /\ pieces \in Seq(Document) /\ subs \in Seq(Sub)
  /\ saved \in [PlaceNames -> Document \union {Absent}]
  /\ Supposed(pieces, subs, saved)

\* A piece of the template after the first k substitutions.
Expanded(subs, saved, k, piece) ==
  IF \E i \in 1..k : Fills(subs, i, piece)
  THEN ResultOf(saved, subs[CHOOSE i \in DOMAIN subs : Fills(subs, i, piece)]).bytes
  ELSE from_utf8_lossy(piece)

ExpandedAll(pieces, subs, saved, k) ==
  [i \in DOMAIN pieces |-> Expanded(subs, saved, k, pieces[i])]

LEMMA BareMeans ==
  ASSUME NEW s \in Document
  PROVE  Bare(s) <=> ~Contains(s, Dollar)
<1>1. DOMAIN s = 1..Len(s)
  BY LenProperties DEF Document
<1> QED BY <1>1 DEF Bare, Contains

LEMMA QuotedIsBare ==
  ASSUME NEW n \in Nat
  PROVE  Quoted(n) \in Document /\ Bare(Quoted(n))
<1>1. Digits(n) \in DigitRun
  BY DEF Digits, DigitRun
<1>2. Digits(n) \in Char /\ Quote \in Char /\ Digits(n) # Dollar /\ Quote # Dollar
  BY <1>1, MarksDiffer DEF Char
<1>3. Quoted(n) \in Seq(Char) /\ DOMAIN Quoted(n) = 1..3
  BY <1>2 DEF Quoted
<1>4. Quoted(n)[1] = Quote /\ Quoted(n)[2] = Digits(n) /\ Quoted(n)[3] = Quote
  BY DEF Quoted
<1> QED BY <1>2, <1>3, <1>4 DEF Bare, Document

LEMMA Quotient == ASSUME NEW n \in Nat, NEW d \in Nat, d # 0 PROVE n \div d \in Nat
OBVIOUS

LEMMA ShareIsNat == ASSUME NEW n \in Nat, NEW bps \in Nat PROVE Percent(n, bps) \in Nat
BY DEF Percent

\* What an operation makes of bytes without a dollar has none.
LEMMA OpIsBare ==
  ASSUME NEW saved \in Document, Bare(saved), NEW op \in Op,
         apply_substitution_op(saved, op).error = "none"
  PROVE  /\ apply_substitution_op(saved, op).bytes \in Document
         /\ Bare(apply_substitution_op(saved, op).bytes)
<1> DEFINE number == CHOOSE n \in parse_u128_json(saved) : TRUE
<1>1. parse_u128_json(saved) # {} => number \in Nat
  <2> SUFFICES ASSUME parse_u128_json(saved) # {} PROVE number \in Nat
    OBVIOUS
  <2>1. number \in parse_u128_json(saved)
    OBVIOUS
  <2> HIDE DEF number
  <2> QED BY <2>1, ParseIsNat
<1>2. CASE op.kind = "Raw"
  <2>1. apply_substitution_op(saved, op) = Succeeds(from_utf8_lossy(saved))
    BY <1>2 DEF apply_substitution_op
  <2>2. apply_substitution_op(saved, op).bytes = from_utf8_lossy(saved)
    BY <2>1 DEF Succeeds
  <2> QED BY <2>2, LossyFacts
<1>3. CASE op.kind = "DivU128"
  <2>1. op.denominator \in Nat
    BY <1>3 DEF Op
  <2>2. apply_substitution_op(saved, op) = DivU128(saved, op.denominator)
    BY <1>3 DEF apply_substitution_op
  <2>3. parse_u128_json(saved) # {} /\ op.denominator # 0
    BY <2>2 DEF DivU128, Fails
  <2>4. apply_substitution_op(saved, op) = Succeeds(Quoted(number \div op.denominator))
    BY <2>2, <2>3 DEF DivU128
  <2> HIDE DEF number
  <2>5. number \div op.denominator \in Nat
    BY <1>1, <2>1, <2>3, Quotient
  <2>6. apply_substitution_op(saved, op).bytes = Quoted(number \div op.denominator)
    BY <2>4 DEF Succeeds
  <2> QED BY <2>5, <2>6, QuotedIsBare
<1>4. CASE op.kind = "PercentU128"
  <2>1. op.bps \in Nat
    BY <1>4 DEF Op
  <2>2. apply_substitution_op(saved, op) = PercentU128(saved, op.bps)
    BY <1>4 DEF apply_substitution_op
  <2>3. parse_u128_json(saved) # {} /\ ~(op.bps > 10000) /\ ~(number * op.bps > MaxU128)
    BY <2>2 DEF PercentU128, Fails
  <2>4. apply_substitution_op(saved, op) = Succeeds(Quoted(Percent(number, op.bps)))
    BY <2>2, <2>3 DEF PercentU128
  <2> HIDE DEF number
  <2>5. Percent(number, op.bps) \in Nat
    <3>1. number \in Nat
      BY <1>1, <2>3
    <3> QED BY <2>1, <3>1, ShareIsNat
  <2>6. apply_substitution_op(saved, op).bytes = Quoted(Percent(number, op.bps))
    BY <2>4 DEF Succeeds
  <2> QED BY <2>5, <2>6, QuotedIsBare
<1> QED BY <1>2, <1>3, <1>4 DEF Op

\* What a substitution that can be done puts in.
LEMMA ResultIsBare ==
  ASSUME NEW pieces, NEW subs, NEW saved, Materials(pieces, subs, saved),
         NEW sub \in Sub, CanDo(pieces, saved, sub)
  PROVE  ResultOf(saved, sub).bytes \in Document /\ Bare(ResultOf(saved, sub).bytes)
<1>1. sub.reference \in PlaceNames /\ sub.op \in Op
  BY DEF Sub
<1>2. /\ saved[sub.reference] \in Document
      /\ ~Contains(saved[sub.reference], Dollar)
  BY <1>1 DEF Materials, Supposed, CanDo
<1>3. Bare(saved[sub.reference])
  BY <1>2, BareMeans
<1>4. apply_substitution_op(saved[sub.reference], sub.op).error = "none"
  BY DEF CanDo, ResultOf
<1> QED BY <1>1, <1>2, <1>3, <1>4, OpIsBare DEF ResultOf

LEMMA WordHasDollar == ASSUME NEW w, IsWord(w) PROVE ~Bare(w)
<1>1. 2 \in DOMAIN w /\ w[2] = Dollar
  BY LenProperties DEF IsWord, Document
<1> QED BY <1>1 DEF Bare

\* A decoded piece is a block, and a placeholder iff it was one.
LEMMA DecodedIsBlock ==
  ASSUME NEW piece \in Document, Fitting(piece)
  PROVE  /\ IsBlock(from_utf8_lossy(piece))
         /\ \A name \in Names :
              from_utf8_lossy(piece) = placeholder(name) <=> piece = placeholder(name)
<1>1. CASE \E name \in Names : piece = placeholder(name)
  <2>1. PICK name \in Names : piece = placeholder(name)
    BY <1>1
  <2>2. name \in PlaceNames
    BY DEF Names
  <2>3. from_utf8_lossy(piece) = piece /\ IsWord(piece)
    BY <2>1, <2>2, PlaceholderFacts
  <2>4. IsBlock(piece)
    BY <2>3 DEF IsBlock
  <2> QED BY <2>3, <2>4
<1>2. CASE ~Contains(piece, Dollar)
  <2>1. Bare(piece)
    BY <1>2, BareMeans
  <2>2. from_utf8_lossy(piece) \in Document /\ Bare(from_utf8_lossy(piece))
    BY <2>1, LossyFacts
  <2>3. ASSUME NEW name \in Names
        PROVE  from_utf8_lossy(piece) # placeholder(name) /\ piece # placeholder(name)
    <3>1. IsWord(placeholder(name))
      BY PlaceholderFacts DEF Names
    <3> QED BY <2>1, <2>2, <3>1, WordHasDollar
  <2> QED BY <2>2, <2>3 DEF IsBlock
<1> QED BY <1>1, <1>2 DEF Fitting

LEMMA MaterialsFacts ==
  ASSUME NEW pieces, NEW subs, NEW saved, Materials(pieces, subs, saved)
  PROVE  /\ Len(pieces) \in Nat /\ DOMAIN pieces = 1..Len(pieces)
         /\ \A i \in 1..Len(pieces) : pieces[i] \in Document /\ Fitting(pieces[i])
         /\ Len(subs) \in Nat /\ DOMAIN subs = 1..Len(subs)
         /\ \A i \in 1..Len(subs) : /\ subs[i] \in Sub /\ subs[i].reference \in Names
                                    /\ subs[i].reference \in PlaceNames
<1>1. pieces \in Seq(Document) /\ subs \in Seq(Sub)
  BY DEF Materials
<1>2. /\ Len(pieces) \in Nat /\ DOMAIN pieces = 1..Len(pieces)
      /\ \A i \in 1..Len(pieces) : pieces[i] \in Document
      /\ Len(subs) \in Nat /\ DOMAIN subs = 1..Len(subs)
      /\ \A i \in 1..Len(subs) : subs[i] \in Sub
  BY <1>1, LenProperties, ElementOfSeq
<1>3. \A i \in 1..Len(pieces) : Fitting(pieces[i])
  BY <1>2 DEF Materials, Supposed
<1>4. \A i \in 1..Len(subs) : subs[i].reference \in Names
  BY <1>2 DEF Materials, Supposed
<1> QED BY <1>2, <1>3, <1>4 DEF Names

\* No two substitutions fill the same piece.
LEMMA FillsOnce ==
  ASSUME NEW pieces, NEW subs, NEW saved, Materials(pieces, subs, saved),
         NEW i \in DOMAIN subs, NEW j \in DOMAIN subs, NEW piece,
         Fills(subs, i, piece), Fills(subs, j, piece)
  PROVE  i = j
<1>1. subs[i].reference \in PlaceNames /\ subs[j].reference \in PlaceNames
  BY MaterialsFacts
<1>2. placeholder(subs[i].reference) = placeholder(subs[j].reference)
  BY DEF Fills
<1>3. subs[i].reference = subs[j].reference
  BY <1>1, <1>2, PlaceholderTells
<1> QED BY <1>3 DEF Materials, Supposed

\* The pieces of a template after k substitutions that could be done.
LEMMA ExpandedFacts ==
  ASSUME NEW pieces, NEW subs, NEW saved, Materials(pieces, subs, saved),
         NEW k \in 0..Len(subs), NEW piece
  PROVE  /\ \A i \in 1..k : Fills(subs, i, piece) =>
              Expanded(subs, saved, k, piece) = ResultOf(saved, subs[i]).bytes
         /\ (~\E i \in 1..k : Fills(subs, i, piece)) =>
              Expanded(subs, saved, k, piece) = from_utf8_lossy(piece)
<1>1. ASSUME NEW i \in 1..k, Fills(subs, i, piece)
      PROVE  Expanded(subs, saved, k, piece) = ResultOf(saved, subs[i]).bytes
  <2> DEFINE j == CHOOSE j \in DOMAIN subs : Fills(subs, j, piece)
  <2>1. i \in DOMAIN subs
    BY MaterialsFacts
  <2>2. j \in DOMAIN subs /\ Fills(subs, j, piece)
    BY <1>1, <2>1
  <2>3. Expanded(subs, saved, k, piece) = ResultOf(saved, subs[j]).bytes
    BY <1>1 DEF Expanded
  <2> HIDE DEF j
  <2>4. j = i
    BY <1>1, <2>1, <2>2, FillsOnce
  <2> QED BY <2>3, <2>4
<1>2. ASSUME ~\E i \in 1..k : Fills(subs, i, piece)
      PROVE  Expanded(subs, saved, k, piece) = from_utf8_lossy(piece)
  BY <1>2, Zenon DEF Expanded
<1> QED BY <1>1, <1>2

LEMMA ExpandedBlocks ==
  ASSUME NEW pieces, NEW subs, NEW saved, Materials(pieces, subs, saved),
         NEW k \in 0..Len(subs), \A i \in 1..k : CanDo(pieces, saved, subs[i])
  PROVE  /\ \A i \in DOMAIN pieces : IsBlock(Expanded(subs, saved, k, pieces[i]))
         /\ ExpandedAll(pieces, subs, saved, k) \in Seq(Document)
         /\ DOMAIN ExpandedAll(pieces, subs, saved, k) = DOMAIN pieces
<1>1. ASSUME NEW n \in DOMAIN pieces PROVE IsBlock(Expanded(subs, saved, k, pieces[n]))
  <2> DEFINE piece == pieces[n]
  <2>1. piece \in Document /\ Fitting(piece)
    BY MaterialsFacts
  <2> HIDE DEF piece
  <2>2. CASE \E i \in 1..k : Fills(subs, i, piece)
    <3>1. PICK i \in 1..k : Fills(subs, i, piece)
      BY <2>2
    <3>2. Expanded(subs, saved, k, piece) = ResultOf(saved, subs[i]).bytes
      BY <3>1, ExpandedFacts
    <3>3. subs[i] \in Sub /\ CanDo(pieces, saved, subs[i])
      BY MaterialsFacts
    <3>4. ResultOf(saved, subs[i]).bytes \in Document /\ Bare(ResultOf(saved, subs[i]).bytes)
      BY <3>3, ResultIsBare
    <3> QED BY <3>2, <3>4 DEF IsBlock, piece
  <2>3. CASE ~\E i \in 1..k : Fills(subs, i, piece)
    <3>1. Expanded(subs, saved, k, piece) = from_utf8_lossy(piece)
      BY <2>3, ExpandedFacts
    <3>2. IsBlock(from_utf8_lossy(piece))
      BY <2>1, DecodedIsBlock
    <3> QED BY <3>1, <3>2 DEF piece
  <2> QED BY <2>2, <2>3
<1>2. /\ Len(pieces) \in Nat /\ DOMAIN pieces = 1..Len(pieces)
      /\ \A i \in 1..Len(pieces) : Expanded(subs, saved, k, pieces[i]) \in Document
  BY <1>1, MaterialsFacts DEF IsBlock
<1>3. /\ ExpandedAll(pieces, subs, saved, k) \in Seq(Document)
      /\ DOMAIN ExpandedAll(pieces, subs, saved, k) = DOMAIN pieces
  BY <1>2 DEF ExpandedAll
<1> QED BY <1>1, <1>3

\* The next substitution finds its placeholder where the template has it, and puts its
\* result there.
LEMMA NextExpands ==
  ASSUME NEW pieces, NEW subs, NEW saved, Materials(pieces, subs, saved),
         NEW k \in 1..Len(subs), \A i \in 1..(k - 1) : CanDo(pieces, saved, subs[i]),
         NEW n \in DOMAIN pieces
  PROVE  LET word == placeholder(subs[k].reference)
             before == Expanded(subs, saved, k - 1, pieces[n])
         IN  /\ before = word <=> pieces[n] = word
             /\ (IF before = word THEN ResultOf(saved, subs[k]).bytes ELSE before)
                  = Expanded(subs, saved, k, pieces[n])
<1> DEFINE word == placeholder(subs[k].reference)
           piece == pieces[n]
           before == Expanded(subs, saved, k - 1, piece)
           after == Expanded(subs, saved, k, piece)
           rep == ResultOf(saved, subs[k]).bytes
<1>0. /\ k - 1 \in 0..Len(subs) /\ k \in 0..Len(subs) /\ k \in DOMAIN subs /\ k \in 1..k
      /\ \A i \in 1..(k - 1) : i \in DOMAIN subs /\ i # k /\ i \in 1..k
      /\ \A i \in 1..k : i # k => i \in 1..(k - 1)
      /\ Fills(subs, k, piece) <=> piece = word
  BY MaterialsFacts DEF Fills
<1>1. piece \in Document /\ Fitting(piece) /\ subs[k].reference \in Names /\ IsWord(word)
  BY MaterialsFacts, PlaceholderFacts
<1>2. /\ \A i \in 1..(k - 1) : Fills(subs, i, piece) => before = ResultOf(saved, subs[i]).bytes
      /\ (~\E i \in 1..(k - 1) : Fills(subs, i, piece)) => before = from_utf8_lossy(piece)
      /\ \A i \in 1..k : Fills(subs, i, piece) => after = ResultOf(saved, subs[i]).bytes
      /\ (~\E i \in 1..k : Fills(subs, i, piece)) => after = from_utf8_lossy(piece)
  BY <1>0, ExpandedFacts
<1> HIDE DEF before, after
<1>3. CASE \E i \in 1..(k - 1) : Fills(subs, i, piece)
  <2>1. PICK i \in 1..(k - 1) : Fills(subs, i, piece)
    BY <1>3
  <2>2. piece # word
    BY <1>0, <2>1, FillsOnce
  <2>3. before = ResultOf(saved, subs[i]).bytes /\ after = ResultOf(saved, subs[i]).bytes
    BY <1>0, <1>2, <2>1
  <2>4. Bare(before)
    <3>1. subs[i] \in Sub /\ CanDo(pieces, saved, subs[i])
      BY <1>0, MaterialsFacts
    <3> QED BY <2>3, <3>1, ResultIsBare
  <2>5. before # word
    BY <1>1, <2>4, WordHasDollar
  <2> QED BY <2>2, <2>3, <2>5 DEF before, after
<1>4. CASE ~\E i \in 1..(k - 1) : Fills(subs, i, piece)
  <2>1. before = from_utf8_lossy(piece)
    BY <1>2, <1>4
  <2>2. before = word <=> piece = word
    BY <1>1, <2>1, DecodedIsBlock
  <2>3. CASE piece = word
    <3>1. after = rep
      BY <1>0, <1>2, <2>3
    <3> QED BY <2>2, <2>3, <3>1 DEF before, after
  <2>4. CASE piece # word
    <3>1. ~\E i \in 1..k : Fills(subs, i, piece)
      BY <1>0, <1>4, <2>4
    <3>2. after = from_utf8_lossy(piece)
      BY <1>2, <3>1
    <3> QED BY <2>1, <2>2, <2>4, <3>2 DEF before, after
  <2> QED BY <2>3, <2>4
<1> QED BY <1>3, <1>4

\* The output after k rounds of materialize_args.
Reached(pieces, subs, saved, k, sofar) ==
  /\ sofar.error = "none" <=> \A i \in 1..k : CanDo(pieces, saved, subs[i])
  /\ sofar.error = "none" => sofar.bytes = FlattenSeq(ExpandedAll(pieces, subs, saved, k))

LEMMA RoundReaches ==
  ASSUME NEW pieces, NEW subs, NEW saved, Materials(pieces, subs, saved),
         NEW k \in 1..Len(subs), NEW sofar, Reached(pieces, subs, saved, k - 1, sofar)
  PROVE  Reached(pieces, subs, saved, k, substitute(sofar, subs[k], saved))
<1> DEFINE sub == subs[k]
           word == placeholder(sub.reference)
           rep == ResultOf(saved, sub).bytes
           next == substitute(sofar, sub, saved)
<1>0. /\ 1..k = 1..(k - 1) \union {k} /\ k - 1 \in 0..Len(subs)
      /\ sub \in Sub /\ IsWord(word)
  BY MaterialsFacts, PlaceholderFacts
<1>1. CASE sofar.error # "none"
  <2>1. next = sofar
    BY <1>1 DEF substitute
  <2>2. ~\A i \in 1..k : CanDo(pieces, saved, subs[i])
    BY <1>0, <1>1 DEF Reached
  <2> HIDE DEF next
  <2> QED BY <1>1, <2>1, <2>2 DEF Reached, next
<1>2. CASE sofar.error = "none"
  <2> DEFINE all == ExpandedAll(pieces, subs, saved, k - 1)
  <2>1. /\ \A i \in 1..(k - 1) : CanDo(pieces, saved, subs[i])
        /\ sofar.bytes = FlattenSeq(all)
    BY <1>2 DEF Reached
  <2>2. /\ all \in Seq(Document) /\ DOMAIN all = DOMAIN pieces
        /\ \A i \in DOMAIN all : all[i] = Expanded(subs, saved, k - 1, pieces[i])
        /\ \A i \in DOMAIN all : IsBlock(all[i])
    <3>1. /\ \A i \in DOMAIN pieces : IsBlock(Expanded(subs, saved, k - 1, pieces[i]))
          /\ all \in Seq(Document) /\ DOMAIN all = DOMAIN pieces
      BY <1>0, <2>1, ExpandedBlocks
    <3>2. \A i \in DOMAIN pieces : all[i] = Expanded(subs, saved, k - 1, pieces[i])
      BY DEF ExpandedAll
    <3> HIDE DEF all
    <3> QED BY <3>1, <3>2
  <2>3. ASSUME NEW i \in DOMAIN pieces
        PROVE  /\ all[i] = word <=> pieces[i] = word
               /\ (IF all[i] = word THEN rep ELSE all[i])
                    = Expanded(subs, saved, k, pieces[i])
    <3>1. all[i] = Expanded(subs, saved, k - 1, pieces[i])
      BY <2>2
    <3> HIDE DEF all
    <3> QED BY <2>1, <3>1, NextExpands
  <2> HIDE DEF all
  <2>4. (\A i \in 1..k : CanDo(pieces, saved, subs[i])) <=> CanDo(pieces, saved, sub)
    BY <1>0, <2>1
  <2> HIDE DEF sub
  <2>5. \A r \in Document :
          /\ Starts(FlattenSeq(all), word) # {} <=> \E i \in DOMAIN all : all[i] = word
          /\ Replaced(FlattenSeq(all), word, r)
               = FlattenSeq([i \in DOMAIN all |-> IF all[i] = word THEN r ELSE all[i]])
    BY <1>0, <2>2, ReplacedBlocks
  <2>6. Starts(sofar.bytes, word) # {} <=> \E i \in DOMAIN pieces : pieces[i] = word
    <3>1. <<>> \in Document
      BY DEF Document
    <3>2. Starts(FlattenSeq(all), word) # {} <=> \E i \in DOMAIN all : all[i] = word
      BY <2>5, <3>1
    <3> QED BY <2>1, <2>2, <2>3, <3>2
  <2>7. CASE ~CanDo(pieces, saved, sub)
    <3>1. next.error # "none"
      <4>1. CASE saved[sub.reference] = Absent
        BY <1>2, <4>1 DEF substitute, Fails
      <4>2. CASE saved[sub.reference] # Absent /\ ResultOf(saved, sub).error # "none"
        BY <1>2, <4>2 DEF substitute, ResultOf
      <4>3. CASE /\ saved[sub.reference] # Absent /\ ResultOf(saved, sub).error = "none"
                 /\ Starts(sofar.bytes, word) = {}
        BY <1>2, <4>3 DEF substitute, ResultOf, Fails
      <4> QED BY <2>6, <2>7, <4>1, <4>2, <4>3 DEF CanDo
    <3> HIDE DEF next
    <3> QED BY <2>4, <2>7, <3>1 DEF Reached, next, sub
  <2>8. CASE CanDo(pieces, saved, sub)
    <3>1. next = Succeeds(Replaced(sofar.bytes, word, rep))
      <4>1. /\ saved[sub.reference] # Absent /\ ResultOf(saved, sub).error = "none"
            /\ Starts(sofar.bytes, word) # {}
        BY <2>6, <2>8 DEF CanDo
      <4> QED BY <1>2, <4>1 DEF substitute, ResultOf
    <3>2. next.error = "none" /\ next.bytes = Replaced(sofar.bytes, word, rep)
      BY <3>1 DEF Succeeds
    <3>3. rep \in Document
      BY <1>0, <2>8, ResultIsBare
    <3> HIDE DEF next, rep, word
    <3>4. Replaced(FlattenSeq(all), word, rep)
            = FlattenSeq([i \in DOMAIN all |-> IF all[i] = word THEN rep ELSE all[i]])
      BY <2>5, <3>3
    <3>5. [i \in DOMAIN all |-> IF all[i] = word THEN rep ELSE all[i]]
            = ExpandedAll(pieces, subs, saved, k)
      BY <2>2, <2>3 DEF ExpandedAll
    <3>6. next.bytes = FlattenSeq(ExpandedAll(pieces, subs, saved, k))
      BY <2>1, <3>2, <3>4, <3>5
    <3> QED BY <2>4, <2>8, <3>2, <3>6 DEF Reached, next, sub
  <2> QED BY <2>7, <2>8
<1> QED BY <1>1, <1>2

LEMMA MaterializeReaches ==
  ASSUME NEW pieces, NEW subs, NEW saved, Materials(pieces, subs, saved)
  PROVE  Reached(pieces, subs, saved, Len(subs),
                 materialize_args(FlattenSeq(pieces), subs, saved))
<1> DEFINE n == Len(subs)
           template == FlattenSeq(pieces)
<1>1. n \in Nat /\ pieces \in Seq(Document) /\ subs \in Seq(Sub)
  BY MaterialsFacts DEF Materials
<1>2. PICK rounds : /\ Rounds(template, subs, saved, rounds)
                    /\ materialize_args(template, subs, saved) = rounds[n]
  BY <1>1, MaterializeRounds
<1>3. from_utf8_lossy(template) = FlattenSeq([i \in DOMAIN pieces |-> from_utf8_lossy(pieces[i])])
  BY <1>1, LossyFlatten
<1> HIDE DEF n, template
<1> DEFINE Good == {k \in 0..n : Reached(pieces, subs, saved, k, rounds[k])}
<1>4. 0 \in Good
  <2>1. rounds[0] = Succeeds(from_utf8_lossy(template))
    BY <1>2 DEF Rounds
  <2>2. rounds[0].error = "none" /\ rounds[0].bytes = from_utf8_lossy(template)
    BY <2>1 DEF Succeeds
  <2>3. ExpandedAll(pieces, subs, saved, 0)
          = [i \in DOMAIN pieces |-> from_utf8_lossy(pieces[i])]
    BY DEF ExpandedAll, Expanded
  <2>4. Reached(pieces, subs, saved, 0, rounds[0])
    BY <1>3, <2>2, <2>3 DEF Reached
  <2>5. 0 \in 0..n
    BY <1>1
  <2> QED BY ONLY <2>4, <2>5
<1>5. ASSUME NEW k \in 1..n, k - 1 \in Good PROVE k \in Good
  <2>1. Reached(pieces, subs, saved, k - 1, rounds[k - 1])
    BY ONLY <1>5
  <2>2. rounds[k] = substitute(rounds[k - 1], subs[k], saved)
    BY <1>2 DEF Rounds, n
  <2>3. Reached(pieces, subs, saved, k, substitute(rounds[k - 1], subs[k], saved))
    BY <2>1, RoundReaches DEF n
  <2>4. Reached(pieces, subs, saved, k, rounds[k]) /\ k \in 0..n
    BY <1>1, <2>2, <2>3
  <2> QED BY ONLY <2>4
<1> HIDE DEF Good
<1>6. \A k \in 0..n : k \in Good
  BY ONLY <1>1, <1>4, <1>5, CountingUp
<1>7. n \in 0..n
  BY <1>1
<1>8. n \in Good
  BY ONLY <1>6, <1>7
<1>9. Reached(pieces, subs, saved, n, rounds[n])
  BY ONLY <1>8 DEF Good
<1> QED BY <1>2, <1>9 DEF n, template

\* What a materialization answered stays its answer.
MaterializeInv ==
  request \in ArgsRequests /\ answer # Absent =>
    answer = materialize_args(FlattenSeq(request.pieces), request.substitutions,
                              request.saved)

LEMMA MaterializeInductive == MaterializeInv /\ [ValuesNext]_valueVars => MaterializeInv'
<1> SUFFICES ASSUME MaterializeInv, [ValuesNext]_valueVars PROVE MaterializeInv'
  OBVIOUS
<1>1. CASE EvaluateGate
  BY <1>1, RequestsAssumption DEF EvaluateGate, MaterializeInv
<1>2. CASE Materialize
  BY <1>2 DEF Materialize, MaterializeInv
<1>3. CASE \E bps \in Bps : TakeShare(bps)
  <2>1. UNCHANGED <<request, answer>>
    BY <1>3 DEF TakeShare
  <2> QED
    BY <2>1 DEF MaterializeInv
<1>4. CASE UNCHANGED valueVars
  BY <1>4 DEF valueVars, MaterializeInv
<1> QED
  BY <1>1, <1>2, <1>3, <1>4 DEF ValuesNext

LEMMA MaterializeInvGivesSimultaneous == MaterializeInv => MaterializeIsSimultaneous
<1> SUFFICES ASSUME MaterializeInv, request \in ArgsRequests, answer # Absent
             PROVE  MaterializeIsSimultaneous
  BY DEF MaterializeIsSimultaneous
<1> DEFINE pieces == request.pieces
           subs == request.substitutions
           saved == request.saved
<1>1. /\ pieces \in Seq(Document) /\ subs \in Seq(Sub)
      /\ saved \in [PlaceNames -> Document \union {Absent}]
  BY RequestsAssumption DEF ArgsRequest, Sub
<1>2. answer = materialize_args(FlattenSeq(pieces), subs, saved)
  BY DEF MaterializeInv
<1>3. DOMAIN subs = 1..Len(subs)
  BY <1>1, LenProperties
<1> HIDE DEF pieces, subs, saved
<1>4. ASSUME Supposed(pieces, subs, saved)
      PROVE  /\ answer.error = "none" <=> \A i \in DOMAIN subs : CanDo(pieces, saved, subs[i])
             /\ answer.error = "none" =>
                  answer.bytes = FlattenSeq([i \in DOMAIN pieces |->
                    IF \E j \in DOMAIN subs : Fills(subs, j, pieces[i])
                    THEN ResultOf(saved, subs[CHOOSE j \in DOMAIN subs :
                                                Fills(subs, j, pieces[i])]).bytes
                    ELSE from_utf8_lossy(pieces[i])])
  <2>1. Reached(pieces, subs, saved, Len(subs), answer)
    BY <1>1, <1>2, <1>4, MaterializeReaches DEF Materials
  <2>2. ExpandedAll(pieces, subs, saved, Len(subs))
          = [i \in DOMAIN pieces |->
              IF \E j \in DOMAIN subs : Fills(subs, j, pieces[i])
              THEN ResultOf(saved, subs[CHOOSE j \in DOMAIN subs :
                                          Fills(subs, j, pieces[i])]).bytes
              ELSE from_utf8_lossy(pieces[i])]
    BY <1>3 DEF ExpandedAll, Expanded
  <2>3. answer.error = "none" <=> \A i \in DOMAIN subs : CanDo(pieces, saved, subs[i])
    BY ONLY <1>3, <2>1 DEF Reached
  <2>4. answer.error = "none"
          => answer.bytes = FlattenSeq(ExpandedAll(pieces, subs, saved, Len(subs)))
    BY ONLY <2>1 DEF Reached
  <2> QED BY ONLY <2>2, <2>3, <2>4
<1> QED BY <1>4 DEF MaterializeIsSimultaneous, Supposed, Fitting, CanDo, ResultOf, Fills,
                    pieces, subs, saved

\* Arguments materialize as their substitutions say, all at once: whatever their
\* number, the template and the saved results, if every `$` belongs to a placeholder
\* of the template.
THEOREM MaterializeSafe == ValuesSpec => []MaterializeIsSimultaneous
<1>1. ValuesInit => MaterializeInv
  BY DEF ValuesInit, MaterializeInv
<1> QED BY <1>1, MaterializeInductive, MaterializeInvGivesSimultaneous, PTL DEF ValuesSpec

----------------------------------------------------------------------------
(* The observer's banner.                                                  *)

Endings == {"completed", "halted"}

\* Of the events the banner looks for, these have e and no other.
Tells(events, e) ==
  Has(events, e) /\ \A i \in DOMAIN events : IsTerminal(events[i]) => events[i] = e

Silent(events) == \A i \in DOMAIN events : ~IsTerminal(events[i])

\* What the last callback of an ended sequence emits.
Says(next, events) ==
  /\ next = "completed" => Tells(events, "sequence_completed")
  /\ next = "halted" => Tells(events, "sequence_halted")
  /\ next \notin Endings => Silent(events)

\* As long as no yield timed out, the driver's callbacks are the only ones, and only
\* the one that ends the sequence tells how.
DriverTells ==
  /\ \A i \in DOMAIN hops : i # Len(hops) => Silent(hops[i].events)
  /\ hops = <<>> => phase \notin Endings
  /\ hops # <<>> => Says(phase, hops[Len(hops)].events)

\* A callback runs after its data, and yields resume on_step_resumed only.
Fits(method, resume) == resume = (method = "on_step_resumed")
InTime(hop) == hop.data_block <= hop.block /\ Fits(hop.method, hop.resume)

TraceInv ==
  /\ hops \in Seq(Hop) /\ at \in Nat \ {0}
  /\ \A i \in DOMAIN hops : InTime(hops[i])
  /\ ~expired => DriverTells

LEMMA HopNumbers ==
  ASSUME NEW hop \in Hop
  PROVE  hop.block \in Nat /\ hop.data_block \in Nat /\ hop.rank \in Nat /\ hop.data_rank \in Nat
<1>1. /\ hop.block \in 1..MaxBlock /\ hop.data_block \in 1..MaxBlock
      /\ hop.rank \in 1..5 /\ hop.data_rank \in 1..5
  BY DEF Hop, Ranks
<1> QED BY <1>1, ObserverBounds

LEMMA TraceConsumes ==
  ASSUME hops \in Seq(Hop), NEW method \in CallbackNames,
         NEW account \in {"wallet", "adapter"}, NEW resume \in BOOLEAN,
         Fits(method, resume),
         NEW data_block \in Nat \ {0}, NEW events \in Seq(EventNames),
         Consumes(method, account, resume, data_block, events)
  PROVE  \E hop \in Hop : /\ hops' = Append(hops, hop) /\ hop.block >= data_block
                          /\ InTime(hop) /\ hop.events = events
<1>1. PICK block \in data_block..(data_block + MaxDelay) :
        \E rank \in FreeRanks({hops[i].rank : i \in SameBlock(block)}),
           data_rank \in FreeRanks({hops[i].data_rank : i \in SameDataBlock(data_block)}) :
          /\ block <= MaxBlock
          /\ hops' = Append(hops, [method |-> method, account |-> account,
                                   resume |-> resume, data_block |-> data_block,
                                   block |-> block, rank |-> rank,
                                   data_rank |-> data_rank, events |-> events])
  BY DEF Consumes
<1>2. PICK rank \in FreeRanks({hops[i].rank : i \in SameBlock(block)}),
           data_rank \in FreeRanks({hops[i].data_rank : i \in SameDataBlock(data_block)}) :
             /\ block <= MaxBlock
             /\ hops' = Append(hops, [method |-> method, account |-> account,
                                      resume |-> resume, data_block |-> data_block,
                                      block |-> block, rank |-> rank,
                                      data_rank |-> data_rank, events |-> events])
  BY <1>1
<1> DEFINE hop == [method |-> method, account |-> account, resume |-> resume,
                   data_block |-> data_block, block |-> block, rank |-> rank,
                   data_rank |-> data_rank, events |-> events]
<1>3. block \in 1..MaxBlock /\ data_block \in 1..MaxBlock /\ block >= data_block
  BY <1>2, ObserverBounds
<1>4. rank \in Ranks /\ data_rank \in Ranks
  <2>1. \A taken : FreeRanks(taken) \subseteq Ranks
    BY DEF FreeRanks, Ranks
  <2> QED BY ONLY <1>2, <2>1
<1>5. hop \in Hop /\ InTime(hop)
  BY <1>3, <1>4 DEF Hop, InTime, Fits
<1> QED BY <1>2, <1>3, <1>5

LEMMA TraceDrives ==
  ASSUME TraceInv, phase \notin Endings, NEW method \in CallbackNames,
         NEW account \in {"wallet", "adapter"}, NEW resume \in BOOLEAN,
         Fits(method, resume),
         NEW events \in Seq(EventNames), NEW next,
         Says(next, events), Drives(method, account, resume, events, next)
  PROVE  TraceInv'
<1>1. PICK wait \in 1..MaxBlock :
        /\ Consumes(method, account, resume, at + wait, events)
        /\ at' = hops'[Len(hops')].block /\ phase' = next /\ expired' = expired
  BY DEF Drives
<1>2. hops \in Seq(Hop) /\ at \in Nat /\ at + wait \in Nat \ {0} /\ at + wait > at
  BY <1>1, ObserverBounds DEF TraceInv
<1>3. PICK hop \in Hop : /\ hops' = Append(hops, hop) /\ hop.block >= at + wait
                         /\ InTime(hop) /\ hop.events = events
  <2>1. ASSUME NEW data_block \in Nat \ {0},
               Consumes(method, account, resume, data_block, events)
        PROVE  \E hop \in Hop : /\ hops' = Append(hops, hop) /\ hop.block >= data_block
                                /\ InTime(hop) /\ hop.events = events
    BY <1>2, <2>1, TraceConsumes
  <2> QED BY ONLY <1>1, <1>2, <2>1
<1> DEFINE n == Len(hops)
<1>4. n \in Nat /\ DOMAIN hops = 1..n
  BY <1>2, LenProperties
<1>5. /\ hops' \in Seq(Hop) /\ Len(hops') = n + 1 /\ hops'[n + 1] = hop
      /\ \A i \in 1..n : hops'[i] = hops[i]
  BY <1>2, <1>3, AppendProperties
<1>6. DOMAIN hops' = 1..(n + 1)
  BY <1>5, LenProperties
<1>7. at' = hop.block /\ hop.block \in Nat /\ hop.block > at
  BY <1>1, <1>2, <1>3, <1>5, ObserverBounds DEF Hop
<1>8. (\A i \in DOMAIN hops : InTime(hops[i]))'
  <2>1. \A i \in 1..(n + 1) : i \in 1..n \/ i = n + 1
    BY <1>4
  <2>2. \A i \in 1..n : InTime(hops[i])
    BY <1>4 DEF TraceInv
  <2> QED BY <1>3, <1>5, <1>6, <2>1, <2>2 DEF InTime
<1> HIDE DEF n
<1>9. ASSUME ~expired PROVE DriverTells'
  <2>1. DriverTells
    BY <1>9 DEF TraceInv
  <2>2. \A i \in 1..(n + 1) : i \in 1..n \/ i = n + 1
    BY <1>4
  <2>6. \A i \in 1..n : Silent(hops[i].events)
    <3> SUFFICES ASSUME NEW i \in 1..n PROVE Silent(hops[i].events)
      OBVIOUS
    <3>1. hops # <<>>
      BY <1>4 DEF n
    <3>2. CASE i = n
      BY <2>1, <3>1, <3>2 DEF DriverTells, Says, n
    <3>3. CASE i # n
      BY <1>4, <2>1, <3>3 DEF DriverTells, n
    <3> QED BY <3>2, <3>3
  <2>7. (\A i \in DOMAIN hops : i # Len(hops) => Silent(hops[i].events))'
    BY <1>5, <1>6, <2>2, <2>6 DEF Silent
  <2>8. hops' # <<>>
    BY <1>4, <1>5
  <2>9. Says(phase, hops[Len(hops)].events)'
    BY <1>1, <1>3, <1>5 DEF Says, Tells, Silent, Has, IsTerminal
  <2> QED BY <2>7, <2>8, <2>9 DEF DriverTells
<1> QED BY <1>1, <1>2, <1>5, <1>7, <1>8, <1>9 DEF TraceInv

LEMMA TraceTimesOut ==
  ASSUME TraceInv, TimesOut
  PROVE  TraceInv'
<1>1. at \in Nat \ {0} /\ hops \in Seq(Hop) /\ YieldBlocks \in Nat \ {0}
  BY ObserverBounds DEF TraceInv, TimesOut
<1>2. Consumes("on_step_resumed", "wallet", TRUE, YieldBlocks,
               <<"run_finished", "sequence_halted">>)
  BY DEF TimesOut
<1>3. <<"run_finished", "sequence_halted">> \in Seq(EventNames)
  BY DEF EventNames
<1>4. PICK hop \in Hop : hops' = Append(hops, hop) /\ InTime(hop)
  <2>1. Fits("on_step_resumed", TRUE)
    BY DEF Fits
  <2> QED BY <1>1, <1>2, <1>3, <2>1, TraceConsumes DEF CallbackNames
<1>5. hops' \in Seq(Hop)
  BY <1>1, <1>4, AppendProperties
<1>6. (\A i \in DOMAIN hops : InTime(hops[i]))'
  <2> DEFINE n == Len(hops)
  <2>1. n \in Nat /\ DOMAIN hops = 1..n
    BY <1>1, LenProperties
  <2>2. /\ Len(hops') = n + 1 /\ hops'[n + 1] = hop
        /\ \A i \in 1..n : hops'[i] = hops[i]
    BY <1>1, <1>4, AppendProperties
  <2>3. DOMAIN hops' = 1..(n + 1)
    BY <1>5, <2>2, LenProperties
  <2> HIDE DEF n
  <2>4. \A i \in 1..(n + 1) : i \in 1..n \/ i = n + 1
    BY <2>1
  <2>5. \A i \in 1..n : InTime(hops[i])
    BY <2>1 DEF TraceInv
  <2> QED BY <1>4, <2>2, <2>3, <2>4, <2>5 DEF InTime
<1> QED BY <1>1, <1>5, <1>6 DEF TraceInv, TimesOut

\* What the callbacks emit.
LEMMA EventsSay ==
  /\ \A e \in {"step_resumed", "pre_gate_checked", "step_resolved_ok"} :
       \A next \in {"gate", "poll", "target", "resume"} : Says(next, <<e>>)
  /\ Says("target", <<>>)
  /\ \A e \in {"step_resumed", "pre_gate_checked", "step_resolved_ok"} :
       Says("halted", <<e, "run_finished", "sequence_halted">>)
  /\ Says("completed", <<"step_resolved_ok", "sequence_completed", "run_finished">>)
  /\ Says("failed", <<"run_finished", "step_resolved_err">>)
<1>1. \A e \in {"step_resumed", "pre_gate_checked", "step_resolved_ok"} : Silent(<<e>>)
  BY DEF Silent, IsTerminal
<1>2. Silent(<<>>)
  BY DEF Silent
<1>3. ASSUME NEW e \in {"step_resumed", "pre_gate_checked", "step_resolved_ok"}
      PROVE  Tells(<<e, "run_finished", "sequence_halted">>, "sequence_halted")
  <2> DEFINE s == <<e, "run_finished", "sequence_halted">>
  <2>1. DOMAIN s = 1..3 /\ s[1] = e /\ s[2] = "run_finished" /\ s[3] = "sequence_halted"
    OBVIOUS
  <2> HIDE DEF s
  <2>2. Tells(s, "sequence_halted")
    BY <2>1 DEF Tells, Has, IsTerminal
  <2> QED BY <2>2 DEF s
<1>4. Tells(<<"step_resolved_ok", "sequence_completed", "run_finished">>,
            "sequence_completed")
  <2> DEFINE s == <<"step_resolved_ok", "sequence_completed", "run_finished">>
  <2>1. DOMAIN s = 1..3 /\ s[1] = "step_resolved_ok" /\ s[2] = "sequence_completed"
        /\ s[3] = "run_finished"
    OBVIOUS
  <2> HIDE DEF s
  <2>2. Tells(s, "sequence_completed")
    BY <2>1 DEF Tells, Has, IsTerminal
  <2> QED BY <2>2 DEF s
<1>5. Silent(<<"run_finished", "step_resolved_err">>)
  BY DEF Silent, IsTerminal
<1>6. /\ \A next \in {"gate", "poll", "target", "resume", "failed"} : next \notin Endings
      /\ "completed" \in Endings /\ "halted" \in Endings
  BY DEF Endings
<1> QED BY <1>1, <1>2, <1>3, <1>4, <1>5, <1>6 DEF Says

LEMMA TraceInitially == TraceInit => TraceInv
BY EmptySeq DEF TraceInit, TraceInv, DriverTells, Endings

LEMMA TraceStep == TraceInv /\ [TraceNext]_traceVars => TraceInv'
<1> SUFFICES ASSUME TraceInv, [TraceNext]_traceVars PROVE TraceInv'
  OBVIOUS
<1> USE DEF CallbackNames
<1>a. /\ \A e \in {"step_resumed", "pre_gate_checked", "step_resolved_ok"} :
           <<e>> \in Seq(EventNames)
      /\ <<>> \in Seq(EventNames)
      /\ \A e \in {"step_resumed", "pre_gate_checked", "step_resolved_ok"} :
           <<e, "run_finished", "sequence_halted">> \in Seq(EventNames)
      /\ <<"step_resolved_ok", "sequence_completed", "run_finished">> \in Seq(EventNames)
      /\ <<"run_finished", "step_resolved_err">> \in Seq(EventNames)
  BY DEF EventNames
<1>b. /\ Fits("on_step_resumed", TRUE) /\ Fits("on_pre_gate_checked", FALSE)
       /\ Fits("on_last_finished_polled", FALSE) /\ Fits("on_step_resolved", FALSE)
  BY DEF Fits
<1>1. CASE Resumes
  <2>0. phase \notin Endings
    BY <1>1 DEF Resumes, Endings
  <2>1. ASSUME NEW next \in {"gate", "poll", "target"},
               Drives("on_step_resumed", "wallet", TRUE, <<"step_resumed">>, next)
        PROVE  TraceInv'
    <3>1. Says(next, <<"step_resumed">>) /\ <<"step_resumed">> \in Seq(EventNames)
      BY <1>a, EventsSay
    <3> QED BY <2>0, <2>1, <3>1, <1>b, TraceDrives
  <2>2. ASSUME Drives("on_step_resumed", "wallet", TRUE,
                      <<"step_resumed", "run_finished", "sequence_halted">>, "halted")
        PROVE  TraceInv'
    <3>1. /\ Says("halted", <<"step_resumed", "run_finished", "sequence_halted">>)
          /\ <<"step_resumed", "run_finished", "sequence_halted">> \in Seq(EventNames)
      BY <1>a, EventsSay
    <3> QED BY <2>0, <2>2, <3>1, <1>b, TraceDrives
  <2> QED BY <1>1, <2>1, <2>2 DEF Resumes
<1>2. CASE GateAnswers
  <2>0. phase \notin Endings
    BY <1>2 DEF GateAnswers, Endings
  <2>1. ASSUME NEW next \in {"poll", "target"},
               Drives("on_pre_gate_checked", "wallet", FALSE, <<"pre_gate_checked">>, next)
        PROVE  TraceInv'
    <3>1. Says(next, <<"pre_gate_checked">>) /\ <<"pre_gate_checked">> \in Seq(EventNames)
      BY <1>a, EventsSay
    <3> QED BY <2>0, <2>1, <3>1, <1>b, TraceDrives
  <2>2. ASSUME Drives("on_pre_gate_checked", "wallet", FALSE,
                      <<"pre_gate_checked", "run_finished", "sequence_halted">>, "halted")
        PROVE  TraceInv'
    <3>1. /\ Says("halted", <<"pre_gate_checked", "run_finished", "sequence_halted">>)
          /\ <<"pre_gate_checked", "run_finished", "sequence_halted">> \in Seq(EventNames)
      BY <1>a, EventsSay
    <3> QED BY <2>0, <2>2, <3>1, <1>b, TraceDrives
  <2> QED BY <1>2, <2>1, <2>2 DEF GateAnswers
<1>3. CASE AdapterPolls
  <2>1. phase \notin Endings
    BY <1>3 DEF AdapterPolls, Endings
  <2>2. Drives("on_last_finished_polled", "adapter", FALSE, <<>>, "target")
    BY <1>3 DEF AdapterPolls
  <2> QED BY <1>a, <2>1, <2>2, EventsSay, <1>b, TraceDrives
<1>4. CASE Resolves
  <2>0. phase \notin Endings
    BY <1>4 DEF Resolves, Endings
  <2>1. ASSUME Drives("on_step_resolved", "wallet", FALSE, <<"step_resolved_ok">>, "resume")
        PROVE  TraceInv'
    <3>1. Says("resume", <<"step_resolved_ok">>) /\ <<"step_resolved_ok">> \in Seq(EventNames)
      BY <1>a, EventsSay
    <3> QED BY <2>0, <2>1, <3>1, <1>b, TraceDrives
  <2>2. ASSUME Drives("on_step_resolved", "wallet", FALSE,
                      <<"step_resolved_ok", "sequence_completed", "run_finished">>,
                      "completed")
        PROVE  TraceInv'
    BY <1>a, <2>0, <2>2, EventsSay, <1>b, TraceDrives
  <2>3. ASSUME Drives("on_step_resolved", "wallet", FALSE,
                      <<"run_finished", "step_resolved_err">>, "failed")
        PROVE  TraceInv'
    BY <1>a, <2>0, <2>3, EventsSay, <1>b, TraceDrives
  <2>4. ASSUME Drives("on_step_resolved", "wallet", FALSE,
                      <<"step_resolved_ok", "run_finished", "sequence_halted">>, "halted")
        PROVE  TraceInv'
    <3>1. /\ Says("halted", <<"step_resolved_ok", "run_finished", "sequence_halted">>)
          /\ <<"step_resolved_ok", "run_finished", "sequence_halted">> \in Seq(EventNames)
      BY <1>a, EventsSay
    <3> QED BY <2>0, <2>4, <3>1, <1>b, TraceDrives
  <2> QED BY <1>4, <2>1, <2>2, <2>3, <2>4 DEF Resolves
<1>5. CASE TimesOut
  BY <1>5, TraceTimesOut
<1>6. CASE UNCHANGED traceVars
  BY <1>6 DEF traceVars, TraceInv, DriverTells, Says, Tells, Silent, Has, InTime
<1> QED BY <1>1, <1>2, <1>3, <1>4, <1>5, <1>6 DEF TraceNext

\* Sorting puts every row somewhere, and those of lower blocks first.
LEMMA SortedPermutes ==
  ASSUME NEW X, NEW rows \in Seq(X),
         \A i \in DOMAIN rows : rows[i].block \in Nat /\ rows[i].rank \in Nat
  PROVE  \E perm \in [DOMAIN rows -> DOMAIN rows] :
           /\ Sorted(rows) = [k \in DOMAIN rows |-> rows[perm[k]]]
           /\ \A i \in DOMAIN rows : \E k \in DOMAIN rows : perm[k] = i
           /\ \A k, m \in DOMAIN rows : perm[k] = perm[m] => k = m
           /\ \A k, m \in DOMAIN rows : k < m => rows[perm[k]].block <= rows[perm[m]].block
<1> DEFINE n == Len(rows)
           GoesFirst(i, j) == \/ RowBefore(rows[i], rows[j])
                              \/ i < j /\ ~RowBefore(rows[j], rows[i])
           Firsts(j) == {i \in DOMAIN rows : GoesFirst(i, j)}
           place == [j \in DOMAIN rows |-> Cardinality(Firsts(j)) + 1]
           perm == [k \in DOMAIN rows |-> CHOOSE j \in DOMAIN rows : place[j] = k]
<1>1. n \in Nat /\ DOMAIN rows = 1..n
  BY LenProperties
<1>2. \A i, j \in 1..n :
        GoesFirst(i, j) <=> \/ rows[i].block < rows[j].block
                            \/ /\ rows[i].block = rows[j].block
                               /\ \/ rows[i].rank < rows[j].rank
                                  \/ rows[i].rank = rows[j].rank /\ i < j
  <2> SUFFICES ASSUME NEW i \in 1..n, NEW j \in 1..n
               PROVE  GoesFirst(i, j) <=> \/ rows[i].block < rows[j].block
                                          \/ /\ rows[i].block = rows[j].block
                                             /\ \/ rows[i].rank < rows[j].rank
                                                \/ rows[i].rank = rows[j].rank /\ i < j
    OBVIOUS
  <2>1. /\ rows[i].block \in Nat /\ rows[i].rank \in Nat
        /\ rows[j].block \in Nat /\ rows[j].rank \in Nat
    BY <1>1
  <2> QED BY <2>1 DEF RowBefore
<1>3. Sorted(rows) = [k \in DOMAIN rows |-> rows[CHOOSE j \in DOMAIN rows : place[j] = k]]
  BY DEF Sorted
<1> HIDE DEF GoesFirst
<1>4. /\ \A i, j \in 1..n : i = j \/ GoesFirst(i, j) \/ GoesFirst(j, i)
      /\ \A i, j \in 1..n : ~(GoesFirst(i, j) /\ GoesFirst(j, i))
      /\ \A i, j, k \in 1..n : GoesFirst(i, j) /\ GoesFirst(j, k) => GoesFirst(i, k)
  <2> DEFINE b(i) == rows[i].block
             r(i) == rows[i].rank
  <2>1. \A i \in 1..n : b(i) \in Nat /\ r(i) \in Nat
    BY <1>1
  <2>2. \A i, j \in 1..n :
          GoesFirst(i, j) <=> \/ b(i) < b(j)
                              \/ b(i) = b(j) /\ r(i) < r(j)
                              \/ b(i) = b(j) /\ r(i) = r(j) /\ i < j
    BY <1>2
  <2> HIDE DEF b, r
  <2>3. \A i, j \in 1..n : i = j \/ GoesFirst(i, j) \/ GoesFirst(j, i)
    BY ONLY <1>1, <2>1, <2>2
  <2>4. \A i, j \in 1..n : ~(GoesFirst(i, j) /\ GoesFirst(j, i))
    BY ONLY <1>1, <2>1, <2>2
  <2>5. ASSUME NEW i \in 1..n, NEW j \in 1..n, NEW k \in 1..n,
               GoesFirst(i, j), GoesFirst(j, k)
        PROVE  GoesFirst(i, k)
    BY ONLY <1>1, <2>1, <2>2, <2>5
  <2> QED BY <2>3, <2>4, <2>5
<1>5. \A j \in 1..n : /\ IsFiniteSet(Firsts(j)) /\ Firsts(j) \subseteq (1..n) \ {j}
                      /\ Cardinality(Firsts(j)) \in 0..(n - 1)
  <2> SUFFICES ASSUME NEW j \in 1..n
               PROVE  /\ IsFiniteSet(Firsts(j)) /\ Firsts(j) \subseteq (1..n) \ {j}
                      /\ Cardinality(Firsts(j)) \in 0..(n - 1)
    OBVIOUS
  <2>1. Firsts(j) \subseteq (1..n) \ {j}
    BY <1>1, <1>4
  <2> HIDE DEF Firsts
  <2>2. IsFiniteSet(1..n) /\ Cardinality(1..n) = n
    <3>1. 1 \in Int /\ n \in Int
      BY <1>1
    <3>2. IsFiniteSet(1..n) /\ Cardinality(1..n) = IF 1 > n THEN 0 ELSE n - 1 + 1
      BY <3>1, FS_Interval
    <3> QED BY <1>1, <3>2
  <2>3. IsFiniteSet((1..n) \ {j}) /\ Cardinality((1..n) \ {j}) = n - 1
    BY <2>2, FS_RemoveElement
  <2>4. IsFiniteSet(Firsts(j)) /\ Cardinality(Firsts(j)) <= n - 1
    BY <2>1, <2>3, FS_Subset
  <2>5. Cardinality(Firsts(j)) \in Nat
    BY <2>4, FS_CardinalityType
  <2> QED BY <1>1, <2>1, <2>4, <2>5
<1>6. \A j \in 1..n : place[j] = Cardinality(Firsts(j)) + 1 /\ place[j] \in 1..n
  <2> HIDE DEF Firsts
  <2> QED BY <1>1, <1>5
<1>7. ASSUME NEW i \in 1..n, NEW j \in 1..n, GoesFirst(i, j)
      PROVE  place[i] < place[j]
  <2>1. Firsts(i) \subseteq Firsts(j) /\ i \in Firsts(j) /\ i \notin Firsts(i)
    BY <1>1, <1>4, <1>7
  <2> HIDE DEF Firsts, place
  <2>2. Cardinality(Firsts(i)) <= Cardinality(Firsts(j))
        /\ Cardinality(Firsts(i)) # Cardinality(Firsts(j))
    BY <1>5, <2>1, FS_Subset
  <2> QED BY <1>1, <1>5, <1>6, <2>2
<1> HIDE DEF place, Firsts
<1>8. \A i, j \in 1..n : place[i] = place[j] => i = j
  BY <1>4, <1>6, <1>7
<1>9. \A k \in 1..n : \E j \in 1..n : place[j] = k
  <2>1. place \in [1..n -> 1..n]
    BY <1>1, <1>6 DEF place
  <2>2. place \in Injection(1..n, 1..n)
    BY <1>8, <2>1 DEF Injection, IsInjective
  <2>3. IsFiniteSet(1..n)
    BY <1>1, FS_Interval
  <2>4. place \in Surjection(1..n, 1..n)
    BY <2>2, <2>3, FS_Injection
  <2> QED BY <2>4 DEF Surjection
<1>10. \A k \in 1..n : perm[k] \in 1..n /\ place[perm[k]] = k
  <2> SUFFICES ASSUME NEW k \in 1..n PROVE perm[k] \in 1..n /\ place[perm[k]] = k
    OBVIOUS
  <2>1. perm[k] = CHOOSE j \in 1..n : place[j] = k
    BY <1>1
  <2> QED BY <1>9, <2>1
<1>11. perm \in [DOMAIN rows -> DOMAIN rows]
  BY <1>1, <1>10
<1>12. Sorted(rows) = [k \in DOMAIN rows |-> rows[perm[k]]]
  BY <1>3
<1> HIDE DEF perm
<1>13. \A i \in 1..n : place[i] \in 1..n /\ perm[place[i]] = i
  BY <1>6, <1>8, <1>10
<1>14. ASSUME NEW k \in 1..n, NEW m \in 1..n, k < m
       PROVE  rows[perm[k]].block <= rows[perm[m]].block
  <2>1. /\ rows[perm[k]].block \in Nat /\ rows[perm[m]].block \in Nat
        /\ perm[k] \in 1..n /\ perm[m] \in 1..n
    BY <1>1, <1>10
  <2>2. ~GoesFirst(perm[m], perm[k])
    BY <1>1, <1>7, <1>10, <1>14, <2>1
  <2>3. ~(rows[perm[m]].block < rows[perm[k]].block)
    BY <1>2, <2>1, <2>2
  <2> QED BY <2>1, <2>3
<1>15. \A k, m \in 1..n : perm[k] = perm[m] => k = m
  BY <1>10
<1> QED BY <1>1, <1>11, <1>12, <1>13, <1>14, <1>15

LEMMA TraceInvGivesBanner == TraceInv => BannerTellsEnd
<1> SUFFICES ASSUME TraceInv, ~expired
             PROVE  build_outcome_banner(Events) =
                      CASE phase = "completed" -> "sequence_completed"
                        [] phase = "halted" -> "sequence_halted"
                        [] OTHER -> "none"
  BY DEF BannerTellsEnd
<1> DEFINE n == Len(hops)
<1>1. hops \in Seq(Hop) /\ DriverTells
  BY DEF TraceInv
<1>2. n \in Nat /\ DOMAIN hops = 1..n /\ \A i \in 1..n : hops[i] \in Hop
  BY <1>1, LenProperties, ElementOfSeq
<1>3. PICK perm \in [1..n -> 1..n] :
        /\ Events = FlattenSeq([k \in 1..n |-> hops[perm[k]].events])
        /\ \A i \in 1..n : \E k \in 1..n : perm[k] = i
  <2>1. ActionRows \in Seq({ActionRows[i] : i \in 1..n})
    BY <1>2 DEF ActionRows
  <2>2. /\ DOMAIN ActionRows = 1..n
        /\ \A i \in 1..n : ActionRows[i].block = hops[i].block
                           /\ ActionRows[i].rank = hops[i].rank
                           /\ ActionRows[i].events = hops[i].events
    BY <1>2 DEF ActionRows
  <2>3. \A i \in 1..n : hops[i].block \in Nat /\ hops[i].rank \in Nat
    BY <1>2, HopNumbers
  <2>4. \A i \in DOMAIN ActionRows :
          ActionRows[i].block \in Nat /\ ActionRows[i].rank \in Nat
    BY <2>2, <2>3
  <2>5. PICK perm \in [1..n -> 1..n] :
          /\ Sorted(ActionRows) = [k \in 1..n |-> ActionRows[perm[k]]]
          /\ \A i \in 1..n : \E k \in 1..n : perm[k] = i
    <3> DEFINE all == ActionRows
    <3>1. all \in Seq({ActionRows[i] : i \in 1..n})
      BY <2>1
    <3>2. \A i \in DOMAIN all : all[i].block \in Nat /\ all[i].rank \in Nat
      BY <2>4
    <3>3. DOMAIN all = 1..n
      BY <2>2
    <3> HIDE DEF all
    <3>4. \E perm \in [DOMAIN all -> DOMAIN all] :
            /\ Sorted(all) = [k \in DOMAIN all |-> all[perm[k]]]
            /\ \A i \in DOMAIN all : \E k \in DOMAIN all : perm[k] = i
      BY <3>1, <3>2, SortedPermutes
    <3> QED BY <3>3, <3>4 DEF all
  <2>6. \A k \in 1..n : ActionRows[perm[k]].events = hops[perm[k]].events
    BY <2>2, <2>5
  <2>7. Events = FlattenSeq([k \in 1..n |-> ActionRows[perm[k]].events])
    BY <2>5 DEF Events
  <2>8. [k \in 1..n |-> ActionRows[perm[k]].events] = [k \in 1..n |-> hops[perm[k]].events]
    BY <2>6
  <2> QED BY <2>5, <2>7, <2>8
<1> DEFINE told == [k \in 1..n |-> hops[perm[k]].events]
<1>4. told \in Seq(Seq(EventNames)) /\ DOMAIN told = 1..n
  <2>1. \A i \in 1..n : hops[i].events \in Seq(EventNames)
    BY <1>2 DEF Hop
  <2>2. \A k \in 1..n : hops[perm[k]].events \in Seq(EventNames)
    BY <1>3, <2>1
  <2> QED BY <1>2, <2>2
<1>5. \A k \in 1..n : told[k] = hops[perm[k]].events
  OBVIOUS
<1> HIDE DEF told
<1> DEFINE events == FlattenSeq(told)
           terminal == {i \in DOMAIN events : IsTerminal(events[i])}
<1>6. events \in Seq(EventNames)
  BY <1>4, FlattenFacts
<1>7. \A x : Has(events, x) <=> \E i \in 1..n : Has(hops[i].events, x)
  <2>1. \A x : Has(events, x) <=> \E i \in DOMAIN told : Has(told[i], x)
    BY <1>4, FlattenHas
  <2> HIDE DEF events
  <2>2. \A x : (\E k \in 1..n : Has(told[k], x)) <=> \E i \in 1..n : Has(hops[i].events, x)
    <3> SUFFICES ASSUME NEW x
                 PROVE  (\E k \in 1..n : Has(told[k], x)) <=> \E i \in 1..n : Has(hops[i].events, x)
      OBVIOUS
    <3>1. ASSUME NEW k \in 1..n, Has(told[k], x) PROVE \E i \in 1..n : Has(hops[i].events, x)
      <4>1. perm[k] \in 1..n
        BY <1>3
      <4> QED BY <1>5, <3>1, <4>1
    <3>2. ASSUME NEW i \in 1..n, Has(hops[i].events, x) PROVE \E k \in 1..n : Has(told[k], x)
      <4>1. PICK k \in 1..n : perm[k] = i
        BY <1>3
      <4> QED BY <1>5, <3>2, <4>1
    <3> QED BY <3>1, <3>2
  <2> QED BY <1>4, <2>1, <2>2
<1> HIDE DEF events
<1>8. Len(events) \in Nat /\ terminal \subseteq 1..Len(events)
      /\ \A i \in terminal : IsTerminal(events[i]) /\ Has(events, events[i])
  <2>1. DOMAIN events = 1..Len(events) /\ Len(events) \in Nat
    BY <1>6, LenProperties
  <2> QED BY <2>1 DEF Has
<1>9. build_outcome_banner(Events)
        = IF terminal = {} THEN "none" ELSE events[Max(terminal)]
  BY <1>3 DEF build_outcome_banner, events, told
<1>10. ASSUME NEW e, IsTerminal(e), n # 0, Tells(hops[n].events, e)
       PROVE  build_outcome_banner(Events) = e
  <2>1. Has(hops[n].events, e)
    BY <1>10 DEF Tells
  <2>2. Has(events, e)
    BY <1>2, <1>7, <1>10, <2>1
  <2>3. terminal # {}
    BY <1>10, <2>2 DEF Has
  <2>4. Max(terminal) \in terminal
    <3> HIDE DEF terminal
    <3> QED BY <1>8, <2>3, MaxFacts
  <2>5. ASSUME NEW m \in terminal PROVE events[m] = e
    <3>1. IsTerminal(events[m]) /\ Has(events, events[m])
      BY <1>8
    <3>2. PICK i \in 1..n : Has(hops[i].events, events[m])
      BY <1>7, <3>1
    <3>3. i = n
      BY <1>1, <1>2, <3>1, <3>2 DEF DriverTells, Silent, Has, n
    <3> QED BY <1>10, <3>1, <3>2, <3>3 DEF Tells, Has
  <2> QED BY <1>9, <2>3, <2>4, <2>5
<1>11. CASE phase \in Endings
  <2>1. hops # <<>> /\ n # 0
    BY <1>1, <1>2, <1>11, EmptySeq DEF DriverTells, n
  <2>2. Says(phase, hops[n].events)
    BY <1>1, <2>1 DEF DriverTells, n
  <2>3. CASE phase = "completed"
    BY <1>10, <2>1, <2>2, <2>3 DEF Says, IsTerminal
  <2>4. CASE phase = "halted"
    BY <1>10, <2>1, <2>2, <2>4 DEF Says, IsTerminal
  <2> QED BY <1>11, <2>3, <2>4 DEF Endings
<1>12. CASE phase \notin Endings
  <2>1. \A i \in 1..n : Silent(hops[i].events)
    <3> SUFFICES ASSUME NEW i \in 1..n PROVE Silent(hops[i].events)
      OBVIOUS
    <3>1. CASE i # n
      BY <1>1, <1>2, <3>1 DEF DriverTells, n
    <3>2. CASE i = n
      <4>1. hops # <<>>
        BY <1>2, <3>2 DEF n
      <4> QED BY <1>1, <1>12, <3>2, <4>1 DEF DriverTells, Says, n
    <3> QED BY <3>1, <3>2
  <2>2. terminal = {}
    <3> SUFFICES ASSUME NEW m \in terminal PROVE FALSE
      OBVIOUS
    <3>1. IsTerminal(events[m]) /\ Has(events, events[m])
      BY <1>8
    <3>2. PICK i \in 1..n : Has(hops[i].events, events[m])
      BY <1>7, <3>1
    <3> QED BY <2>1, <3>1, <3>2 DEF Silent, Has
  <2>3. build_outcome_banner(Events) = "none"
    BY <1>9, <2>2
  <2> QED BY <1>12, <2>3 DEF Endings
<1> QED BY <1>11, <1>12

\* The banner of a transaction of which no yield timed out tells how its sequence
\* ended, however many callbacks it has and however their blocks lie.
THEOREM BannerSafe == TraceSpec => []BannerTellsEnd
<1>1. TraceInit => TraceInv
  BY TraceInitially
<1> QED BY <1>1, TraceStep, TraceInvGivesBanner, PTL DEF TraceSpec

----------------------------------------------------------------------------
(* The observer's pairing.                                                 *)

\* rows are those of the callbacks and of their data, block by block: act and dat
\* say where.
Places(rows, act, dat) ==
  /\ DOMAIN rows = 1..(2 * Len(hops))
  /\ \A i \in 1..Len(hops) : /\ act[i] \in DOMAIN rows /\ rows[act[i]] = ActionRows[i]
                             /\ dat[i] \in DOMAIN rows /\ rows[dat[i]] = DataRows[i]
  /\ \A k \in DOMAIN rows : \E i \in 1..Len(hops) : k = act[i] \/ k = dat[i]
  /\ \A k, m \in DOMAIN rows : k < m => rows[k].block <= rows[m].block

LEMMA RowFields ==
  ASSUME TraceInv, NEW i \in 1..Len(hops)
  PROVE  /\ hops[i] \in Hop /\ InTime(hops[i])
         /\ ActionRows[i].kind = "action" /\ DataRows[i].kind = "data"
         /\ ActionRows[i].own = i /\ DataRows[i].own = i
         /\ ActionRows[i].account = hops[i].account /\ DataRows[i].account = hops[i].account
         /\ ActionRows[i].block = hops[i].block /\ DataRows[i].block = hops[i].data_block
         /\ ActionRows[i].rank = hops[i].rank /\ DataRows[i].rank = hops[i].data_rank
         /\ ActionRows[i].method = hops[i].method /\ DataRows[i].resume = hops[i].resume
<1>1. DOMAIN hops = 1..Len(hops) /\ hops[i] \in Hop
  BY LenProperties, ElementOfSeq DEF TraceInv
<1>2. InTime(hops[i])
  BY <1>1 DEF TraceInv
<1> QED BY <1>1, <1>2 DEF ActionRows, DataRows

LEMMA RowsPlaced ==
  ASSUME TraceInv
  PROVE  \E act, dat : Places(SortedRows, act, dat)
<1> DEFINE n == Len(hops)
           both == ActionRows \o DataRows
<1>1. n \in Nat /\ DOMAIN hops = 1..n
  BY LenProperties DEF TraceInv
<1>2. /\ ActionRows \in Seq({ActionRows[i] : i \in 1..n} \union {DataRows[i] : i \in 1..n})
      /\ DataRows \in Seq({ActionRows[i] : i \in 1..n} \union {DataRows[i] : i \in 1..n})
      /\ Len(ActionRows) = n /\ Len(DataRows) = n
  <2>1. DOMAIN ActionRows = 1..n /\ DOMAIN DataRows = 1..n
    BY <1>1 DEF ActionRows, DataRows
  <2>2. ActionRows = [i \in 1..n |-> ActionRows[i]] /\ DataRows = [i \in 1..n |-> DataRows[i]]
    BY <1>1 DEF ActionRows, DataRows
  <2> QED BY <1>1, <2>1, <2>2
<1> DEFINE X == {ActionRows[i] : i \in 1..n} \union {DataRows[i] : i \in 1..n}
<1>3. /\ both \in Seq(X) /\ Len(both) = n + n
      /\ \A i \in 1..n : both[i] = ActionRows[i] /\ both[n + i] = DataRows[i]
  <2> HIDE DEF X
  <2>1. ActionRows \in Seq(X) /\ DataRows \in Seq(X)
    BY <1>2 DEF X
  <2>2. /\ both \in Seq(X) /\ Len(both) = Len(ActionRows) + Len(DataRows)
        /\ \A k \in 1..(Len(ActionRows) + Len(DataRows)) :
             both[k] = IF k <= Len(ActionRows) THEN ActionRows[k]
                       ELSE DataRows[k - Len(ActionRows)]
    BY <2>1, ConcatProperties
  <2> HIDE DEF both
  <2>3. \A i \in 1..n : both[i] = ActionRows[i]
    BY <1>1, <1>2, <2>2
  <2>4. ASSUME NEW i \in 1..n PROVE both[n + i] = DataRows[i]
    <3>1. n + i \in 1..(n + n) /\ ~(n + i <= n) /\ n + i - n = i
      BY <1>1
    <3> QED BY <1>2, <2>2, <3>1
  <2> QED BY <1>2, <2>2, <2>3, <2>4
<1> HIDE DEF X, both
<1>4. DOMAIN both = 1..(n + n)
  BY <1>3, LenProperties
<1>5. ASSUME NEW k \in 1..(n + n)
      PROVE  \E i \in 1..n : k = i \/ k = n + i
  <2>1. k \in 1..n \/ k - n \in 1..n
    BY <1>1
  <2>2. k = n + (k - n)
    BY <1>1
  <2> QED BY <2>1, <2>2
<1>6. ASSUME NEW k \in DOMAIN both PROVE both[k].block \in Nat /\ both[k].rank \in Nat
  <2>1. PICK i \in 1..n : both[k] = ActionRows[i] \/ both[k] = DataRows[i]
    BY <1>3, <1>4, <1>5
  <2>2. /\ hops[i] \in Hop
        /\ ActionRows[i].block = hops[i].block /\ DataRows[i].block = hops[i].data_block
        /\ ActionRows[i].rank = hops[i].rank /\ DataRows[i].rank = hops[i].data_rank
    BY RowFields
  <2>3. /\ hops[i].block \in Nat /\ hops[i].data_block \in Nat
        /\ hops[i].rank \in Nat /\ hops[i].data_rank \in Nat
    BY <2>2, HopNumbers
  <2> QED BY <2>1, <2>2, <2>3
<1>7. PICK perm \in [DOMAIN both -> DOMAIN both] :
        /\ Sorted(both) = [k \in DOMAIN both |-> both[perm[k]]]
        /\ \A i \in DOMAIN both : \E k \in DOMAIN both : perm[k] = i
        /\ \A k, m \in DOMAIN both : perm[k] = perm[m] => k = m
        /\ \A k, m \in DOMAIN both : k < m => both[perm[k]].block <= both[perm[m]].block
  BY <1>3, <1>6, SortedPermutes
<1> DEFINE rows == SortedRows
           act == [i \in 1..n |-> CHOOSE k \in DOMAIN both : perm[k] = i]
           dat == [i \in 1..n |-> CHOOSE k \in DOMAIN both : perm[k] = n + i]
<1>8. rows = [k \in DOMAIN both |-> both[perm[k]]]
  BY <1>7 DEF SortedRows, both
<1> HIDE DEF rows
<1>9. DOMAIN rows = 1..(2 * Len(hops))
  BY <1>1, <1>4, <1>8
<1>10. \A i \in 1..n : /\ act[i] \in DOMAIN both /\ perm[act[i]] = i
                       /\ dat[i] \in DOMAIN both /\ perm[dat[i]] = n + i
  <2> SUFFICES ASSUME NEW i \in 1..n
               PROVE  /\ act[i] \in DOMAIN both /\ perm[act[i]] = i
                      /\ dat[i] \in DOMAIN both /\ perm[dat[i]] = n + i
    OBVIOUS
  <2>1. i \in DOMAIN both /\ n + i \in DOMAIN both
    BY <1>1, <1>4
  <2>2. (\E k \in DOMAIN both : perm[k] = i) /\ \E k \in DOMAIN both : perm[k] = n + i
    BY <1>7, <2>1
  <2> QED BY <2>2
<1> HIDE DEF act, dat
<1>11. \A i \in 1..n : /\ act[i] \in DOMAIN rows /\ rows[act[i]] = ActionRows[i]
                       /\ dat[i] \in DOMAIN rows /\ rows[dat[i]] = DataRows[i]
  BY <1>3, <1>8, <1>10
<1>12. ASSUME NEW k \in DOMAIN rows
       PROVE  \E i \in 1..n : k = act[i] \/ k = dat[i]
  <2>1. k \in DOMAIN both /\ perm[k] \in 1..(n + n)
    BY <1>4, <1>7, <1>8
  <2>2. PICK i \in 1..n : perm[k] = i \/ perm[k] = n + i
    BY <1>5, <2>1
  <2>3. perm[k] = perm[act[i]] \/ perm[k] = perm[dat[i]]
    BY <1>10, <2>2
  <2> QED BY <1>7, <1>10, <2>1, <2>3
<1>13. \A k, m \in DOMAIN rows : k < m => rows[k].block <= rows[m].block
  BY <1>7, <1>8
<1>14. Places(rows, act, dat)
  BY <1>9, <1>11, <1>12, <1>13 DEF Places
<1> QED BY <1>14 DEF rows

\* claims after the first k rows: those of the callbacks among them have data of
\* their account, block and kind.
Served(rows, k, c) ==
  /\ c \in DOMAIN rows /\ rows[c].kind = "data" /\ rows[c].account = rows[k].account
  /\ rows[c].block = hops[rows[k].own].data_block
  /\ rows[c].resume = hops[rows[k].own].resume

ClaimsTo(rows, claims, k) ==
  /\ DOMAIN claims = DOMAIN rows
  /\ \A m \in DOMAIN rows :
       IF m <= k /\ rows[m].kind = "action" THEN Served(rows, m, claims[m]) ELSE claims[m] = 0

\* Of the data that would do for a callback some is left when its turn comes: each
\* callback that took some has data of its own that would do.
LEMMA SomeIsLeft ==
  ASSUME TraceInv, NEW rows, NEW act, NEW dat, Places(rows, act, dat),
         NEW k \in DOMAIN rows, NEW claims, ClaimsTo(rows, claims, k - 1),
         NEW i \in 1..Len(hops), k = act[i]
  PROVE  \E j \in 1..Len(hops) :
           /\ dat[j] \notin {claims[m] : m \in DOMAIN rows}
           /\ hops[j].account = hops[i].account /\ hops[j].data_block = hops[i].data_block
           /\ hops[j].resume = hops[i].resume
<1> DEFINE n == Len(hops)
           twins == {j \in 1..n : /\ hops[j].account = hops[i].account
                                  /\ hops[j].data_block = hops[i].data_block
                                  /\ hops[j].resume = hops[i].resume}
           others == twins \ {i}
<1>0. n \in Nat
  BY LenProperties DEF TraceInv
<1>1. SUFFICES ASSUME \A j \in twins : dat[j] \in {claims[m] : m \in DOMAIN rows}
               PROVE  FALSE
  OBVIOUS
<1>2. ASSUME NEW j \in twins
      PROVE  \E m \in others : claims[act[m]] = dat[j]
  <2>1. PICK x \in DOMAIN rows : claims[x] = dat[j]
    BY <1>1
  <2>2. j \in 1..n /\ dat[j] # 0
    BY <1>0 DEF Places
  <2>3. x <= k - 1 /\ rows[x].kind = "action" /\ Served(rows, x, dat[j])
    BY <2>1, <2>2 DEF ClaimsTo
  <2>4. PICK m \in 1..n : x = act[m]
    <3>1. PICK m \in 1..n : x = act[m] \/ x = dat[m]
      BY DEF Places
    <3>2. x # dat[m]
      <4>1. rows[dat[m]] = DataRows[m] /\ DataRows[m].kind = "data"
        BY RowFields DEF Places
      <4> QED BY <2>3, <4>1
    <3> QED BY <3>1, <3>2
  <2>5. rows[x] = ActionRows[m] /\ rows[dat[j]] = DataRows[j]
    BY <2>2, <2>4 DEF Places
  <2>6. /\ hops[j].account = hops[m].account /\ hops[j].data_block = hops[m].data_block
        /\ hops[j].resume = hops[m].resume
    BY <2>2, <2>3, <2>5, RowFields DEF Served
  <2>7. m \in twins
    BY <2>6
  <2>8. m # i
    <3>1. k \in Nat /\ x \in Nat
      BY <1>0 DEF Places
    <3> QED BY <2>3, <2>4, <3>1
  <2> QED BY <2>1, <2>4, <2>7, <2>8
<1>3. i \in twins
  OBVIOUS
<1>4. IsFiniteSet(twins) /\ IsFiniteSet(others) /\ Cardinality(others) < Cardinality(twins)
  <2>1. IsFiniteSet(1..n)
    BY <1>0, FS_Interval
  <2>2. twins \in SUBSET (1..n)
    OBVIOUS
  <2> HIDE DEF twins
  <2>3. IsFiniteSet(twins)
    BY <2>1, <2>2, FS_Subset
  <2>4. IsFiniteSet(others) /\ Cardinality(others) = Cardinality(twins) - 1
    BY <1>3, <2>3, FS_RemoveElement
  <2>5. Cardinality(twins) \in Nat
    BY <2>3, FS_CardinalityType
  <2> QED BY <2>3, <2>4, <2>5
<1> DEFINE taker == [j \in twins |-> CHOOSE m \in others : claims[act[m]] = dat[j]]
<1>5. \A j \in twins : j \in 1..n
  OBVIOUS
<1> HIDE DEF twins, others
<1>6. \A j \in twins : taker[j] \in others /\ claims[act[taker[j]]] = dat[j]
  BY <1>2
<1>7. taker \in [twins -> others]
  BY <1>6
<1> HIDE DEF taker
<1>8. PICK x, y \in twins : x # y /\ taker[x] = taker[y]
  BY <1>4, <1>7, FS_PigeonHole
<1>9. dat[x] = dat[y]
  BY <1>6, <1>8
<1>10. rows[dat[x]] = DataRows[x] /\ rows[dat[y]] = DataRows[y]
  BY <1>5, <1>8 DEF Places
<1>11. DataRows[x].own = x /\ DataRows[y].own = y
  BY <1>5, <1>8, RowFields
<1> QED BY <1>8, <1>9, <1>10, <1>11

LEMMA BestIsBest ==
  ASSUME NEW rows, NEW i, NEW n \in Nat, NEW candidates \in SUBSET (1..n), candidates # {},
         NEW B \in Nat, \A c \in candidates : Score(rows[c], rows[i].method) \in 0..B
  PROVE  LET best == BestOf(rows, i, candidates) IN
         /\ best \in candidates
         /\ \A c \in candidates :
              Score(rows[c], rows[i].method) <= Score(rows[best], rows[i].method)
<1> DEFINE s(c) == Score(rows[c], rows[i].method)
           gaps == {B - s(c) : c \in candidates}
<1>1. \A c \in candidates : s(c) \in 0..B
  OBVIOUS
<1> HIDE DEF s
<1>2. PICK least \in gaps : \A g \in gaps : least <= g
  <2>1. gaps \subseteq Nat /\ gaps # {}
    <3>1. \A c \in candidates : B - s(c) \in Nat
      BY <1>1
    <3>2. \E c \in candidates : TRUE
      OBVIOUS
    <3> QED BY <3>1, <3>2
  <2> HIDE DEF gaps
  <2> QED BY <2>1, LeastNumber
<1>3. PICK top \in candidates : least = B - s(top)
  BY <1>2
<1>4. ASSUME NEW c \in candidates PROVE s(c) <= s(top)
  <2>1. B - s(top) <= B - s(c)
    BY <1>2, <1>3
  <2> QED BY <1>1, <2>1
<1> DEFINE ties == {c \in candidates : s(c) = s(top)}
<1>5. PICK best \in ties : \A c \in ties : best <= c
  <2>1. ties \subseteq candidates /\ top \in ties
    BY <1>3
  <2>2. candidates \subseteq Nat
    OBVIOUS
  <2> HIDE DEF ties
  <2> QED BY <2>1, <2>2, LeastNumber
<1>6. \A c \in candidates : s(best) > s(c) \/ (s(best) = s(c) /\ best <= c)
  <2> SUFFICES ASSUME NEW c \in candidates
               PROVE  s(best) > s(c) \/ (s(best) = s(c) /\ best <= c)
    OBVIOUS
  <2>1. s(best) = s(top) /\ best \in candidates
    BY <1>5
  <2>2. s(c) = s(top) => best <= c
    BY <1>5
  <2> QED BY <1>1, <1>4, <2>1, <2>2
<1> DEFINE chosen == CHOOSE j \in candidates : \A c \in candidates :
                       s(j) > s(c) \/ (s(j) = s(c) /\ j <= c)
<1>7. chosen \in candidates /\ \A c \in candidates : s(chosen) > s(c) \/ s(chosen) = s(c)
  BY <1>5, <1>6
<1>8. BestOf(rows, i, candidates) = chosen
  BY DEF BestOf, s
<1> HIDE DEF chosen
<1>9. \A c \in candidates : s(c) <= s(chosen)
  BY <1>1, <1>7
<1> QED BY <1>7, <1>8, <1>9 DEF s

LEMMA ClaimServes ==
  ASSUME TraceInv, Undisturbed, NEW rows, NEW act, NEW dat, Places(rows, act, dat),
         NEW k \in DOMAIN rows, NEW claims, ClaimsTo(rows, claims, k - 1)
  PROVE  ClaimsTo(rows, claim(rows, claims, k), k)
<1> DEFINE n == Len(hops)
           claimed == {claims[m] : m \in DOMAIN rows}
           candidates == Candidates(rows, k, claimed)
           best == BestOf(rows, k, candidates)
<1>0. n \in Nat /\ DOMAIN hops = 1..n /\ DOMAIN rows = 1..(2 * n) /\ k \in Nat
  BY LenProperties DEF TraceInv, Places
<1>1. \A m \in DOMAIN rows : m <= k <=> m <= k - 1 \/ m = k
  BY <1>0
<1>2. CASE rows[k].kind = "data"
  <2>1. claim(rows, claims, k) = claims
    BY <1>2 DEF claim
  <2> QED BY <1>1, <1>2, <2>1 DEF ClaimsTo
<1>3. CASE rows[k].kind # "data"
  <2>1. PICK i \in 1..n : k = act[i]
    <3>1. PICK i \in 1..n : k = act[i] \/ k = dat[i]
      BY DEF Places
    <3>2. k # dat[i]
      <4>1. rows[dat[i]] = DataRows[i] /\ DataRows[i].kind = "data"
        BY RowFields DEF Places
      <4> QED BY <1>3, <4>1
    <3> QED BY <3>1, <3>2
  <2>2. rows[k] = ActionRows[i]
    BY <2>1 DEF Places
  <2>3. /\ rows[k].own = i /\ rows[k].account = hops[i].account /\ rows[k].kind = "action"
        /\ rows[k].block = hops[i].block /\ rows[k].method = hops[i].method
    BY <2>2, RowFields
  <2>4. PICK j \in 1..n :
          /\ dat[j] \notin claimed
          /\ hops[j].account = hops[i].account /\ hops[j].data_block = hops[i].data_block
          /\ hops[j].resume = hops[i].resume
    BY <2>1, SomeIsLeft
  <2>5. /\ hops[i].data_block \in Nat /\ hops[i].block \in Nat
        /\ hops[i].data_block <= hops[i].block
        /\ hops[i].resume = (hops[i].method = "on_step_resumed")
    BY RowFields, HopNumbers DEF InTime, Fits
  <2>6. /\ dat[j] \in DOMAIN rows /\ rows[dat[j]] = DataRows[j]
        /\ rows[dat[j]].kind = "data" /\ rows[dat[j]].account = hops[i].account
        /\ rows[dat[j]].block = hops[i].data_block /\ rows[dat[j]].resume = hops[i].resume
    BY <2>4, RowFields DEF Places
  <2>7. dat[j] \in candidates
    BY <2>3, <2>4, <2>5, <2>6 DEF Candidates
  <2>8. candidates \subseteq DOMAIN rows
    BY DEF Candidates
  <2>9. ASSUME NEW c \in candidates
        PROVE  /\ \E m \in 1..n : rows[c] = DataRows[m]
               /\ rows[c].kind = "data" /\ rows[c].account = hops[i].account
               /\ rows[c].block \in Nat /\ rows[c].block <= hops[i].data_block
    <3>1. c \in DOMAIN rows /\ rows[c].kind = "data" /\ rows[c].account = hops[i].account
          /\ rows[c].block <= hops[i].block
      BY <2>3 DEF Candidates
    <3>2. PICK m \in 1..n : c = act[m] \/ c = dat[m]
      BY <3>1 DEF Places
    <3>3. rows[c] = DataRows[m]
      <4>1. /\ rows[act[m]] = ActionRows[m] /\ ActionRows[m].kind = "action"
            /\ rows[dat[m]] = DataRows[m]
        BY RowFields DEF Places
      <4> QED BY <3>1, <3>2, <4>1
    <3>4. rows[c].block = hops[m].data_block /\ hops[m].account = hops[i].account
          /\ hops[m].data_block \in Nat
      BY <3>1, <3>3, RowFields, HopNumbers
    <3>5. ~(hops[i].data_block < hops[m].data_block /\ hops[m].data_block <= hops[i].block)
      BY <1>0, <3>4 DEF Undisturbed
    <3> QED BY <2>5, <3>1, <3>3, <3>4, <3>5
  <2>10. ASSUME NEW c \in candidates
         PROVE  Score(rows[c], rows[k].method) \in 0..(2 * hops[i].data_block + 1)
    <3>1. rows[c].block \in Nat /\ rows[c].block <= hops[i].data_block
      BY <2>9
    <3>2. Score(rows[c], rows[k].method) = 2 * rows[c].block + 1
          \/ Score(rows[c], rows[k].method) = 2 * rows[c].block
      BY <3>1 DEF Score
    <3> DEFINE b == rows[c].block
               d == hops[i].data_block
    <3>3. b \in Nat /\ d \in Nat /\ b <= d
      BY <2>5, <3>1
    <3> HIDE DEF b, d
    <3>4. 2 * b \in 0..(2 * d + 1) /\ 2 * b + 1 \in 0..(2 * d + 1)
      BY ONLY <3>3
    <3> QED BY ONLY <3>2, <3>4 DEF b, d
  <2>11. /\ best \in candidates
         /\ Score(rows[dat[j]], rows[k].method) <= Score(rows[best], rows[k].method)
    <3> HIDE DEF candidates
    <3>1. candidates \in SUBSET (1..(2 * n)) /\ candidates # {}
      BY <1>0, <2>7, <2>8
    <3>2. 2 * n \in Nat /\ 2 * hops[i].data_block + 1 \in Nat
      BY <1>0, <2>5
    <3> QED BY <2>7, <2>10, <3>1, <3>2, BestIsBest
  <2> HIDE DEF candidates, best
  <2>12. Expected(rows[dat[j]], rows[k].method)
    BY <2>3, <2>5, <2>6 DEF Expected
  <2>13. Score(rows[dat[j]], rows[k].method) = 2 * hops[i].data_block + 1
    BY <2>6, <2>12 DEF Score
  <2>14. /\ rows[best].kind = "data" /\ rows[best].account = hops[i].account
         /\ rows[best].block \in Nat /\ rows[best].block <= hops[i].data_block
         /\ \E m \in 1..n : rows[best] = DataRows[m]
    BY <2>9, <2>11
  <2>15. /\ Score(rows[best], rows[k].method) = 2 * rows[best].block + 1
            \/ Score(rows[best], rows[k].method) = 2 * rows[best].block
         /\ Expected(rows[best], rows[k].method)
            \/ Score(rows[best], rows[k].method) = 2 * rows[best].block
    BY <2>14 DEF Score
  <2>16. rows[best].block = hops[i].data_block /\ Expected(rows[best], rows[k].method)
    <3>1. Score(rows[best], rows[k].method) >= 2 * hops[i].data_block + 1
      BY ONLY <2>5, <2>11, <2>13, <2>14, <2>15
    <3> DEFINE b == rows[best].block
               d == hops[i].data_block
               score == Score(rows[best], rows[k].method)
    <3>2. b \in Nat /\ d \in Nat /\ b <= d
      BY ONLY <2>5, <2>14
    <3>3. score >= 2 * d + 1 /\ (score = 2 * b + 1 \/ score = 2 * b)
      BY ONLY <2>15, <3>1
    <3>4. Expected(rows[best], rows[k].method) \/ score = 2 * b
      BY ONLY <2>15
    <3> HIDE DEF b, d, score
    <3>5. b = d /\ score # 2 * b
      BY ONLY <3>2, <3>3
    <3> QED BY ONLY <3>4, <3>5 DEF b, d
  <2>17. rows[best].resume = hops[i].resume
    BY <2>3, <2>5, <2>16 DEF Expected
  <2>18. Served(rows, k, best)
    BY <2>3, <2>8, <2>11, <2>14, <2>16, <2>17 DEF Served
  <2>19. claim(rows, claims, k) = [claims EXCEPT ![k] = best]
    BY <1>3, <2>7 DEF claim, candidates, best
  <2>20. DOMAIN claims = DOMAIN rows
    BY DEF ClaimsTo
  <2> DEFINE next == [claims EXCEPT ![k] = best]
  <2>21. DOMAIN next = DOMAIN rows /\ next[k] = best
         /\ \A m \in DOMAIN rows : m # k => next[m] = claims[m]
    BY <2>20
  <2> HIDE DEF next
  <2>22. ASSUME NEW m \in DOMAIN rows
         PROVE  IF m <= k /\ rows[m].kind = "action" THEN Served(rows, m, next[m])
                ELSE next[m] = 0
    <3>1. CASE m = k
      BY <1>1, <2>3, <2>18, <2>21, <3>1
    <3>2. CASE m # k
      BY <1>1, <2>21, <3>2 DEF ClaimsTo
    <3> QED BY <3>1, <3>2
  <2> QED BY <2>19, <2>21, <2>22 DEF ClaimsTo, next
<1> QED BY <1>2, <1>3

\* iter is the recursive function that the fold of correlate_resumes defines; ids are
\* the indices it folds over.
Claims(rows, ids, n, iter) ==
  iter = [s \in SUBSET (1..n) |->
            IF s = {} THEN [i \in DOMAIN rows |-> 0]
            ELSE claim(rows, iter[s \ {Max(s)}], ids[Max(s)])]

LEMMA CorrelateIterates ==
  ASSUME NEW rows, NEW n, DOMAIN rows = 1..n
  PROVE  correlate_resumes(rows)
           = (CHOOSE iter : Claims(rows, [i \in DOMAIN rows |-> i], n, iter))[1..n]
BY DEF correlate_resumes, FoldLeftDomain, FoldLeft, MapThenFoldSet, Claims

LEMMA ClaimsExist ==
  ASSUME NEW rows, NEW ids, NEW n \in Nat
  PROVE  \E iter : Claims(rows, ids, n, iter)
<1> DEFINE Good == {m \in Nat : \E iter : Claims(rows, ids, m, iter)}
<1>1. 0 \in Good
  <2> DEFINE g == [s \in SUBSET (1..0) |-> [i \in DOMAIN rows |-> 0]]
  <2>1. SUBSET (1..0) = {{}}
    OBVIOUS
  <2>2. Claims(rows, ids, 0, g)
    BY <2>1 DEF Claims
  <2> QED BY <2>2
<1>2. ASSUME NEW k \in 1..n, k - 1 \in Good PROVE k \in Good
  <2>1. PICK f : Claims(rows, ids, k - 1, f)
    BY <1>2
  <2> DEFINE Round(h, s) == IF s = {} THEN [i \in DOMAIN rows |-> 0]
                            ELSE claim(rows, h[s \ {Max(s)}], ids[Max(s)])
             g == [s \in SUBSET (1..k) |-> Round(f, s)]
  <2>2. ASSUME NEW s \in SUBSET (1..(k - 1)) PROVE g[s] = f[s]
    <3>1. f[s] = Round(f, s)
      BY <2>1 DEF Claims
    <3>2. s \in SUBSET (1..k)
      OBVIOUS
    <3> QED BY <3>1, <3>2
  <2>3. ASSUME NEW s \in SUBSET (1..k), s # {} PROVE s \ {Max(s)} \in SUBSET (1..(k - 1))
    BY <2>3, WithoutMax
  <2>4. ASSUME NEW s \in SUBSET (1..k) PROVE Round(f, s) = Round(g, s)
    <3> HIDE DEF g
    <3> QED BY <2>2, <2>3
  <2>5. Claims(rows, ids, k, g)
    <3> SUFFICES g = [s \in SUBSET (1..k) |-> Round(g, s)]
      BY DEF Claims
    <3> QED BY <2>4
  <2> QED BY <2>5
<1> HIDE DEF Good
<1>3. \A k \in 0..n : k \in Good
  BY <1>1, <1>2, CountingUp
<1> QED BY <1>3 DEF Good

LEMMA CorrelateServes ==
  ASSUME TraceInv, Undisturbed, NEW rows, NEW act, NEW dat, Places(rows, act, dat)
  PROVE  ClaimsTo(rows, correlate_resumes(rows), 2 * Len(hops))
<1> DEFINE n == 2 * Len(hops)
           ids == [i \in DOMAIN rows |-> i]
           iter == CHOOSE iter : Claims(rows, ids, n, iter)
           Good == {k \in 0..n : ClaimsTo(rows, iter[1..k], k)}
<1>1. n \in Nat /\ DOMAIN rows = 1..n
  <2>1. Len(hops) \in Nat
    BY LenProperties DEF TraceInv
  <2> QED BY <2>1 DEF Places
<1>2. correlate_resumes(rows) = iter[1..n]
  BY <1>1, CorrelateIterates
<1> HIDE DEF n
<1>3. Claims(rows, ids, n, iter)
  <2> HIDE DEF ids
  <2> QED BY <1>1, ClaimsExist
<1> HIDE DEF iter
<1>4. 0 \in Good
  <2>1. 1..0 = {} /\ {} \in SUBSET (1..n)
    OBVIOUS
  <2>2. iter[{}] = [i \in DOMAIN rows |-> 0]
    BY <1>3, <2>1 DEF Claims
  <2>3. ClaimsTo(rows, iter[1..0], 0)
    BY <1>1, <2>1, <2>2 DEF ClaimsTo
  <2>4. 0 \in 0..n
    BY <1>1
  <2> QED BY ONLY <2>3, <2>4
<1>5. ASSUME NEW k \in 1..n, k - 1 \in Good PROVE k \in Good
  <2>1. ClaimsTo(rows, iter[1..(k - 1)], k - 1)
    BY ONLY <1>5
  <2>2. 1..k \in SUBSET (1..n) /\ 1..k # {} /\ k \in Nat /\ k \in DOMAIN rows
    <3>1. k \in DOMAIN rows /\ k \in Nat /\ k <= n
      BY <1>1
    <3>2. k \in 1..k /\ 1..k \in SUBSET (1..n)
      BY <1>1, <3>1
    <3> QED BY <3>1, <3>2
  <2>3. iter[1..k] = claim(rows, iter[(1..k) \ {Max(1..k)}], ids[Max(1..k)])
    BY <1>3, <2>2 DEF Claims
  <2>4. Max(1..k) = k
    <3>1. Max(1..k) \in 1..k /\ \A y \in 1..k : y <= Max(1..k)
      BY <2>2, MaxFacts
    <3> QED BY <2>2, <3>1
  <2>5. (1..k) \ {k} = 1..(k - 1) /\ ids[k] = k
    BY <2>2
  <2>6. iter[1..k] = claim(rows, iter[1..(k - 1)], k)
    BY <2>3, <2>4, <2>5
  <2>7. ClaimsTo(rows, iter[1..k], k)
    BY <2>1, <2>2, <2>6, ClaimServes
  <2>8. k \in 0..n
    BY <1>1
  <2> QED BY ONLY <2>7, <2>8
<1> HIDE DEF Good
<1>6. \A k \in 0..n : k \in Good
  BY ONLY <1>1, <1>4, <1>5, CountingUp
<1>7. n \in Good
  BY <1>1, <1>6
<1>8. ClaimsTo(rows, iter[1..n], n)
  BY ONLY <1>7 DEF Good
<1> QED BY <1>2, <1>8 DEF n

LEMMA TraceInvGivesPairing == TraceInv => PairingIsRight
<1> SUFFICES ASSUME TraceInv, Undisturbed PROVE PairingIsRight
  BY DEF PairingIsRight
<1> DEFINE n == Len(hops)
           rows == SortedRows
           claims == correlate_resumes(rows)
           starts == {hops[i].block : i \in {k \in DOMAIN hops : hops[k].resume}}
           resumed == {i \in DOMAIN rows : is_yield_resume(rows, claims, i)}
<1>1. n \in Nat /\ DOMAIN hops = 1..n
  BY LenProperties DEF TraceInv
<1>2. PICK act, dat : Places(rows, act, dat)
  BY RowsPlaced
<1>3. ClaimsTo(rows, claims, 2 * n)
  BY <1>2, CorrelateServes
<1> HIDE DEF rows, claims
<1>4. DOMAIN rows = 1..(2 * n) /\ DOMAIN rows \subseteq Nat
  BY <1>1, <1>2 DEF Places
<1>5. ASSUME NEW k \in DOMAIN rows, rows[k].kind = "action"
      PROVE  /\ claims[k] # 0 /\ rows[claims[k]].block = hops[rows[k].own].data_block
             /\ rows[claims[k]].resume = hops[rows[k].own].resume
             /\ \E i \in 1..n : k = act[i]
  <2>1. k <= 2 * n
    BY <1>1, <1>4
  <2>2. Served(rows, k, claims[k])
    BY <1>3, <1>5, <2>1 DEF ClaimsTo
  <2>3. claims[k] # 0
    BY <1>4, <2>2 DEF Served
  <2>4. PICK i \in 1..n : k = act[i] \/ k = dat[i]
    BY <1>2 DEF Places
  <2>5. k # dat[i]
    <3>1. rows[dat[i]] = DataRows[i] /\ DataRows[i].kind = "data"
      BY <1>2, RowFields DEF Places
    <3> QED BY <1>5, <3>1
  <2> QED BY <2>2, <2>3, <2>4, <2>5 DEF Served
<1>6. ASSUME NEW i \in 1..n
      PROVE  /\ act[i] \in DOMAIN rows /\ rows[act[i]].kind = "action"
             /\ rows[act[i]].own = i /\ rows[act[i]].block = hops[i].block
             /\ rows[act[i]].method = hops[i].method
             /\ hops[i].resume = (hops[i].method = "on_step_resumed")
  <2>1. act[i] \in DOMAIN rows /\ rows[act[i]] = ActionRows[i]
    BY <1>2 DEF Places
  <2> QED BY <2>1, RowFields DEF InTime, Fits
<1>7. ASSUME NEW k \in DOMAIN rows, rows[k].kind = "action"
      PROVE  is_yield_resume(rows, claims, k) <=> hops[rows[k].own].resume
  <2>1. PICK i \in 1..n : k = act[i]
    BY <1>5, <1>7
  <2>2. rows[k].own = i /\ rows[k].method = hops[i].method
        /\ hops[i].resume = (hops[i].method = "on_step_resumed")
    BY <1>6, <2>1
  <2>3. claims[k] # 0 /\ rows[claims[k]].resume = hops[i].resume
    BY <1>5, <1>7, <2>2
  <2> QED BY <2>2, <2>3 DEF is_yield_resume
<1>8. ASSUME NEW k \in resumed
      PROVE  k \in DOMAIN rows /\ rows[k].block \in starts
  <2>1. k \in DOMAIN rows /\ is_yield_resume(rows, claims, k)
    OBVIOUS
  <2>2. claims[k] # 0
    BY <2>1 DEF is_yield_resume
  <2>3. rows[k].kind = "action"
    BY <1>3, <2>1, <2>2 DEF ClaimsTo
  <2>4. PICK i \in 1..n : k = act[i]
    BY <1>5, <2>1, <2>3
  <2>5. rows[k].own = i /\ rows[k].block = hops[i].block
    BY <1>6, <2>4
  <2>6. hops[i].resume
    BY <1>7, <2>1, <2>3, <2>5
  <2> QED BY <1>1, <2>1, <2>5, <2>6
<1>9. ASSUME NEW b \in starts
      PROVE  \E k \in resumed : rows[k].block = b
  <2>1. PICK i \in 1..n : hops[i].resume /\ hops[i].block = b
    BY <1>1
  <2>2. is_yield_resume(rows, claims, act[i])
    BY <1>6, <1>7, <2>1
  <2> QED BY <1>6, <2>1, <2>2
<1>10. \A b \in starts : b \in Nat
  <2>1. \A i \in 1..n : hops[i].block \in Nat
    BY RowFields, HopNumbers
  <2> QED BY <1>1, <2>1
<1> DEFINE first == CHOOSE i \in resumed : \A k \in resumed : i <= k
<1>11. yield_resume_latency(rows, claims)
         = IF resumed = {} THEN -1 ELSE rows[first].block - 1
  BY DEF yield_resume_latency
<1>12. resumed \subseteq DOMAIN rows
  OBVIOUS
<1> HIDE DEF resumed, starts
<1>13. ASSUME starts # {}
       PROVE  /\ resumed # {} /\ rows[first].block \in starts
              /\ \A b \in starts : rows[first].block <= b
  <2>1. resumed # {}
    BY <1>9, <1>13
  <2>2. \E i \in resumed : \A k \in resumed : i <= k
    <3>1. resumed \subseteq Nat
      BY <1>4, <1>12
    <3> QED BY <2>1, <3>1, LeastNumber
  <2>3. first \in resumed /\ \A k \in resumed : first <= k
    BY <2>2
  <2> HIDE DEF first
  <2>4. rows[first].block \in starts
    BY <1>8, <2>3
  <2>5. ASSUME NEW b \in starts PROVE rows[first].block <= b
    <3>1. PICK k \in resumed : rows[k].block = b
      BY <1>9
    <3>2. first \in DOMAIN rows /\ k \in DOMAIN rows /\ first <= k
      BY <1>12, <2>3
    <3>3. CASE first = k
      BY <1>10, <3>1, <3>3
    <3>4. CASE first # k
      <4>1. first < k
        BY <1>4, <3>2, <3>4
      <4> QED BY <1>2, <3>1, <3>2, <4>1 DEF Places
    <3> QED BY <3>3, <3>4
  <2> QED BY <2>1, <2>4, <2>5
<1> HIDE DEF first
<1>14. \A b \in starts : yield_resume_latency(rows, claims) <= b - 1
  <2> SUFFICES ASSUME NEW b \in starts PROVE yield_resume_latency(rows, claims) <= b - 1
    OBVIOUS
  <2>1. resumed # {} /\ rows[first].block \in starts /\ rows[first].block <= b
    BY <1>13
  <2>2. rows[first].block \in Nat /\ b \in Nat
    BY <1>10, <2>1
  <2> QED BY <1>11, <2>1, <2>2
<1>15. starts # {} => yield_resume_latency(rows, claims) + 1 \in starts
  <2> SUFFICES ASSUME starts # {} PROVE yield_resume_latency(rows, claims) + 1 \in starts
    OBVIOUS
  <2>1. resumed # {} /\ rows[first].block \in starts /\ rows[first].block \in Nat
    BY <1>10, <1>13
  <2>2. yield_resume_latency(rows, claims) + 1 = rows[first].block
    BY <1>11, <2>1
  <2> QED BY <2>1, <2>2
<1>16. \A k \in DOMAIN rows : rows[k].kind = "action" =>
         /\ claims[k] # 0
         /\ rows[claims[k]].block = hops[rows[k].own].data_block
         /\ rows[claims[k]].resume = hops[rows[k].own].resume
         /\ is_yield_resume(rows, claims, k) <=> hops[rows[k].own].resume
  BY <1>5, <1>7
<1> QED BY <1>14, <1>15, <1>16 DEF PairingIsRight, rows, claims, starts

\* Unless other data overtook a callback, the observer pairs each callback with data
\* that arrived for it or for a twin, and finds the resumed yields and how long the
\* first waited: for any number of callbacks, blocks and delays.
THEOREM PairingSafe == TraceSpec => []PairingIsRight
<1>1. TraceInit => TraceInv
  BY TraceInitially
<1> QED BY <1>1, TraceStep, TraceInvGivesPairing, PTL DEF TraceSpec

----------------------------------------------------------------------------
(* The hop.                                                                *)

\* The deposits of some calls, as long as nobody changes one.
Attached == [i \in DOMAIN dispatches |-> dispatches[i].deposit]

HopInv == AuthorizerTypeOK /\ RootOnlyPassesThrough

LEMMA DispatchFacts ==
  ASSUME AuthorizerTypeOK
  PROVE  /\ Len(dispatches) \in Nat /\ DOMAIN dispatches = 1..Len(dispatches)
         /\ IsFiniteSet(DOMAIN dispatches)
         /\ \A i \in DOMAIN dispatches :
              /\ dispatches[i] \in Dispatch /\ Attached[i] = dispatches[i].deposit
              /\ Attached[i] \in Nat
<1>1. dispatches \in Seq(Dispatch)
  BY DEF AuthorizerTypeOK
<1>2. Len(dispatches) \in Nat /\ DOMAIN dispatches = 1..Len(dispatches)
  BY <1>1
<1>3. IsFiniteSet(DOMAIN dispatches)
  BY <1>2, FS_Interval
<1>4. \A i \in DOMAIN dispatches : dispatches[i] \in Dispatch
  BY <1>1
<1>5. \A i \in DOMAIN dispatches : Attached[i] = dispatches[i].deposit
  BY DEF Attached
<1> QED
  BY <1>2, <1>3, <1>4, <1>5, FundsAssumption DEF Dispatch

\* What becomes of a sum when nothing that counts changes, and when a call joins.
LEMMA DepositsStay ==
  ASSUME NEW D, IsFiniteSet(D), NEW v, \A k \in D : v[k] \in Int,
         NEW w, \A k \in D : w[k] = v[k], NEW some \in SUBSET D
  PROVE  /\ SumFunctionOnSet(w, some) = SumFunctionOnSet(v, some)
         /\ SumFunctionOnSet(v, some) \in Int
<1>1. IsFiniteSet(some) /\ \A k \in some : v[k] \in Int /\ w[k] = v[k]
  BY FS_Subset
<1> QED
  BY <1>1, SumAgree, SumTake

LEMMA DepositsJoin ==
  ASSUME NEW D, IsFiniteSet(D), NEW v, \A k \in D : v[k] \in Int,
         NEW w, \A k \in D : w[k] = v[k], NEW some \in SUBSET D,
         NEW i, i \notin some, w[i] \in Int
  PROVE  SumFunctionOnSet(w, some \union {i}) = SumFunctionOnSet(v, some) + w[i]
<1>1. IsFiniteSet(some) /\ \A k \in some \union {i} : w[k] \in Int
  BY FS_Subset
<1>2. SumFunctionOnSet(w, some \union {i}) = w[i] + SumFunctionOnSet(w, some)
  BY <1>1, SumAdd
<1>3. /\ SumFunctionOnSet(w, some) = SumFunctionOnSet(v, some)
      /\ SumFunctionOnSet(v, some) \in Int
  BY DepositsStay
<1> QED
  BY <1>2, <1>3

\* The property over Attached, and the sets it sums over.
LEMMA HopSums ==
  RootOnlyPassesThrough <=>
    /\ balances["target"] = Funds + SumFunctionOnSet(Attached, CallsAt({"ok"}))
    /\ balances[Root] = Funds + SumFunctionOnSet(Attached, CallsAt({"failed"}))
    /\ \A account \in Others :
         balances[account] = Funds - SumFunctionOnSet(Attached, PaidBy(account))
BY DEF RootOnlyPassesThrough, DepositsOf, Attached

LEMMA HopSets ==
  /\ CallsAt({"ok"}) \in SUBSET DOMAIN dispatches
  /\ CallsAt({"failed"}) \in SUBSET DOMAIN dispatches
  /\ \A account : PaidBy(account) \in SUBSET DOMAIN dispatches
BY DEF CallsAt, PaidBy

LEMMA HopInit == AuthorizerInit => HopInv
<1> SUFFICES ASSUME AuthorizerInit PROVE HopInv
  OBVIOUS
<1>1. AuthorizerTypeOK
  BY FundsAssumption DEF AuthorizerInit, AuthorizerTypeOK
<1>2. CallsAt({"ok"}) = {} /\ CallsAt({"failed"}) = {} /\ \A account : PaidBy(account) = {}
  BY DEF AuthorizerInit, CallsAt, PaidBy
<1>3. SumFunctionOnSet(Attached, {}) = 0
  BY SumEmpty
<1>4. \A p \in Parties : balances[p] = Funds
  BY DEF AuthorizerInit
<1>5. /\ "target" \in Parties /\ Root \in Parties /\ Others \subseteq Parties
      /\ Funds \in Nat
  BY FundsAssumption DEF Parties, Accounts
<1>6. /\ balances["target"] = Funds + SumFunctionOnSet(Attached, CallsAt({"ok"}))
      /\ balances[Root] = Funds + SumFunctionOnSet(Attached, CallsAt({"failed"}))
  BY <1>2, <1>3, <1>4, <1>5
<1>7. ASSUME NEW account \in Others
      PROVE  balances[account] = Funds - SumFunctionOnSet(Attached, PaidBy(account))
  BY <1>2, <1>3, <1>4, <1>5
<1> QED
  BY <1>1, <1>6, <1>7, HopSums DEF HopInv

LEMMA HopParties ==
  ASSUME AuthorizerTypeOK
  PROVE  /\ balances \in [Parties -> Int] /\ "target" \in Parties /\ Root \in Parties
         /\ Others \subseteq Parties /\ "target" # Root /\ Root \notin Others
         /\ "target" \notin Others /\ Funds \in Int
BY FundsAssumption DEF AuthorizerTypeOK, Parties, Accounts

\* A call of dispatch is made, and its deposit leaves the caller.
LEMMA HopSend ==
  ASSUME HopInv, NEW from \in Others, NEW signer \in Accounts, NEW deposit \in Deposits,
         NEW gas \in DispatchGas, Send(from, signer, deposit, gas)
  PROVE  HopInv'
<1> DEFINE d == [from |-> from, signer |-> signer, deposit |-> deposit, gas |-> gas,
                 at |-> "sent"]
           n == Len(dispatches) + 1
<1>1. AuthorizerTypeOK /\ RootOnlyPassesThrough /\ d \in Dispatch /\ deposit \in Nat
  BY FundsAssumption DEF HopInv, Dispatch
<1>2. dispatches' = Append(dispatches, d) /\ dispatches \in Seq(Dispatch)
  BY <1>1 DEF Send, AuthorizerTypeOK
<1>3. balances' = [balances EXCEPT ![from] = @ - deposit]
  BY DEF Send
<1>e. d.from = from /\ d.deposit = deposit /\ d.at = "sent"
  OBVIOUS
<1> HIDE DEF d
<1>4. /\ DOMAIN dispatches' = DOMAIN dispatches \union {n} /\ n \notin DOMAIN dispatches
      /\ \A i \in DOMAIN dispatches : dispatches'[i] = dispatches[i]
      /\ dispatches'[n] = d /\ dispatches' \in Seq(Dispatch)
  BY <1>1, <1>2
<1> HIDE DEF n
<1>p. /\ balances \in [Parties -> Int] /\ "target" \in Parties /\ Root \in Parties
      /\ Others \subseteq Parties /\ "target" # Root /\ Root \notin Others
      /\ "target" \notin Others /\ Funds \in Int
  BY <1>1, HopParties
<1>5. AuthorizerTypeOK'
  <2>1. balances' \in [Parties -> Int]
    BY <1>1, <1>3, <1>p
  <2>2. UNCHANGED <<owner_id, extensions>>
    BY DEF Send
  <2> QED
    BY <1>1, <1>4, <2>1, <2>2 DEF AuthorizerTypeOK
<1>6. /\ CallsAt({"ok"})' = CallsAt({"ok"}) /\ CallsAt({"failed"})' = CallsAt({"failed"})
      /\ \A account : account # from => PaidBy(account)' = PaidBy(account)
      /\ PaidBy(from)' = PaidBy(from) \union {n} /\ n \notin PaidBy(from)
  BY <1>4, <1>e DEF CallsAt, PaidBy
<1>7. /\ IsFiniteSet(DOMAIN dispatches) /\ \A k \in DOMAIN dispatches : Attached[k] \in Int
      /\ \A k \in DOMAIN dispatches : Attached'[k] = Attached[k]
      /\ Attached'[n] = deposit
  <2>1. IsFiniteSet(DOMAIN dispatches) /\ \A k \in DOMAIN dispatches : Attached[k] \in Nat
    BY <1>1, DispatchFacts
  <2> QED
    BY <1>4, <1>e, <2>1 DEF Attached
<1>8. \A some \in SUBSET DOMAIN dispatches :
        SumFunctionOnSet(Attached', some) = SumFunctionOnSet(Attached, some)
  BY <1>7, DepositsStay
<1>9. /\ SumFunctionOnSet(Attached', PaidBy(from) \union {n})
           = SumFunctionOnSet(Attached, PaidBy(from)) + deposit
      /\ SumFunctionOnSet(Attached, PaidBy(from)) \in Int
  <2>1. PaidBy(from) \in SUBSET DOMAIN dispatches /\ n \notin PaidBy(from)
    BY <1>6, HopSets
  <2>2. Attached'[n] \in Int
    BY <1>1, <1>7
  <2>3. SumFunctionOnSet(Attached', PaidBy(from) \union {n})
          = SumFunctionOnSet(Attached, PaidBy(from)) + Attached'[n]
    BY <1>7, <2>1, <2>2, DepositsJoin
  <2> QED
    BY <1>7, <2>1, <2>3, DepositsStay
<1>10. /\ balances'["target"] = Funds + SumFunctionOnSet(Attached', CallsAt({"ok"})')
       /\ balances'[Root] = Funds + SumFunctionOnSet(Attached', CallsAt({"failed"})')
  BY <1>1, <1>3, <1>p, <1>6, <1>8, HopSets, HopSums
<1>11. ASSUME NEW account \in Others
       PROVE  balances'[account] = Funds - SumFunctionOnSet(Attached', PaidBy(account)')
  <2>1. balances[account] = Funds - SumFunctionOnSet(Attached, PaidBy(account))
    BY <1>1, HopSums
  <2>2. CASE account = from
    <3>1. balances'[from] = balances[from] - deposit
      BY <1>3, <1>p
    <3>2. /\ SumFunctionOnSet(Attached', PaidBy(from)')
               = SumFunctionOnSet(Attached, PaidBy(from)) + deposit
          /\ SumFunctionOnSet(Attached, PaidBy(from)) \in Int
      BY <1>6, <1>9
    <3>3. deposit \in Int /\ Funds \in Int
      BY <1>1, <1>p
    <3> QED
      BY <2>1, <2>2, <3>1, <3>2, <3>3
  <2>3. CASE account # from
    BY <1>3, <1>p, <1>6, <1>8, <2>1, <2>3, HopSets
  <2> QED
    BY <2>2, <2>3
<1> QED
  BY <1>5, <1>10, <1>11 DEF HopInv, RootOnlyPassesThrough, DepositsOf, Attached

\* A call that has been made moves to another place, and with it the balances of the
\* party it was at and of the one it reaches.
LEMMA HopMoves ==
  ASSUME HopInv, NEW i \in DOMAIN dispatches, NEW place \in {"forwarded", "ok", "failed", "refused"},
         Move(i, place), UNCHANGED <<owner_id, extensions>>
  PROVE  /\ AuthorizerTypeOK /\ RootOnlyPassesThrough /\ dispatches[i] \in Dispatch
         /\ dispatches' \in Seq(Dispatch) /\ DOMAIN dispatches' = DOMAIN dispatches
         /\ \A k \in DOMAIN dispatches : /\ dispatches'[k].deposit = dispatches[k].deposit
                                         /\ dispatches'[k].from = dispatches[k].from
                                         /\ k # i => dispatches'[k].at = dispatches[k].at
         /\ dispatches'[i].at = place /\ dispatches[i].deposit \in Int
         /\ IsFiniteSet(DOMAIN dispatches)
         /\ \A k \in DOMAIN dispatches :
              Attached[k] = dispatches[k].deposit /\ Attached[k] \in Int /\ Attached'[k] = Attached[k]
         /\ \A some \in SUBSET DOMAIN dispatches :
              /\ SumFunctionOnSet(Attached', some) = SumFunctionOnSet(Attached, some)
              /\ SumFunctionOnSet(Attached, some) \in Int
              /\ i \notin some => SumFunctionOnSet(Attached', some \union {i})
                                    = SumFunctionOnSet(Attached, some) + dispatches[i].deposit
              /\ i \in some => SumFunctionOnSet(Attached', some \ {i})
                                 = SumFunctionOnSet(Attached, some) - dispatches[i].deposit
<1>1. AuthorizerTypeOK /\ RootOnlyPassesThrough
  BY DEF HopInv
<1>2. dispatches \in Seq(Dispatch) /\ dispatches[i] \in Dispatch
  BY <1>1 DEF AuthorizerTypeOK
<1> DEFINE d == [dispatches[i] EXCEPT !.at = place]
<1>3. dispatches' = [dispatches EXCEPT ![i] = d]
  BY DEF Move
<1>4. d \in Dispatch /\ d.at = place
  BY <1>2 DEF Dispatch
<1>d. d.deposit = dispatches[i].deposit /\ d.from = dispatches[i].from
  BY <1>2 DEF Dispatch
<1> HIDE DEF d
<1>5. /\ dispatches' \in Seq(Dispatch) /\ DOMAIN dispatches' = DOMAIN dispatches
      /\ dispatches'[i] = d
      /\ \A k \in DOMAIN dispatches : k # i => dispatches'[k] = dispatches[k]
  BY <1>2, <1>3, <1>4
<1>6. \A k \in DOMAIN dispatches : /\ dispatches'[k].deposit = dispatches[k].deposit
                                   /\ dispatches'[k].from = dispatches[k].from
                                   /\ k # i => dispatches'[k].at = dispatches[k].at
  BY <1>5, <1>d
<1>7. IsFiniteSet(DOMAIN dispatches)
      /\ \A k \in DOMAIN dispatches : Attached[k] = dispatches[k].deposit /\ Attached[k] \in Int
  <2>1. \A k \in DOMAIN dispatches : Attached[k] = dispatches[k].deposit /\ Attached[k] \in Nat
    BY <1>1, DispatchFacts
  <2> QED
    BY <1>1, <2>1, DispatchFacts
<1>8. \A k \in DOMAIN dispatches : Attached'[k] = Attached[k]
  BY <1>5, <1>6 DEF Attached
<1>9. ASSUME NEW some \in SUBSET DOMAIN dispatches
      PROVE  /\ SumFunctionOnSet(Attached', some) = SumFunctionOnSet(Attached, some)
             /\ SumFunctionOnSet(Attached, some) \in Int
             /\ i \notin some => SumFunctionOnSet(Attached', some \union {i})
                                   = SumFunctionOnSet(Attached, some) + dispatches[i].deposit
             /\ i \in some => SumFunctionOnSet(Attached', some \ {i})
                                = SumFunctionOnSet(Attached, some) - dispatches[i].deposit
  <2>1. /\ SumFunctionOnSet(Attached', some) = SumFunctionOnSet(Attached, some)
        /\ SumFunctionOnSet(Attached, some) \in Int
    BY <1>7, <1>8, DepositsStay
  <2>2. Attached[i] = dispatches[i].deposit /\ Attached'[i] = dispatches[i].deposit
        /\ Attached'[i] \in Int
    BY <1>7, <1>8
  <2>3. ASSUME i \notin some
        PROVE  SumFunctionOnSet(Attached', some \union {i})
                 = SumFunctionOnSet(Attached, some) + Attached'[i]
    BY <1>7, <1>8, <2>2, <2>3, DepositsJoin
  <2>4. ASSUME i \in some
        PROVE  SumFunctionOnSet(Attached', some \ {i})
                 = SumFunctionOnSet(Attached, some) - Attached[i]
    <3>1. IsFiniteSet(some) /\ \A k \in some : Attached[k] \in Int
      BY <1>7, FS_Subset
    <3>2. SumFunctionOnSet(Attached, some)
            = Attached[i] + SumFunctionOnSet(Attached, some \ {i})
      BY <2>4, <3>1, SumTake
    <3>3. some \ {i} \in SUBSET DOMAIN dispatches
      OBVIOUS
    <3>4. /\ SumFunctionOnSet(Attached', some \ {i}) = SumFunctionOnSet(Attached, some \ {i})
          /\ SumFunctionOnSet(Attached, some \ {i}) \in Int
      BY <1>7, <1>8, <3>3, DepositsStay
    <3>5. Attached[i] \in Int
      BY <1>7
    <3> QED
      BY <3>2, <3>4, <3>5
  <2> QED
    BY <2>1, <2>2, <2>3, <2>4
<1> QED
  BY <1>1, <1>2, <1>4, <1>5, <1>6, <1>7, <1>8, <1>9

\* dispatch forwards the deposit it was sent, or gives it back.
LEMMA HopDispatch ==
  ASSUME HopInv, NEW i \in DOMAIN dispatches, dispatch(i)
  PROVE  HopInv'
<1> DEFINE from == dispatches[i].from
           deposit == dispatches[i].deposit
<1>1. dispatches[i].at = "sent" /\ UNCHANGED <<owner_id, extensions>>
  BY DEF dispatch
<1>p. /\ balances \in [Parties -> Int] /\ "target" \in Parties /\ Root \in Parties
      /\ Others \subseteq Parties /\ "target" # Root /\ Root \notin Others
      /\ "target" \notin Others /\ Funds \in Int
  BY HopParties DEF HopInv
<1>2. CASE Move(i, "forwarded") /\ UNCHANGED balances
  <2>1. /\ AuthorizerTypeOK /\ RootOnlyPassesThrough /\ dispatches' \in Seq(Dispatch)
        /\ DOMAIN dispatches' = DOMAIN dispatches
        /\ \A k \in DOMAIN dispatches : /\ dispatches'[k].from = dispatches[k].from
                                        /\ k # i => dispatches'[k].at = dispatches[k].at
        /\ dispatches'[i].at = "forwarded"
        /\ \A some \in SUBSET DOMAIN dispatches :
             SumFunctionOnSet(Attached', some) = SumFunctionOnSet(Attached, some)
    BY <1>1, <1>2, HopMoves
  <2>2. AuthorizerTypeOK'
    BY <1>1, <1>2, <2>1 DEF AuthorizerTypeOK
  <2>3. /\ CallsAt({"ok"})' = CallsAt({"ok"}) /\ CallsAt({"failed"})' = CallsAt({"failed"})
        /\ \A account : PaidBy(account)' = PaidBy(account)
    BY <1>1, <2>1 DEF CallsAt, PaidBy
  <2>4. /\ balances'["target"] = Funds + SumFunctionOnSet(Attached', CallsAt({"ok"})')
        /\ balances'[Root] = Funds + SumFunctionOnSet(Attached', CallsAt({"failed"})')
        /\ \A account \in Others :
             balances'[account] = Funds - SumFunctionOnSet(Attached', PaidBy(account)')
    BY <1>2, <2>1, <2>3, HopSets, HopSums
  <2> QED
    BY <2>2, <2>4 DEF HopInv, RootOnlyPassesThrough, DepositsOf, Attached
<1>3. CASE Move(i, "refused") /\ balances' = [balances EXCEPT ![from] = @ + deposit]
  <2>1. /\ AuthorizerTypeOK /\ RootOnlyPassesThrough /\ dispatches' \in Seq(Dispatch)
        /\ dispatches[i] \in Dispatch /\ deposit \in Int
        /\ DOMAIN dispatches' = DOMAIN dispatches
        /\ \A k \in DOMAIN dispatches : /\ dispatches'[k].from = dispatches[k].from
                                        /\ k # i => dispatches'[k].at = dispatches[k].at
        /\ dispatches'[i].at = "refused"
        /\ \A some \in SUBSET DOMAIN dispatches :
             /\ SumFunctionOnSet(Attached', some) = SumFunctionOnSet(Attached, some)
             /\ SumFunctionOnSet(Attached, some) \in Int
             /\ i \in some => SumFunctionOnSet(Attached', some \ {i})
                                = SumFunctionOnSet(Attached, some) - deposit
    BY <1>1, <1>3, HopMoves
  <2>f. from \in Others
    BY <2>1 DEF Dispatch
  <2>b. balances' = [balances EXCEPT ![from] = @ + deposit]
    BY <1>3
  <2>3. /\ CallsAt({"ok"})' = CallsAt({"ok"}) /\ CallsAt({"failed"})' = CallsAt({"failed"})
        /\ \A account : account # from => PaidBy(account)' = PaidBy(account)
        /\ \A account : account = from => /\ PaidBy(account)' = PaidBy(account) \ {i}
                                         /\ i \in PaidBy(account)
    BY <1>1, <2>1 DEF CallsAt, PaidBy
  <2> HIDE DEF from, deposit
  <2>2. AuthorizerTypeOK'
    <3>1. balances' \in [Parties -> Int]
      BY <1>p, <2>1, <2>b, <2>f
    <3> QED
      BY <1>1, <2>1, <3>1 DEF AuthorizerTypeOK
  <2>4. /\ balances'["target"] = Funds + SumFunctionOnSet(Attached', CallsAt({"ok"})')
        /\ balances'[Root] = Funds + SumFunctionOnSet(Attached', CallsAt({"failed"})')
    BY <1>p, <2>1, <2>3, <2>b, <2>f, HopSets, HopSums
  <2>5. ASSUME NEW account \in Others
        PROVE  balances'[account] = Funds - SumFunctionOnSet(Attached', PaidBy(account)')
    <3>1. balances[account] = Funds - SumFunctionOnSet(Attached, PaidBy(account))
      BY <2>1, HopSums
    <3>2. CASE account = from
      <4>1. balances'[account] = balances[account] + deposit
        BY <1>p, <2>b, <2>f, <3>2
      <4>2. /\ SumFunctionOnSet(Attached', PaidBy(account)')
                 = SumFunctionOnSet(Attached, PaidBy(account)) - deposit
            /\ SumFunctionOnSet(Attached, PaidBy(account)) \in Int
        BY <2>1, <2>3, <3>2, HopSets
      <4>3. deposit \in Int /\ Funds \in Int
        BY <1>p, <2>1
      <4> QED
        BY <3>1, <4>1, <4>2, <4>3
    <3>3. CASE account # from
      BY <1>p, <2>1, <2>3, <2>b, <3>1, <3>3, HopSets
    <3> QED
      BY <3>2, <3>3
  <2> QED
    BY <2>2, <2>4, <2>5 DEF HopInv, RootOnlyPassesThrough, DepositsOf, Attached
<1> QED
  BY <1>2, <1>3 DEF dispatch

\* The target answers, and keeps the deposit or sends it to the root.
LEMMA HopReturns ==
  ASSUME HopInv, NEW i \in DOMAIN dispatches, NEW ok \in BOOLEAN, TargetReturns(i, ok)
  PROVE  HopInv'
<1> DEFINE place == IF ok THEN "ok" ELSE "failed"
           party == IF ok THEN "target" ELSE Root
           deposit == dispatches[i].deposit
<1>1. /\ dispatches[i].at = "forwarded" /\ UNCHANGED <<owner_id, extensions>>
      /\ Move(i, place) /\ balances' = [balances EXCEPT ![party] = @ + deposit]
  BY DEF TargetReturns
<1>p. /\ balances \in [Parties -> Int] /\ "target" \in Parties /\ Root \in Parties
      /\ Others \subseteq Parties /\ "target" # Root /\ Root \notin Others
      /\ "target" \notin Others /\ Funds \in Int
  BY HopParties DEF HopInv
<1>2. place \in {"ok", "failed"} /\ party \in Parties /\ party \notin Others
  BY <1>p
<1>3. /\ AuthorizerTypeOK /\ RootOnlyPassesThrough /\ dispatches' \in Seq(Dispatch)
      /\ deposit \in Int /\ DOMAIN dispatches' = DOMAIN dispatches
      /\ \A k \in DOMAIN dispatches : /\ dispatches'[k].from = dispatches[k].from
                                      /\ k # i => dispatches'[k].at = dispatches[k].at
      /\ dispatches'[i].at = place
      /\ \A some \in SUBSET DOMAIN dispatches :
           /\ SumFunctionOnSet(Attached', some) = SumFunctionOnSet(Attached, some)
           /\ SumFunctionOnSet(Attached, some) \in Int
           /\ i \notin some => SumFunctionOnSet(Attached', some \union {i})
                                 = SumFunctionOnSet(Attached, some) + deposit
  BY <1>1, <1>2, HopMoves
<1>4. \A account : PaidBy(account)' = PaidBy(account)
  BY <1>1, <1>2, <1>3 DEF CallsAt, PaidBy
<1>5. /\ i \notin CallsAt({"ok"}) /\ i \notin CallsAt({"failed"})
      /\ CallsAt({"ok"})' = IF ok THEN CallsAt({"ok"}) \union {i} ELSE CallsAt({"ok"})
      /\ CallsAt({"failed"})' = IF ok THEN CallsAt({"failed"}) ELSE CallsAt({"failed"}) \union {i}
  BY <1>1, <1>3 DEF CallsAt
<1>6. AuthorizerTypeOK'
  <2>1. balances' \in [Parties -> Int]
    BY <1>1, <1>2, <1>3, <1>p
  <2> QED
    BY <1>1, <1>3, <2>1 DEF AuthorizerTypeOK
<1> HIDE DEF deposit, place
<1>7. /\ balances["target"] = Funds + SumFunctionOnSet(Attached, CallsAt({"ok"}))
      /\ balances[Root] = Funds + SumFunctionOnSet(Attached, CallsAt({"failed"}))
      /\ CallsAt({"ok"}) \in SUBSET DOMAIN dispatches
      /\ CallsAt({"failed"}) \in SUBSET DOMAIN dispatches
      /\ SumFunctionOnSet(Attached, CallsAt({"ok"})) \in Int
      /\ SumFunctionOnSet(Attached, CallsAt({"failed"})) \in Int
  BY <1>3, HopSets, HopSums
<1>8. balances'["target"] = Funds + SumFunctionOnSet(Attached', CallsAt({"ok"})')
  <2>1. CASE ok
    <3>1. balances'["target"] = balances["target"] + deposit
      BY <1>1, <1>p, <2>1
    <3>2. SumFunctionOnSet(Attached', CallsAt({"ok"})')
            = SumFunctionOnSet(Attached, CallsAt({"ok"})) + deposit
      BY <1>3, <1>5, <1>7, <2>1
    <3> QED
      BY <1>3, <1>7, <1>p, <3>1, <3>2
  <2>2. CASE ~ok
    BY <1>1, <1>3, <1>5, <1>7, <1>p, <2>2
  <2> QED
    BY <2>1, <2>2
<1>9. balances'[Root] = Funds + SumFunctionOnSet(Attached', CallsAt({"failed"})')
  <2>1. CASE ~ok
    <3>1. balances'[Root] = balances[Root] + deposit
      BY <1>1, <1>p, <2>1
    <3>2. SumFunctionOnSet(Attached', CallsAt({"failed"})')
            = SumFunctionOnSet(Attached, CallsAt({"failed"})) + deposit
      BY <1>3, <1>5, <1>7, <2>1
    <3> QED
      BY <1>3, <1>7, <1>p, <3>1, <3>2
  <2>2. CASE ok
    BY <1>1, <1>3, <1>5, <1>7, <1>p, <2>2
  <2> QED
    BY <2>1, <2>2
<1>10. ASSUME NEW account \in Others
       PROVE  balances'[account] = Funds - SumFunctionOnSet(Attached', PaidBy(account)')
  <2>1. balances'[account] = balances[account]
    BY <1>1, <1>2, <1>p
  <2>2. balances[account] = Funds - SumFunctionOnSet(Attached, PaidBy(account))
    BY <1>3, HopSums
  <2> QED
    BY <1>3, <1>4, <2>1, <2>2, HopSets
<1> QED
  BY <1>6, <1>8, <1>9, <1>10 DEF HopInv, RootOnlyPassesThrough, DepositsOf, Attached

LEMMA HopStep == HopInv /\ [AuthorizerNext]_authorizerVars => HopInv'
<1> SUFFICES ASSUME HopInv, [AuthorizerNext]_authorizerVars PROVE HopInv'
  OBVIOUS
<1>1. CASE UNCHANGED <<dispatches, balances>> /\ owner_id' \in Accounts /\ extensions' \subseteq Others
  BY <1>1 DEF HopInv, AuthorizerTypeOK, RootOnlyPassesThrough, DepositsOf, CallsAt, PaidBy
<1>2. CASE \E who, new_owner \in Accounts : set_owner(who, new_owner)
  BY <1>1, <1>2 DEF set_owner, HopInv, AuthorizerTypeOK
<1>3. CASE \E who \in Accounts, account \in Others :
             add_extension(who, account) \/ remove_extension(who, account)
  BY <1>1, <1>3 DEF add_extension, remove_extension, HopInv, AuthorizerTypeOK
<1>4. CASE \E from \in Others, signer \in Accounts, deposit \in Deposits, gas \in DispatchGas :
             Send(from, signer, deposit, gas)
  BY <1>4, HopSend
<1>5. CASE \E i \in DOMAIN dispatches :
             dispatch(i) \/ (\E ok \in BOOLEAN : TargetReturns(i, ok))
  BY <1>5, HopDispatch, HopReturns
<1>6. CASE UNCHANGED authorizerVars
  BY <1>1, <1>6 DEF authorizerVars, HopInv, AuthorizerTypeOK
<1> QED
  BY <1>2, <1>3, <1>4, <1>5, <1>6 DEF AuthorizerNext

\* Whatever the owner curates and however the calls interleave, fail and are refused,
\* the root's own funds never move, and no caller pays for a refused call.
THEOREM HopPassesThrough == AuthorizerSpec => []RootOnlyPassesThrough
<1>1. HopInv => RootOnlyPassesThrough
  BY DEF HopInv
<1> QED
  BY <1>1, HopInit, HopStep, PTL DEF AuthorizerSpec

----------------------------------------------------------------------------
(* Gas budgets.                                                            *)

USE GasAssumption, BodyAssumption

\* The inductive invariant: what the callback that runs next is given.
GasInv ==
  /\ TypeOK
  /\ stage = "yielded" => validate_step(call) /\ left >= resume_callback_gas(call)
  /\ stage = "gated" => /\ validate_step(call) /\ call.gate > 0
                       /\ left = gate_callback_gas(call)
  /\ stage = "panicked" => call.gate > 0

\* The amounts the contract computes from a call are naturals.
LEMMA AmountsAreNatural ==
  ASSUME NEW c \in Call
  PROVE  /\ adapter_overhead(c) \in Nat
         /\ max_target_gas(c) \in Nat
         /\ resume_callback_gas(c) \in Nat
         /\ gate_callback_gas(c) \in Nat
         /\ gate_dispatch_gas(c) \in Nat
         /\ dispatch_gas(c) \in Nat
<1>1. /\ c.gas \in Nat /\ c.assertion \in Nat /\ c.gate \in Nat
      /\ c.policy \in Policies /\ c.hop \in BOOLEAN
  BY DEF Call
<1>2. adapter_overhead(c) \in Nat
  BY <1>1 DEF adapter_overhead, Policies, ADAPTER_SEQUENCE_OVERHEAD,
              ASSERTED_POSTCHECK_RUN_GAS, ASSERTED_POSTCHECK_EVALUATE_GAS
<1>3. max_target_gas(c) \in Nat
  BY <1>2 DEF max_target_gas, MAX_STEP_GAS, MAX_CONTRACT_GAS, STEP_GAS_SLACK,
              STEP_RESOLVE_CALLBACK_GAS, STEP_RESUME_OVERHEAD
<1>4. /\ resume_callback_gas(c) \in Nat
      /\ gate_callback_gas(c) \in Nat
      /\ gate_dispatch_gas(c) \in Nat
      /\ dispatch_gas(c) \in Nat
  BY <1>1, <1>2 DEF resume_callback_gas, gate_callback_gas, gate_dispatch_gas,
     dispatch_gas, STEP_RESOLVE_CALLBACK_GAS, STEP_RESUME_OVERHEAD,
     PRE_GATE_CHECK_CALLBACK_GAS, AUTHORIZER_HOP_OVERHEAD
<1> QED BY <1>2, <1>3, <1>4

\* The static gas of on_step_resumed pays for an ungated dispatch, hop included.
LEMMA ResumeGasPays ==
  ASSUME NEW c \in Call
  PROVE  resume_callback_gas(c) >= BodyGas + dispatch_gas(c)
<1>1. c.gas \in Nat /\ adapter_overhead(c) \in Nat
  BY AmountsAreNatural DEF Call
<1> QED BY <1>1 DEF resume_callback_gas, dispatch_gas, STEP_RESOLVE_CALLBACK_GAS,
                    STEP_RESUME_OVERHEAD, AUTHORIZER_HOP_OVERHEAD

\* The static gas of on_pre_gate_checked pays for the dispatch of a Direct step,
\* hop included, and for no other.
LEMMA GateGasPaysDirectOnly ==
  ASSUME NEW c \in Call, validate_step(c)
  PROVE  gate_callback_gas(c) >= BodyGas + dispatch_gas(c) <=> c.policy = "direct"
<1>1. /\ c.gas \in Nat /\ c.assertion \in Nat
      /\ c.policy \in Policies /\ c.hop \in BOOLEAN
  BY DEF Call
<1>2. CASE c.policy = "direct"
  <2>1. adapter_overhead(c) = 0
    BY <1>2 DEF adapter_overhead
  <2> QED BY <1>1, <1>2, <2>1 DEF gate_callback_gas, dispatch_gas,
       STEP_RESOLVE_CALLBACK_GAS, PRE_GATE_CHECK_CALLBACK_GAS, AUTHORIZER_HOP_OVERHEAD
<1>3. CASE c.policy # "direct"
  <2>1. adapter_overhead(c) > 25 /\ adapter_overhead(c) \in Nat
    BY <1>1, <1>3 DEF adapter_overhead, Policies, validate_step,
       ADAPTER_SEQUENCE_OVERHEAD, ASSERTED_POSTCHECK_RUN_GAS,
       ASSERTED_POSTCHECK_EVALUATE_GAS
  <2> QED BY <1>1, <1>3, <2>1 DEF gate_callback_gas, dispatch_gas,
       STEP_RESOLVE_CALLBACK_GAS, PRE_GATE_CHECK_CALLBACK_GAS, AUTHORIZER_HOP_OVERHEAD
<1> QED BY <1>2, <1>3

----------------------------------------------------------------------------

LEMMA GasInvInit == Init => GasInv
  BY DEF Init, GasInv, TypeOK

LEMMA GasInvStep == GasInv /\ [Next]_gasVars => GasInv'
<1> SUFFICES ASSUME GasInv, [Next]_gasVars PROVE GasInv'
  OBVIOUS
<1>0. call \in Call /\ left \in Nat
  BY DEF GasInv, TypeOK
<1>a. /\ resume_callback_gas(call) \in Nat /\ gate_callback_gas(call) \in Nat
      /\ gate_dispatch_gas(call) \in Nat /\ dispatch_gas(call) \in Nat
  BY <1>0, AmountsAreNatural
<1>b. call.gate \in Nat
  BY <1>0 DEF Call
<1>1. ASSUME NEW leftover \in Leftovers, register_step(leftover)
      PROVE  GasInv'
  <2>1. call' = call /\ stage' \in {"yielded", "refused"}
    BY <1>1 DEF register_step
  <2>2. leftover \in Nat
    OBVIOUS
  <2>3. left' \in Nat
    BY <1>1, <1>a, <2>2 DEF register_step
  <2>4. stage' = "yielded" => validate_step(call) /\ left' >= resume_callback_gas(call)
    BY <1>1, <1>a, <2>2 DEF register_step
  <2> QED BY <1>0, <2>1, <2>3, <2>4 DEF GasInv, TypeOK, validate_step,
             resume_callback_gas, gate_callback_gas, adapter_overhead, max_target_gas
<1>2. CASE on_step_resumed
  <2>1. CASE call.gate > 0
    <3>1. Pays(gate_dispatch_gas(call), "gated", gate_callback_gas(call)) /\ call' = call
      BY <1>2, <2>1 DEF on_step_resumed
    <3>2. stage' \in {"gated", "panicked"} /\ left' \in Nat
      BY <3>1, <1>a DEF Pays
    <3>3. stage' = "gated" => left' = gate_callback_gas(call)
      BY <3>1 DEF Pays
    <3>4. validate_step(call)
      BY <1>2 DEF on_step_resumed, GasInv
    <3> QED BY <1>0, <2>1, <3>1, <3>2, <3>3, <3>4 DEF GasInv, TypeOK, validate_step,
               gate_callback_gas, adapter_overhead, max_target_gas
  <2>2. CASE ~(call.gate > 0)
    <3>1. Pays(dispatch_gas(call), "sent", STEP_RESOLVE_CALLBACK_GAS) /\ call' = call
      BY <1>2, <2>2 DEF on_step_resumed
    <3>2. left >= resume_callback_gas(call)
      BY <1>2 DEF on_step_resumed, GasInv
    <3>3. left >= BodyGas + dispatch_gas(call)
      BY <1>0, <1>a, <3>2, ResumeGasPays
    <3>4. stage' = "sent" /\ left' \in Nat
      BY <3>1, <3>3 DEF Pays, STEP_RESOLVE_CALLBACK_GAS
    <3> QED BY <1>0, <3>1, <3>4 DEF GasInv, TypeOK
  <2> QED BY <2>1, <2>2
<1>3. CASE on_pre_gate_checked
  <2>1. Pays(dispatch_gas(call), "sent", STEP_RESOLVE_CALLBACK_GAS) /\ call' = call
    BY <1>3 DEF on_pre_gate_checked
  <2>2. stage' \in {"sent", "panicked"} /\ left' \in Nat
    BY <2>1 DEF Pays, STEP_RESOLVE_CALLBACK_GAS
  <2>3. call.gate > 0
    BY <1>3 DEF on_pre_gate_checked, GasInv
  <2> QED BY <1>0, <2>1, <2>2, <2>3 DEF GasInv, TypeOK
<1>4. CASE UNCHANGED gasVars
  BY <1>4 DEF gasVars, GasInv, TypeOK, validate_step, resume_callback_gas,
              gate_callback_gas, adapter_overhead, max_target_gas
<1> QED BY <1>1, <1>2, <1>3, <1>4 DEF Next

\* Whatever is reachable satisfies the inductive invariant.
THEOREM GasInvariant == Spec => []GasInv
  BY GasInvInit, GasInvStep, PTL DEF Spec

\* The callback of an admitted step without a gate never runs out of gas, for
\* every policy, gas value, leftover and authorizer mode.
THEOREM UngatedSafe == Spec => []UngatedNeverPanics
<1>1. GasInv => UngatedNeverPanics
  BY DEF GasInv, UngatedNeverPanics
<1> QED BY <1>1, GasInvariant, PTL

\* What validate_step admits leaves the registering call its slack within the
\* ceiling of one contract call.
THEOREM CeilingHolds == Spec => []YieldFitsCeiling
<1>1. GasInv => YieldFitsCeiling
  <2> SUFFICES ASSUME GasInv, stage = "yielded"
               PROVE  resume_callback_gas(call) + STEP_GAS_SLACK <= MAX_CONTRACT_GAS
    BY DEF YieldFitsCeiling
  <2>1. call \in Call /\ validate_step(call)
    BY DEF GasInv, TypeOK
  <2>2. call.gas \in Nat /\ adapter_overhead(call) \in Nat
    BY <2>1, AmountsAreNatural DEF Call
  <2>3. call.gas > 0 /\ call.gas <= max_target_gas(call)
    BY <2>1 DEF validate_step
  <2>4. call.gas + adapter_overhead(call) <= MAX_STEP_GAS
    BY <2>2, <2>3 DEF max_target_gas, MAX_STEP_GAS, MAX_CONTRACT_GAS,
       STEP_RESOLVE_CALLBACK_GAS, STEP_RESUME_OVERHEAD, STEP_GAS_SLACK
  <2> QED BY <2>2, <2>4 DEF resume_callback_gas, MAX_STEP_GAS, MAX_CONTRACT_GAS,
       STEP_RESOLVE_CALLBACK_GAS, STEP_RESUME_OVERHEAD, STEP_GAS_SLACK
<1> QED BY <1>1, GasInvariant, PTL

\* An in-range gate answer leads to the target call exactly for Direct steps.
THEOREM GateDirectOnly == Spec => GateSendsOnlyDirect
<1>1. GasInv /\ [Next]_gasVars
        => [on_pre_gate_checked => (stage' = "sent" <=> call.policy = "direct")]_gasVars
  <2> SUFFICES ASSUME GasInv, on_pre_gate_checked
               PROVE  stage' = "sent" <=> call.policy = "direct"
    OBVIOUS
  <2>1. call \in Call /\ validate_step(call) /\ left = gate_callback_gas(call)
    BY DEF on_pre_gate_checked, GasInv, TypeOK
  <2>2. gate_callback_gas(call) >= BodyGas + dispatch_gas(call) <=> call.policy = "direct"
    BY <2>1, GateGasPaysDirectOnly
  <2> QED BY <2>1, <2>2 DEF on_pre_gate_checked, Pays
<1> QED BY <1>1, GasInvariant, PTL DEF Spec, GateSendsOnlyDirect
=============================================================================
