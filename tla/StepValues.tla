----------------------------- MODULE StepValues ----------------------------
(***************************************************************************)
(* The pure algorithms of the crate smart-account-types: the decision of a *)
(* pre-gate over the bytes the gate call returned, and the materialization *)
(* of a step's arguments from a template and the saved results of earlier  *)
(* steps.                                                                  *)
(*                                                                         *)
(* Bytes are a sequence of characters.  A run of digits is one character   *)
(* that holds their number, so that two runs never stand side by side and  *)
(* leading zeros do not show; a run of white space is one character too,   *)
(* and so are bytes that are not UTF-8, which str::from_utf8 refuses and   *)
(* String::from_utf8_lossy turns into U+FFFD.                              *)
(***************************************************************************)
EXTENDS Integers, Sequences, SequencesExt, FiniteSetsExt

CONSTANTS
  MaxU128,      \* u128::MAX
  MaxI128,      \* i128::MAX
  Quote, Dollar, OpenBrace, CloseBrace, \* the characters that make a placeholder
  Space, PlusSign, MinusSign,           \* and those that may go with a number
  Invalid,      \* bytes that are not UTF-8
  Replacement,  \* U+FFFD
  Letters,      \* every other character
  PlaceNames,   \* names that steps save under and templates refer to
  Absent,       \* no bound given, no result saved
  GateRequests, \* the gate evaluations to look at
  ArgsRequests, \* the materializations to look at
  SavedTexts,   \* saved results that steps take shares of
  Bps           \* basis points of the shares

ASSUME WidthAssumption ==
  /\ MaxU128 \in Nat /\ MaxI128 \in Nat /\ MaxI128 <= MaxU128

Marks == <<Quote, Dollar, OpenBrace, CloseBrace, Space, PlusSign, MinusSign, Invalid,
           Replacement>>

Digits(n) == [digits |-> n]
DigitRun == [digits: Nat]

Char == Range(Marks) \union Letters \union DigitRun
Document == Seq(Char)

\* Names are Rust Strings, which are UTF-8.
ASSUME CharsAssumption ==
  /\ IsInjective(Marks) /\ Letters \intersect Range(Marks) = {}
  /\ (Range(Marks) \union Letters) \intersect DigitRun = {}
  /\ PlaceNames \subseteq Seq(Char \ {Invalid})

ASSUME SharesAssumption == SavedTexts \subseteq Document /\ Bps \subseteq Nat

\* The arguments of evaluate_pre_gate.  Bytes that are compared as bytes are given
\* by their values.
GateRequest ==
  [comparison: {"LexBytes"}, actual: Seq(Nat), min: Seq(Nat) \union {Absent},
   max: Seq(Nat) \union {Absent}]
  \union
  [comparison: {"U128Json", "I128Json"}, actual: Document, min: Document \union {Absent},
   max: Document \union {Absent}]

\* The arguments of materialize_args, with the saved results it looks up.  The
\* template is given in pieces, as its author thinks of it; the code sees them put
\* together.
Op == [kind: {"Raw"}] \union [kind: {"DivU128"}, denominator: Nat]
      \union [kind: {"PercentU128"}, bps: Nat]

ArgsRequest == [pieces: Seq(Document), saved: [PlaceNames -> Document \union {Absent}],
                substitutions: Seq([reference: PlaceNames, op: Op])]

ASSUME RequestsAssumption ==
  /\ GateRequests \subseteq GateRequest /\ ArgsRequests \subseteq ArgsRequest
  /\ GateRequests \intersect ArgsRequests = {}

ShareRequests == [shared: SavedTexts]

----------------------------------------------------------------------------
(* Integers in JSON.  A parser returns the set of what it reads: one value,*)
(* or none when it fails.                                                  *)

\* The quotes go only when they are the first and the last byte.
trim_json_quotes(bytes) ==
  IF Len(bytes) >= 2 /\ bytes[1] = Quote /\ bytes[Len(bytes)] = Quote
  THEN SubSeq(bytes, 2, Len(bytes) - 1) ELSE bytes

\* str::trim.
trim(s) ==
  LET ink == {i \in DOMAIN s : s[i] # Space}
  IN  IF ink = {} THEN <<>> ELSE SubSeq(s, Min(ink), Max(ink))

Runs(s) == {s[i].digits : i \in {j \in DOMAIN s : s[j] \in DigitRun}}

\* A number that may have a plus, a number that has a minus.
Unsigned(s) == {n \in Runs(s) : s \in {<<Digits(n)>>, <<PlusSign, Digits(n)>>}}
Negative(s) == {0 - n : n \in {m \in Runs(s) : s = <<MinusSign, Digits(m)>>}}

\* After the quotes, white space at either end goes, and the rest must be an
\* integer that fits; u128 knows no minus.
parse_u128_json(bytes) ==
  {n \in Unsigned(trim(trim_json_quotes(bytes))) : n <= MaxU128}

parse_i128_json(bytes) ==
  LET s == trim(trim_json_quotes(bytes))
  IN  {n \in Unsigned(s) \union Negative(s) : -MaxI128 - 1 <= n /\ n <= MaxI128}

----------------------------------------------------------------------------
(* Gates.                                                                  *)

\* Lexicographic order of byte strings; a proper prefix comes first.
LexLess(s, t) ==
  \/ Len(s) < Len(t) /\ \A i \in DOMAIN s : s[i] = t[i]
  \/ \E i \in DOMAIN s \intersect DOMAIN t :
       s[i] < t[i] /\ \A j \in 1..(i - 1) : s[j] = t[j]

\* The numbers that a numeric comparison reads in bytes.
Reads(bytes, comparison) ==
  IF comparison = "U128Json" THEN parse_u128_json(bytes) ELSE parse_i128_json(bytes)

Bad_NumericOutcome_lenient(actual, min, max, comparison) ==
  LET Reading(bytes) == Reads(bytes, comparison) IN
  IF Reading(actual) = {} THEN "ComparisonError"
  ELSE IF min # Absent /\ \E n \in Reading(actual), m \in Reading(min) : n < m
       THEN "BelowMin"
  ELSE IF max # Absent /\ \E n \in Reading(actual), m \in Reading(max) : n > m
       THEN "AboveMax" ELSE "InRange"

\* min_bytes is looked at before max_bytes is parsed.
NumericOutcome(actual, min, max, comparison) ==
  LET Reading(bytes) == Reads(bytes, comparison)
      Unreadable(bound) == bound # Absent /\ Reading(bound) = {}
      Below(bound) == bound # Absent
                      /\ \E n \in Reading(actual), m \in Reading(bound) : n < m
      Above(bound) == bound # Absent
                      /\ \E n \in Reading(actual), m \in Reading(bound) : n > m
  IN IF Reading(actual) = {} \/ Unreadable(min) THEN "ComparisonError"
     ELSE IF Below(min) THEN "BelowMin"
     ELSE IF Unreadable(max) THEN "ComparisonError"
     ELSE IF Above(max) THEN "AboveMax" ELSE "InRange"

LexOutcome(actual, min, max) ==
  IF min # Absent /\ LexLess(actual, min) THEN "BelowMin"
  ELSE IF max # Absent /\ LexLess(max, actual) THEN "AboveMax" ELSE "InRange"

evaluate_pre_gate(actual, min, max, comparison) ==
  IF comparison = "LexBytes" THEN LexOutcome(actual, min, max)
  ELSE NumericOutcome(actual, min, max, comparison)

----------------------------------------------------------------------------
(* Value threading.                                                        *)

Succeeds(document) == [error |-> "none", bytes |-> document]
Fails(error) == [error |-> error, bytes |-> <<>>]

\* What a numeric substitution emits: a quoted decimal.
Quoted(n) == <<Quote, Digits(n), Quote>>

\* String::from_utf8_lossy.
from_utf8_lossy(bytes) ==
  [i \in DOMAIN bytes |-> IF bytes[i] = Invalid THEN Replacement ELSE bytes[i]]

DivU128(saved, denominator) ==
  IF parse_u128_json(saved) = {} THEN Fails("unparseable_saved_result")
  ELSE IF denominator = 0 THEN Fails("invalid_bps")
  ELSE LET n == CHOOSE n \in parse_u128_json(saved) : TRUE
       IN  Succeeds(Quoted(n \div denominator))

Bad_Percent_rounds_up(n, bps) == (n * bps + 9999) \div 10000

\* n.checked_mul(bps) / 10_000.
Percent(n, bps) == (n * bps) \div 10000

PercentU128(saved, bps) ==
  IF bps > 10000 THEN Fails("invalid_bps")
  ELSE IF parse_u128_json(saved) = {} THEN Fails("unparseable_saved_result")
  ELSE LET n == CHOOSE n \in parse_u128_json(saved) : TRUE
       IN  IF n * bps > MaxU128 THEN Fails("numeric_overflow")
           ELSE Succeeds(Quoted(Percent(n, bps)))

apply_substitution_op(saved, op) ==
  CASE op.kind = "Raw" -> Succeeds(from_utf8_lossy(saved))
    [] op.kind = "DivU128" -> DivU128(saved, op.denominator)
    [] op.kind = "PercentU128" -> PercentU128(saved, op.bps)

placeholder(name) == <<Quote, Dollar, OpenBrace>> \o name \o <<CloseBrace, Quote>>

\* Where a word stands in a string.
Starts(s, word) ==
  {i \in DOMAIN s : /\ i + Len(word) - 1 <= Len(s)
                    /\ \A k \in DOMAIN word : s[i + k - 1] = word[k]}

\* The matches of String::replace: from the left, none inside another.
Matches(s, word) ==
  CHOOSE found \in SUBSET Starts(s, word) :
    found = {i \in Starts(s, word) : \A j \in found : j < i => j + Len(word) <= i}

\* String::replace; what it puts in is not scanned again.
Replaced(s, word, replacement) ==
  LET found == Matches(s, word)
      Inside(i) == \E j \in found : j < i /\ i < j + Len(word)
  IN  FlattenSeq([i \in DOMAIN s |->
        IF i \in found THEN replacement ELSE IF Inside(i) THEN <<>> ELSE <<s[i]>>])

Bad_substitute_if_present(sofar, sub, saved) ==
  IF sofar.error # "none" THEN sofar
  ELSE IF saved[sub.reference] = Absent THEN Fails("missing_saved_result")
  ELSE LET result == apply_substitution_op(saved[sub.reference], sub.op)
       IN  IF result.error # "none" THEN result
           ELSE Succeeds(Replaced(sofar.bytes, placeholder(sub.reference),
                                  result.bytes))

\* One round of materialize_args.  The placeholder is looked for in the output so
\* far, one string that earlier substitutions have changed, not in the template.
substitute(sofar, sub, saved) ==
  IF sofar.error # "none" THEN sofar
  ELSE IF saved[sub.reference] = Absent THEN Fails("missing_saved_result")
  ELSE LET result == apply_substitution_op(saved[sub.reference], sub.op)
       IN  IF result.error # "none" THEN result
           ELSE IF Starts(sofar.bytes, placeholder(sub.reference)) = {}
                THEN Fails("placeholder_not_found")
           ELSE Succeeds(Replaced(sofar.bytes, placeholder(sub.reference),
                                  result.bytes))

materialize_args(template, substitutions, saved) ==
  FoldLeft(LAMBDA sofar, sub : substitute(sofar, sub, saved),
           Succeeds(from_utf8_lossy(template)), substitutions)

----------------------------------------------------------------------------
(* A walk over the requests.                                               *)

VARIABLES
  request, \* a gate evaluation, a materialization, or a saved result to share
  answer,  \* Absent, then its result
  shares   \* the basis points taken of the saved number so far, and their sum

valueVars == <<request, answer, shares>>

NoShares == [used |-> 0, spent |-> 0]

ValuesInit ==
  /\ request \in GateRequests \union ArgsRequests \union ShareRequests
  /\ answer = Absent /\ shares = NoShares

EvaluateGate ==
  /\ request \in GateRequests /\ answer = Absent
  /\ answer' = [outcome |-> evaluate_pre_gate(request.actual, request.min, request.max,
                                              request.comparison)]
  /\ UNCHANGED <<request, shares>>

Materialize ==
  /\ request \in ArgsRequests /\ answer = Absent
  /\ answer' = materialize_args(FlattenSeq(request.pieces), request.substitutions,
                                request.saved)
  /\ UNCHANGED <<request, shares>>

\* One more step of a run takes its share of a number the run saved.  A plan
\* gives away at most the whole of it.
TakeShare(bps) ==
  LET result == PercentU128(request.shared, bps) IN
  /\ request \in ShareRequests
  /\ shares.used + bps <= 10000
  /\ result.error = "none"
  /\ shares' = [used |-> shares.used + bps,
                spent |-> shares.spent + result.bytes[2].digits]
  /\ UNCHANGED <<request, answer>>

ValuesNext == EvaluateGate \/ Materialize \/ \E bps \in Bps : TakeShare(bps)

ValuesSpec == ValuesInit /\ [][ValuesNext]_valueVars

----------------------------------------------------------------------------
(* Properties.                                                             *)

\* x is at or after min and at or before max, for the bounds that are given.
Within(x, min, max, AtMost(_, _)) ==
  /\ min # Absent => AtMost(min, x)
  /\ max # Absent => AtMost(x, max)

\* The doc comment of evaluate_pre_gate, as a definition: in range iff the
\* answer and the bounds are all readable and both bounds hold, however the
\* numbers are quoted, padded, signed or sized.
GateMeansRange ==
  request \in GateRequests /\ answer # Absent =>
    LET ReadNow(bytes) == Reads(bytes, request.comparison)
        NumberAtMost(s, t) == \E m \in ReadNow(s), n \in ReadNow(t) : m <= n
        BytesAtMost(s, t) == ~LexLess(t, s)
    IN answer.outcome = "InRange" <=>
         IF request.comparison = "LexBytes"
         THEN Within(request.actual, request.min, request.max, BytesAtMost)
         ELSE ReadNow(request.actual) # {}
              /\ Within(request.actual, request.min, request.max, NumberAtMost)

Names == {name \in PlaceNames : ~Contains(name, Quote)}

\* Where every `$` belongs to a whole placeholder of the template, which is to say
\* none comes with a saved result or with the text between placeholders, names hold
\* no quote, and no name is substituted twice, the order of the substitutions does
\* not show.  Arguments materialize iff each substitution on its own can be done,
\* and then every placeholder is replaced at once and nothing else changes, save
\* that bytes which are not UTF-8 come out as U+FFFD.
MaterializeIsSimultaneous ==
  request \in ArgsRequests /\ answer # Absent =>
    LET pieces == request.pieces
        subs == request.substitutions
        saved == request.saved
        ResultOf(sub) == apply_substitution_op(saved[sub.reference], sub.op)
        CanDo(sub) == /\ saved[sub.reference] # Absent
                      /\ ResultOf(sub).error = "none"
                      /\ \E i \in DOMAIN pieces : pieces[i] = placeholder(sub.reference)
        Fills(i, piece) == placeholder(subs[i].reference) = piece
        Expansion(piece) ==
          IF \E i \in DOMAIN subs : Fills(i, piece)
          THEN ResultOf(subs[CHOOSE i \in DOMAIN subs : Fills(i, piece)]).bytes
          ELSE from_utf8_lossy(piece)
    IN /\ \A i \in DOMAIN pieces : \/ \E name \in Names : pieces[i] = placeholder(name)
                                   \/ ~Contains(pieces[i], Dollar)
       /\ \A name \in PlaceNames : saved[name] # Absent => ~Contains(saved[name], Dollar)
       /\ \A i \in DOMAIN subs : subs[i].reference \in Names
       /\ \A i, j \in DOMAIN subs : subs[i].reference = subs[j].reference => i = j
       => /\ answer.error = "none" <=> \A i \in DOMAIN subs : CanDo(subs[i])
          /\ answer.error = "none" =>
               answer.bytes = FlattenSeq([i \in DOMAIN pieces |-> Expansion(pieces[i])])

\* Steps that take shares of one saved number never overspend it: while their
\* basis points stay within 10000, what they are told to spend adds up to at most
\* the number, whatever the roundings and however many steps there are.
SplitsNeverOverspend ==
  shares # NoShares => \A n \in parse_u128_json(request.shared) : shares.spent <= n
=============================================================================
