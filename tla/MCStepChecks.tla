---------------------------- MODULE MCStepChecks ---------------------------
(***************************************************************************)
(* The parts that are checked on their own: GasBudget at the boundaries of *)
(* its caps and one value on either side, StepValues on small texts and    *)
(* templates, the hop through the Authorizer, and the observer's reading   *)
(* of a transaction.  The walks share nothing; each behaviour takes one.   *)
(***************************************************************************)
EXTENDS GasBudget, StepValues, Authorizer, ObserverTrace

CONSTANTS x, y, wallet, intents

Around(n) == {n - 1, n, n + 1}
BoundaryGas == {0, 1, 30} \union Around(620) \union Around(885) \union Around(940)
BoundaryAssertion == {0, 1, 30} \union Around(914) \union Around(940)
BoundaryGates == {0, 1, 5, 30, 100, 101}
SomeLeftovers == {0, 5, 15, 120}

\* A number as the bytes of an answer: quoted at both ends, at one or not at all,
\* padded inside or outside the quotes, with or without a sign.
Wrapped(quotes, pad, s) ==
  LET padded == IF pad = "inside" THEN <<Space>> \o s ELSE s
      opened == IF quotes = "none" THEN padded ELSE <<Quote>> \o padded
      quoted == IF quotes = "both" THEN Append(opened, Quote) ELSE opened
  IN  IF pad = "outside" THEN Append(quoted, Space) ELSE quoted

\* Answers in every shape, with digits at the widths of i128 and u128, and letters
\* or bytes that are not UTF-8 in their place; quoted bounds at the same numbers.
Numbers(widths) == {<<Digits(d)>> : d \in widths}
Answers == {Wrapped(quotes, pad, sign \o d) :
              quotes \in {"both", "one", "none"}, pad \in {"none", "inside", "outside"},
              sign \in {<<>>, <<PlusSign>>, <<MinusSign>>},
              d \in Numbers({1, MaxI128, MaxI128 + 1, MaxU128 + 1})
                    \union {<<>>, <<x>>, <<Digits(1), Invalid>>}}
Bounds == {Wrapped("both", "none", sign \o d) :
             sign \in {<<>>, <<MinusSign>>}, d \in Numbers({1, MaxI128 + 1, MaxU128 + 1})}
ByteStrings == UNION {[1..n -> {0, 1}] : n \in 0..2}

SomeGateRequests ==
  [comparison: {"U128Json", "I128Json"}, actual: Answers,
   min: Bounds \union {Absent}, max: Bounds \union {Absent}]
  \union
  [comparison: {"LexBytes"}, actual: ByteStrings, min: ByteStrings \union {Absent},
   max: ByteStrings \union {Absent}]

\* One name continues the other.  Templates of up to three pieces: placeholders,
\* text, and bytes that are not UTF-8; one whose placeholder forms only when the one
\* inside it is replaced, and two placeholders that share a quote.
SomeNames == {<<x>>, <<x, y>>}
X == placeholder(<<x>>)
Y == placeholder(<<x, y>>)
Between == <<Quote, x, Invalid>>
Templates ==
  {<<X>>, <<Y>>, <<X, Y>>, <<Y, X>>, <<X, Between>>, <<Between, Y>>, <<X, Between, X>>,
   <<Between, X, Y>>, <<<<Quote, Dollar, OpenBrace>>, X, <<CloseBrace, Quote>>>>,
   <<X, SubSeq(Y, 2, Len(Y))>>}

\* Saved results that are numbers, bytes of any kind, a name, with a placeholder in
\* them, or missing.
SavedValues == {Absent, Quoted(3), <<PlusSign, Digits(7), Space>>, <<Invalid, Quote>>,
                <<x, y>>, Append(Y, x)}
Ops == [kind: {"Raw"}] \union [kind: {"DivU128"}, denominator: {0, 2}]
       \union [kind: {"PercentU128"}, bps: {5000, 9999, 10001}]
SomeArgsRequests ==
  [pieces: Templates, saved: [PlaceNames -> SavedValues],
   substitutions: UNION {[1..n -> [reference: PlaceNames, op: Ops]] : n \in 0..2}]

SomeTexts == {Wrapped("both", "inside", <<Digits(d)>>) : d \in {0, 1, 3, 7, 8}}

----------------------------------------------------------------------------

NoGas == call = (CHOOSE c \in Call : TRUE) /\ stage = "refused" /\ left = 0
NoValues == request = Absent /\ answer = Absent /\ shares = NoShares
NoHop == owner_id = Root /\ AuthorizerInit
NoTrace == hops = <<>> /\ phase = "resume" /\ at = 1 /\ queued = 0 /\ expired = FALSE

StepInit ==
  \/ Init /\ NoValues /\ NoHop /\ NoTrace
  \/ NoGas /\ ValuesInit /\ NoHop /\ NoTrace
  \/ NoGas /\ NoValues /\ AuthorizerInit /\ NoTrace
  \/ NoGas /\ NoValues /\ NoHop /\ TraceInit

StepNext ==
  \/ Next /\ UNCHANGED <<valueVars, authorizerVars, traceVars>>
  \/ ValuesNext /\ UNCHANGED <<gasVars, authorizerVars, traceVars>>
  \/ NoGas /\ NoValues /\ NoTrace /\ AuthorizerNext /\ UNCHANGED <<gasVars, valueVars, traceVars>>
  \/ TraceNext /\ UNCHANGED <<gasVars, valueVars, authorizerVars>>

StepSpec == StepInit /\ [][StepNext]_<<gasVars, valueVars, authorizerVars, traceVars>>
=============================================================================
