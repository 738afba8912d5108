--------------------------- MODULE AdaptersProofs ---------------------------
(***************************************************************************)
(* What the adapters and the contracts behind them promise, for any number *)
(* of flows, any numbers and deposits and any gas: the budget of a step    *)
(* pays for its adapter, a polled success is about fresh work,             *)
(* calls_completed counts the work done, and the books of compat-adapter   *)
(* balance.                                                                *)
(***************************************************************************)
EXTENDS Adapters, SumLemmas

----------------------------------------------------------------------------
(* Types.                                                                  *)

\* The part of the type invariant that is inductive on its own.  The two currencies
\* come later: near and wrapped stay natural numbers only while the books balance.  A detached echo, and a demo adaptation that was not
\* refused, belong to a call that has been made.
StartedByCall ==
  \A f \in Flows :
    /\ detached[f] # None => calls[f] # None
    /\ adaptations[f] # None /\ adaptations[f].adapter = "demo"
         /\ adaptations[f].stage # "refused"
       => calls[f] # None /\ calls[f].method = "route_echo_fire_and_forget"
FlowsTypeOK ==
  /\ TargetsTypeOK
  /\ adaptations \in [Flows -> Adaptation \union {None}]
  /\ StartedByCall

DetachedStates == {None, "sent", "ok", "err", "finished"}

LEMMA CallTypes ==
  /\ \A method \in Methods, arg \in Nat : Called(method, arg) \in Call
  /\ \A c \in DirectCalls : c.method \in Methods /\ c.arg \in Nat
<1>1. ASSUME NEW method \in Methods, NEW arg \in Nat PROVE Called(method, arg) \in Call
  BY DEF Called, Call
<1>2. ASSUME NEW c \in DirectCalls PROVE c.method \in Methods /\ c.arg \in Nat
  <2>1. CASE c \in [method: RouterMethods \union {"route_echo_fire_and_forget"}, arg: Numbers]
    BY <2>1, TargetInputs DEF Methods, RouterMethods
  <2>2. CASE c \in [method: {"do_honest_work", "burn_gas", "noop_claim_success",
                            "return_decoy_promise", "return_oversized_payload"}, arg: {0}]
    BY <2>2 DEF Methods, PathologicalMethods
  <2>3. CASE c \in [method: {"require_one_yocto"}, arg: Deposits]
    BY <2>3, TargetInputs DEF Methods, PathologicalMethods
  <2> QED
    BY <1>2, <2>1, <2>2, <2>3 DEF DirectCalls
<1> QED
  BY <1>1, <1>2

\* The state of a call changes within its type, and nothing else of it does.
LEMMA AnswerType ==
  ASSUME FlowsTypeOK, NEW f \in Flows, calls[f] # None,
         NEW state \in {"called", "waiting", "ok", "err"}
  PROVE  [calls EXCEPT ![f].state = state] \in [Flows -> Call \union {None}]
<1>1. calls \in [Flows -> Call \union {None}] /\ calls[f] \in Call
  BY DEF FlowsTypeOK, TargetsTypeOK
<1>2. [calls[f] EXCEPT !.state = state] \in Call
  BY <1>1 DEF Call
<1> QED
  BY <1>1, <1>2

LEMMA SentType ==
  ASSUME FlowsTypeOK, NEW f \in Flows, NEW state \in DetachedStates
  PROVE  [detached EXCEPT ![f] = state] \in [Flows -> DetachedStates]
BY DEF FlowsTypeOK, TargetsTypeOK, DetachedStates

\* The step of a called method.
LEMMA TargetsType ==
  ASSUME FlowsTypeOK, NEW f \in Flows, TargetRuns(f)
  PROVE  TargetsTypeOK'
<1> USE DEF FlowsTypeOK
<1>1. CASE route_echo(f)
  BY <1>1, AnswerType DEF route_echo, RunsNow, Waits, TargetsTypeOK
<1>2. CASE route_echo_fire_and_forget(f)
  <2>1. detached' \in [Flows -> DetachedStates]
    BY <1>2, SentType DEF route_echo_fire_and_forget, DetachedStates
  <2>2. calls' \in [Flows -> Call \union {None}]
    BY <1>2, AnswerType DEF route_echo_fire_and_forget, RunsNow, Answer
  <2> QED
    BY <1>2, <2>1, <2>2 DEF route_echo_fire_and_forget, TargetsTypeOK, DetachedStates
<1>3. CASE do_honest_work(f)
  <2>1. calls' \in [Flows -> Call \union {None}]
    BY <1>3, AnswerType DEF do_honest_work, RunsNow, Answer
  <2> QED
    BY <1>3, <2>1 DEF do_honest_work, TargetsTypeOK
<1>4. CASE burn_gas(f) \/ noop_claim_success(f) \/ return_oversized_payload(f)
  <2>1. calls' \in [Flows -> Call \union {None}]
    BY <1>4, AnswerType
    DEF burn_gas, noop_claim_success, return_oversized_payload, RunsNow, Answer
  <2> QED
    BY <1>4, <2>1
    DEF burn_gas, noop_claim_success, return_oversized_payload, TargetsTypeOK
<1>5. CASE return_decoy_promise(f)
  <2>1. detached' \in [Flows -> DetachedStates]
    BY <1>5, SentType DEF return_decoy_promise, DetachedStates
  <2>2. calls' \in [Flows -> Call \union {None}]
    BY <1>5, AnswerType DEF return_decoy_promise, RunsNow, Waits
  <2> QED
    BY <1>5, <2>1, <2>2 DEF return_decoy_promise, TargetsTypeOK, DetachedStates
<1>6. CASE require_one_yocto(f)
  <2>1. calls' \in [Flows -> Call \union {None}]
    BY <1>6, AnswerType DEF require_one_yocto, RunsNow, Answer
  <2> QED
    BY <1>6, <2>1 DEF require_one_yocto, TargetsTypeOK
<1>7. ASSUME NEW outcome \in {"ok", "err"}, echo(f, outcome)
      PROVE  TargetsTypeOK'
  <2>1. calls \in [Flows -> Call \union {None}] /\ calls[f] \in Call
    BY <1>7 DEF echo, TargetsTypeOK
  <2>2. Append(calls[f].echoes, outcome) \in Seq({"ok", "err"})
    BY <2>1 DEF Call
  <2>3. [calls[f] EXCEPT !.echoes = Append(@, outcome)] \in Call
    BY <2>1, <2>2 DEF Call
  <2>4. calls' = [calls EXCEPT ![f] = [calls[f] EXCEPT !.echoes = Append(@, outcome)]]
    BY <1>7 DEF echo
  <2> QED
    BY <1>7, <2>1, <2>3, <2>4 DEF echo, TargetsTypeOK
<1>8. CASE EchoIsTheAnswer(f)
  <2>1. calls[f] \in Call /\ Len(calls[f].echoes) = 1
    BY <1>8 DEF EchoIsTheAnswer, EchoesIn, Awaited, TargetsTypeOK
  <2>2. calls[f].echoes[1] \in {"ok", "err"}
    BY <2>1 DEF Call
  <2> QED
    BY <1>8, <2>2, AnswerType DEF EchoIsTheAnswer, EchoesIn, Answer, TargetsTypeOK
<1>9. CASE on_echo_and(f)
  BY <1>9, AnswerType DEF on_echo_and, EchoesIn, Answer, TargetsTypeOK
<1> QED
  BY <1>1, <1>2, <1>3, <1>4, <1>5, <1>6, <1>7, <1>8, <1>9 DEF TargetRuns

LEMMA DetachedType ==
  ASSUME FlowsTypeOK, NEW f \in Flows, DetachedRuns(f)
  PROVE  TargetsTypeOK'
<1> USE DEF FlowsTypeOK
<1>1. ASSUME NEW outcome \in {"ok", "err"}, DetachedEcho(f, outcome)
      PROVE  TargetsTypeOK'
  BY <1>1 DEF DetachedEcho, TargetsTypeOK
<1>2. CASE on_echo_finished(f)
  <2>1. detached[f] # None
    BY <1>2, TargetInputs DEF on_echo_finished
  <2>2. calls[f] \in Call
    BY <2>1 DEF TargetsTypeOK, StartedByCall
  <2>3. calls[f].arg \in Nat
    BY <2>2 DEF Call
  <2>4. detached' \in [Flows -> DetachedStates]
    BY <1>2, SentType DEF on_echo_finished, DetachedStates
  <2>5. Started \subseteq Flows
    BY DEF Started
  <2>6. last_finished' \in Nat \union {None} /\ finished_after' \subseteq Flows \X Flows
    BY <1>2, <2>3, <2>5 DEF on_echo_finished, TargetsTypeOK
  <2> QED
    BY <1>2, <2>4, <2>6 DEF on_echo_finished, TargetsTypeOK, DetachedStates
<1> QED
  BY <1>1, <1>2 DEF DetachedRuns

\* Once made, a call stays, with its method and its argument.
Kept ==
  \A g \in Flows : calls[g] # None =>
    /\ calls'[g] # None
    /\ calls'[g].method = calls[g].method /\ calls'[g].arg = calls[g].arg

LEMMA AnswerKeeps ==
  ASSUME FlowsTypeOK, NEW f \in Flows, calls[f] # None,
         NEW state \in {"called", "waiting", "ok", "err"},
         calls' = [calls EXCEPT ![f].state = state]
  PROVE  Kept
<1>1. calls \in [Flows -> Call \union {None}] /\ calls[f] \in Call
  BY DEF FlowsTypeOK, TargetsTypeOK
<1>2. calls'[f] = [calls[f] EXCEPT !.state = state]
  BY <1>1
<1>3. calls'[f].method = calls[f].method /\ calls'[f].arg = calls[f].arg
  BY <1>1, <1>2 DEF Call
<1>4. calls'[f] \in Call
  BY <1>1, <1>2 DEF Call
<1>5. calls'[f] # None
  BY <1>4, TargetInputs
<1>6. \A g \in Flows : g # f => calls'[g] = calls[g]
  BY <1>1
<1> QED
  BY <1>3, <1>5, <1>6 DEF Kept

LEMMA TargetsKeep ==
  ASSUME FlowsTypeOK, NEW f \in Flows, TargetRuns(f)
  PROVE  Kept
<1>1. ASSUME NEW outcome \in {"ok", "err"}, echo(f, outcome)
      PROVE  Kept
  <2>1. calls \in [Flows -> Call \union {None}] /\ calls[f] \in Call
    BY <1>1 DEF echo, FlowsTypeOK, TargetsTypeOK
  <2>2. calls' = [calls EXCEPT ![f] = [calls[f] EXCEPT !.echoes = Append(@, outcome)]]
    BY <1>1 DEF echo
  <2>3. calls'[f] \in Call
    <3>1. calls' \in [Flows -> Call \union {None}]
      BY <1>1, TargetsType DEF TargetRuns, TargetsTypeOK
    <3>2. Append(calls[f].echoes, outcome) \in Seq({"ok", "err"})
      BY <2>1 DEF Call
    <3> QED
      BY <2>1, <2>2, <3>2 DEF Call
  <2>4. calls'[f].method = calls[f].method /\ calls'[f].arg = calls[f].arg
    BY <2>1, <2>2 DEF Call
  <2> QED
    BY <2>1, <2>2, <2>3, <2>4, TargetInputs DEF Kept
<1>2. ASSUME EchoIsTheAnswer(f)
      PROVE  Kept
  <2>1. calls[f] # None /\ calls[f].echoes[1] \in {"ok", "err"}
    <3>1. calls[f] \in Call /\ Len(calls[f].echoes) = 1
      BY <1>2 DEF EchoIsTheAnswer, EchoesIn, Awaited, FlowsTypeOK, TargetsTypeOK
    <3> QED
      BY <1>2, <3>1 DEF Call, EchoIsTheAnswer, EchoesIn
  <2> QED
    BY <1>2, <2>1, AnswerKeeps DEF EchoIsTheAnswer, Answer
<1>3. CASE on_echo_and(f)
  BY <1>3, AnswerKeeps DEF on_echo_and, EchoesIn, Answer
<1>4. CASE route_echo(f) \/ return_decoy_promise(f)
  BY <1>4, AnswerKeeps DEF route_echo, return_decoy_promise, RunsNow, Waits
<1>5. CASE require_one_yocto(f)
  BY <1>5, AnswerKeeps DEF require_one_yocto, RunsNow, Answer
<1>6. CASE \/ route_echo_fire_and_forget(f) \/ do_honest_work(f) \/ burn_gas(f)
           \/ noop_claim_success(f) \/ return_oversized_payload(f)
  BY <1>6, AnswerKeeps
  DEF route_echo_fire_and_forget, do_honest_work, burn_gas, noop_claim_success,
      return_oversized_payload, RunsNow, Answer
<1> QED
  BY <1>1, <1>2, <1>3, <1>4, <1>5, <1>6 DEF TargetRuns

\* A new call at an unused flow.
LEMMA CallType ==
  ASSUME FlowsTypeOK, NEW f \in Flows, calls[f] = None,
         NEW method \in Methods, NEW arg \in Nat,
         calls' = [calls EXCEPT ![f] = Called(method, arg)]
  PROVE  calls' \in [Flows -> Call \union {None}] /\ Kept
<1>1. calls \in [Flows -> Call \union {None}] /\ Called(method, arg) \in Call
  BY CallTypes DEF FlowsTypeOK, TargetsTypeOK
<1> QED
  BY <1>1 DEF Kept

----------------------------------------------------------------------------
(* The adapters' steps.                                                    *)

Stages == {"start", "started", "poll", "polled", "deposit", "deposited", "transfer",
           "transferred", "ok", "err", "refused"}

MaybeAdapted == [Flows -> Adaptation \union {None}]

AdaptedAt(f) == {m \in MaybeAdapted : m[f] # None}

\* An adaptation moves within its type.
LEMMA MoveTypes ==
  ASSUME FlowsTypeOK, NEW f \in Flows, adaptations[f] # None
  PROVE  /\ \A stage \in Stages : Moves(f, stage) => adaptations' \in AdaptedAt(f)
         /\ \A why \in {"budget", "outcome"} : Panics(f, why) => adaptations' \in AdaptedAt(f)
         /\ \A stage \in Stages, seen \in {None, "ok", "err"} :
              Sees(f, stage, seen) => adaptations' \in AdaptedAt(f)
         /\ \A value \in Nat \union {None} :
              [adaptations EXCEPT ![f].stage = "polled", ![f].value = value] \in AdaptedAt(f)
         /\ \A budget \in Nat :
              [adaptations EXCEPT ![f].stage = "transfer", ![f].budget = budget]
                \in AdaptedAt(f)
         /\ \A budget \in Nat, left \in 0..MAX_POLL_ATTEMPTS :
              [adaptations EXCEPT ![f].stage = "poll", ![f].budget = budget,
                                  ![f].attempts = left] \in AdaptedAt(f)
<1> DEFINE a == adaptations[f]
<1>1. adaptations \in MaybeAdapted /\ a \in Adaptation
  BY DEF FlowsTypeOK, MaybeAdapted
<1>2. ASSUME NEW new \in Adaptation PROVE [adaptations EXCEPT ![f] = new] \in AdaptedAt(f)
  BY <1>1, AdapterNone DEF AdaptedAt, MaybeAdapted
<1>3. ASSUME NEW stage \in Stages
      PROVE  [a EXCEPT !.stage = stage] \in Adaptation
  BY <1>1 DEF Adaptation, Stages
<1>4. ASSUME NEW why \in {"budget", "outcome"}
      PROVE  [a EXCEPT !.stage = "err", !.why = why] \in Adaptation
  BY <1>1 DEF Adaptation
<1>5. ASSUME NEW stage \in Stages, NEW seen \in {None, "ok", "err"}
      PROVE  [a EXCEPT !.stage = stage, !.seen = seen] \in Adaptation
  BY <1>1 DEF Adaptation, Stages
<1>6. ASSUME NEW value \in Nat \union {None}
      PROVE  [a EXCEPT !.stage = "polled", !.value = value] \in Adaptation
  BY <1>1 DEF Adaptation
<1>7. ASSUME NEW budget \in Nat
      PROVE  [a EXCEPT !.stage = "transfer", !.budget = budget] \in Adaptation
  BY <1>1 DEF Adaptation
<1>8. ASSUME NEW budget \in Nat, NEW left \in 0..MAX_POLL_ATTEMPTS
      PROVE  [a EXCEPT !.stage = "poll", !.budget = budget, !.attempts = left] \in Adaptation
  BY <1>1 DEF Adaptation
<1> HIDE DEF a
<1>9. \A stage \in Stages : Moves(f, stage) => adaptations' \in AdaptedAt(f)
  BY <1>2, <1>3 DEF a, Moves
<1>10. ASSUME NEW why \in {"budget", "outcome"}, Panics(f, why)
       PROVE  adaptations' \in AdaptedAt(f)
  <2>1. adaptations' = [adaptations EXCEPT ![f] = [a EXCEPT !.stage = "err", !.why = why]]
    BY <1>10 DEF a, Panics
  <2> QED
    BY <1>2, <1>4, <2>1
<1>11. ASSUME NEW stage \in Stages, NEW seen \in {None, "ok", "err"}, Sees(f, stage, seen)
       PROVE  adaptations' \in AdaptedAt(f)
  <2>1. adaptations' = [adaptations EXCEPT ![f] = [a EXCEPT !.stage = stage, !.seen = seen]]
    BY <1>11 DEF a, Sees
  <2> QED
    BY <1>2, <1>5, <2>1
<1>12. \A value \in Nat \union {None} :
         [adaptations EXCEPT ![f].stage = "polled", ![f].value = value] \in AdaptedAt(f)
  BY <1>2, <1>6 DEF a
<1>13. \A budget \in Nat :
         [adaptations EXCEPT ![f].stage = "transfer", ![f].budget = budget] \in AdaptedAt(f)
  BY <1>2, <1>7 DEF a
<1>14. \A budget \in Nat, left \in 0..MAX_POLL_ATTEMPTS :
         [adaptations EXCEPT ![f].stage = "poll", ![f].budget = budget,
                             ![f].attempts = left] \in AdaptedAt(f)
  BY <1>2, <1>8 DEF a
<1> QED
  BY <1>9, <1>10, <1>11, <1>12, <1>13, <1>14

LEMMA BudgetsAreNatural == \A m, n \in Nat : Minus(m, n) \in Nat
BY DEF Minus

\* Every step of an adapter keeps the types.
LEMMA AdapterRunsType ==
  ASSUME FlowsTypeOK, NEW f \in Flows, AdapterRuns(f)
  PROVE  adaptations' \in AdaptedAt(f)
<1>1. ASSUME adaptations[f] # None
      PROVE  /\ adaptations[f].budget \in Nat /\ adaptations[f].attempts \in 0..MAX_POLL_ATTEMPTS
             /\ adaptations[f] \in Adaptation
  BY <1>1 DEF FlowsTypeOK, Adaptation
<1>2. CASE StartReturns(f)
  <2>1. Answered(f) => calls[f].state \in {None, "ok", "err"}
    BY DEF Answered
  <2> QED
    BY <1>2, <2>1, MoveTypes DEF StartReturns, At, Stages
<1>3. ASSUME NEW left \in 0..MAX_POLL_ATTEMPTS, adaptations[f] # None,
             schedule_finished_poll(f, left)
      PROVE  adaptations' \in AdaptedAt(f)
  <2>1. Minus(adaptations[f].budget, POLL_STEP_OVERHEAD) \in Nat
    BY <1>1, <1>3, BudgetsAreNatural DEF POLL_STEP_OVERHEAD
  <2> DEFINE budget == Minus(adaptations[f].budget, POLL_STEP_OVERHEAD)
  <2>2. [adaptations EXCEPT ![f].stage = "poll", ![f].budget = budget, ![f].attempts = left]
          \in AdaptedAt(f)
    BY <1>3, <2>1, MoveTypes
  <2> QED
    BY <1>3, <2>2, MoveTypes DEF schedule_finished_poll
<1>4. CASE on_route_echo_started(f)
  BY <1>1, <1>3, <1>4, MoveTypes DEF on_route_echo_started, At, Stages
<1>5. CASE PollReturns(f)
  <2>1. last_finished \in Nat \union {None}
    BY DEF FlowsTypeOK, TargetsTypeOK
  <2>2. \A value \in {last_finished, None} :
          [adaptations EXCEPT ![f].stage = "polled", ![f].value = value] \in AdaptedAt(f)
    BY <1>5, <2>1, MoveTypes DEF PollReturns, At
  <2> QED
    BY <1>5, <2>2 DEF PollReturns
<1>6. CASE on_last_finished_polled(f)
  <2>1. adaptations[f] # None
    BY <1>6 DEF on_last_finished_polled, At
  <2>2. adaptations[f].attempts # 0 => adaptations[f].attempts - 1 \in 0..MAX_POLL_ATTEMPTS
    BY <1>1, <2>1 DEF MAX_POLL_ATTEMPTS
  <2> QED
    BY <1>3, <1>6, <2>1, <2>2, MoveTypes DEF on_last_finished_polled, Stages
<1>7. ASSUME NEW outcome \in {"ok", "err"},
             DepositReturns(f, outcome) \/ TransferReturns(f, outcome)
      PROVE  adaptations' \in AdaptedAt(f)
  BY <1>7, MoveTypes DEF DepositReturns, TransferReturns, At, Stages
<1>8. CASE on_wrap_near_deposit_started(f)
  <2>1. adaptations[f] # None
    BY <1>8 DEF on_wrap_near_deposit_started, At
  <2>2. Minus(adaptations[f].budget, WRAP_TRANSFER_STEP_OVERHEAD) \in Nat
    BY <1>1, <2>1, BudgetsAreNatural DEF WRAP_TRANSFER_STEP_OVERHEAD
  <2> QED
    BY <1>8, <2>1, <2>2, MoveTypes DEF on_wrap_near_deposit_started, Stages
<1>9. CASE on_wrap_ft_transfer_finished(f)
  BY <1>9, MoveTypes DEF on_wrap_ft_transfer_finished, At, Stages
<1> QED
  BY <1>2, <1>4, <1>5, <1>6, <1>7, <1>8, <1>9 DEF AdapterRuns

LEMMA AcceptedType ==
  ASSUME NEW adapter \in {"demo", "compat"}, NEW n \in Nat, NEW attached \in Nat,
         NEW extra \in Nat, NEW stage \in Stages
  PROVE  Accepted(adapter, n, attached, extra, stage) \in Adaptation
<1>1. StartBudget(extra) \in Nat
  BY BudgetsAreNatural DEF StartBudget, ADAPTER_START_OVERHEAD
<1>2. MAX_POLL_ATTEMPTS \in 0..MAX_POLL_ATTEMPTS
  BY DEF MAX_POLL_ATTEMPTS
<1> QED
  BY <1>1, <1>2 DEF Accepted, Adaptation, Stages

\* What a dispatch does to its flow: a call of a method, an adaptation, or both.
LEMMA DispatchOutcome ==
  ASSUME FlowsTypeOK, NEW f \in Flows, Dispatch(f)
  PROVE  /\ calls[f] = None /\ adaptations[f] = None
         /\ UNCHANGED <<detached, last_finished, calls_completed, finished_after>>
         /\ \/ UNCHANGED calls
            \/ \E method \in Methods, arg \in Nat :
                 calls' = [calls EXCEPT ![f] = Called(method, arg)]
         /\ \/ UNCHANGED adaptations
            \/ \E n, extra \in Nat :
                 /\ StartBudget(extra) >= MIN_CALLBACK_BUDGET
                 /\ adaptations' = [adaptations EXCEPT ![f] = Accepted("demo", n, 0, extra, "start")]
                 /\ calls' = [calls EXCEPT ![f] = Called("route_echo_fire_and_forget", n)]
            \/ \E n, extra \in Nat :
                 adaptations' = [adaptations EXCEPT ![f] = Accepted("demo", n, 0, extra, "refused")]
            \/ \E attached, extra \in Nat, stage \in {"deposit", "refused"} :
                 adaptations' = [adaptations EXCEPT ![f] = Accepted("compat", 0, attached, extra, stage)]
<1>1. CASE \E n \in Numbers, extra \in ExtraGas : adapt_fire_and_forget_route_echo(f, n, extra)
  <2>1. PICK n \in Numbers, extra \in ExtraGas : adapt_fire_and_forget_route_echo(f, n, extra)
    BY <1>1
  <2>2. n \in Nat /\ extra \in Nat
    BY TargetInputs, AdapterInputs
  <2>3. "route_echo_fire_and_forget" \in Methods
    BY DEF Methods
  <2> QED
    BY <2>1, <2>2, <2>3 DEF adapt_fire_and_forget_route_echo, Unused
<1>2. CASE \E attached \in Attached, extra \in ExtraGas :
             adapt_wrap_near_deposit_then_transfer(f, attached, extra)
  <2>1. PICK attached \in Attached, extra \in ExtraGas :
          adapt_wrap_near_deposit_then_transfer(f, attached, extra)
    BY <1>2
  <2>2. attached \in Nat /\ extra \in Nat
    BY AdapterInputs
  <2> QED
    BY <2>1, <2>2 DEF adapt_wrap_near_deposit_then_transfer, Unused, targetVars
<1>3. CASE \E c \in DirectCalls :
             /\ Unused(f)
             /\ calls' = [calls EXCEPT ![f] = Called(c.method, c.arg)]
             /\ UNCHANGED <<detached, last_finished, calls_completed, finished_after, adapterVars>>
  BY <1>3, CallTypes DEF Unused, adapterVars
<1> QED
  BY <1>1, <1>2, <1>3 DEF Dispatch

\* What StartReturns does to the call it waits for.
LEMMA StartReturnsCalls ==
  ASSUME FlowsTypeOK, NEW f \in Flows, StartReturns(f)
  PROVE  calls' \in [Flows -> Call \union {None}] /\ Kept
<1>1. CASE UNCHANGED calls
  BY <1>1 DEF FlowsTypeOK, TargetsTypeOK, Kept
<1>2. CASE calls' = [calls EXCEPT ![f].state = "err"]
  <2>1. calls[f] # None
    BY DEF FlowsTypeOK, StartedByCall, StartReturns, At
  <2> QED
    BY <1>2, <2>1, AnswerType, AnswerKeeps
<1> QED
  BY <1>1, <1>2 DEF StartReturns

\* In every step calls stay, a detached echo stays sent, and the reports of echoes
\* stay in the history.
Reported ==
  /\ \A f \in Flows : detached[f] # None => detached'[f] # None
  /\ \A f \in Flows : detached'[f] # None => calls'[f] # None
  /\ finished_after \subseteq finished_after'

LEMMA RunsReport ==
  ASSUME FlowsTypeOK, NEW f \in Flows, TargetRuns(f) \/ DetachedRuns(f)
  PROVE  Kept /\ Reported /\ TargetsTypeOK'
<1>1. CASE TargetRuns(f)
  <2>1. Kept /\ TargetsTypeOK'
    BY <1>1, TargetsKeep, TargetsType
  <2>2. UNCHANGED finished_after
    BY <1>1
    DEF TargetRuns, route_echo, route_echo_fire_and_forget, do_honest_work, burn_gas,
        noop_claim_success, return_decoy_promise, return_oversized_payload,
        require_one_yocto, echo, EchoIsTheAnswer, on_echo_and
  <2>3. UNCHANGED detached \/ detached' = [detached EXCEPT ![f] = "sent"]
    BY <1>1
    DEF TargetRuns, route_echo, route_echo_fire_and_forget, do_honest_work, burn_gas,
        noop_claim_success, return_decoy_promise, return_oversized_payload,
        require_one_yocto, echo, EchoIsTheAnswer, on_echo_and
  <2>4. detached \in [Flows -> DetachedStates] /\ None # "sent"
    BY TargetInputs DEF FlowsTypeOK, TargetsTypeOK, DetachedStates
  <2>5. detached'[f] # detached[f] => calls[f] # None
    BY <1>1
    DEF TargetRuns, route_echo, route_echo_fire_and_forget, do_honest_work, burn_gas,
        noop_claim_success, return_decoy_promise, return_oversized_payload,
        require_one_yocto, echo, EchoIsTheAnswer, on_echo_and, RunsNow
  <2>6. \A g \in Flows : detached'[g] # None => calls[g] # None
    BY <2>3, <2>4, <2>5 DEF FlowsTypeOK, StartedByCall
  <2> QED
    BY <2>1, <2>2, <2>3, <2>4, <2>6 DEF Reported, Kept
<1>2. CASE DetachedRuns(f)
  <2>1. TargetsTypeOK' /\ UNCHANGED calls
    BY <1>2, DetachedType DEF DetachedRuns, DetachedEcho, on_echo_finished
  <2>2. finished_after \subseteq finished_after'
    BY <1>2 DEF DetachedRuns, DetachedEcho, on_echo_finished
  <2>3. /\ detached[f] # None
        /\ \E state \in {"ok", "err", "finished"} : detached' = [detached EXCEPT ![f] = state]
    BY <1>2, TargetInputs DEF DetachedRuns, DetachedEcho, on_echo_finished
  <2>4. detached \in [Flows -> DetachedStates] /\ None \notin {"ok", "err", "finished"}
    BY TargetInputs DEF FlowsTypeOK, TargetsTypeOK, DetachedStates
  <2>5. \A g \in Flows : detached'[g] # None => calls[g] # None
    BY <2>3, <2>4 DEF FlowsTypeOK, StartedByCall
  <2> QED
    BY <2>1, <2>2, <2>3, <2>4, <2>5 DEF Kept, Reported
<1> QED
  BY <1>1, <1>2

LEMMA AdapterRunsReport ==
  ASSUME FlowsTypeOK, NEW f \in Flows, AdapterRuns(f)
  PROVE  /\ Kept /\ Reported /\ TargetsTypeOK'
         /\ UNCHANGED <<detached, last_finished, calls_completed, finished_after>>
<1>1. CASE StartReturns(f)
  <2>1. calls' \in [Flows -> Call \union {None}] /\ Kept
    BY <1>1, StartReturnsCalls
  <2>2. UNCHANGED <<detached, last_finished, calls_completed, finished_after>>
    BY <1>1 DEF StartReturns
  <2> QED
    BY <2>1, <2>2 DEF Reported, FlowsTypeOK, TargetsTypeOK, StartedByCall, Kept
<1>2. CASE UNCHANGED targetVars
  BY <1>2 DEF targetVars, Kept, Reported, FlowsTypeOK, TargetsTypeOK, StartedByCall
<1>3. AdapterRuns(f) => StartReturns(f) \/ UNCHANGED targetVars
  BY DEF AdapterRuns, on_route_echo_started, PollReturns, on_last_finished_polled,
         DepositReturns, TransferReturns, on_wrap_near_deposit_started,
         on_wrap_ft_transfer_finished, targetVars
<1> QED
  BY <1>1, <1>2, <1>3

LEMMA DispatchReports ==
  ASSUME FlowsTypeOK, NEW f \in Flows, Dispatch(f)
  PROVE  /\ Kept /\ Reported /\ TargetsTypeOK'
         /\ UNCHANGED <<detached, last_finished, calls_completed, finished_after>>
         /\ adaptations' \in MaybeAdapted
<1>1. /\ calls[f] = None
      /\ UNCHANGED <<detached, last_finished, calls_completed, finished_after>>
  BY DispatchOutcome
<1>2. calls' \in [Flows -> Call \union {None}] /\ Kept
  <2>1. CASE UNCHANGED calls
    BY <2>1 DEF FlowsTypeOK, TargetsTypeOK, Kept
  <2>2. CASE \E method \in Methods, arg \in Nat :
               calls' = [calls EXCEPT ![f] = Called(method, arg)]
    BY <1>1, <2>2, CallType
  <2> QED
    BY <2>1, <2>2, DispatchOutcome
<1>3. adaptations' \in MaybeAdapted
  <2>1. ASSUME NEW new \in Adaptation, adaptations' = [adaptations EXCEPT ![f] = new]
        PROVE  adaptations' \in MaybeAdapted
    BY <2>1 DEF FlowsTypeOK, MaybeAdapted
  <2>2. \A n, extra \in Nat, stage \in {"start", "refused"} :
          Accepted("demo", n, 0, extra, stage) \in Adaptation
    BY AcceptedType DEF Stages
  <2>3. \A attached, extra \in Nat, stage \in {"deposit", "refused"} :
          Accepted("compat", 0, attached, extra, stage) \in Adaptation
    BY AcceptedType DEF Stages
  <2>4. UNCHANGED adaptations \/ \E new \in Adaptation : adaptations' = [adaptations EXCEPT ![f] = new]
    BY <2>2, <2>3, DispatchOutcome
  <2> QED
    BY <2>1, <2>4 DEF FlowsTypeOK, MaybeAdapted
<1> QED
  BY <1>1, <1>2, <1>3 DEF Reported, Kept, FlowsTypeOK, TargetsTypeOK, StartedByCall

\* How an adapter's step takes the adaptation a to b, branch by branch.
Scheduled(a, b, left) ==
  LET budget == Minus(a.budget, POLL_STEP_OVERHEAD) IN
  \/ budget >= MIN_CALLBACK_BUDGET /\ b.stage = "poll" /\ b.budget = budget
     /\ b.attempts = left /\ b.why = a.why
  \/ ~(budget >= MIN_CALLBACK_BUDGET) /\ b.stage = "err" /\ b.why = "budget"
DemoStep(f, a, b) ==
  /\ a.adapter = "demo"
  /\ \/ /\ a.stage = "start" /\ b.stage = "started" /\ b.budget = a.budget
        /\ b.attempts = a.attempts /\ b.why = a.why
        /\ b.seen = "ok" => calls[f].state = "ok" /\ UNCHANGED calls
     \/ a.stage = "started" /\ a.seen = "ok" /\ Scheduled(a, b, a.attempts)
     \/ /\ a.stage = "poll" /\ b.stage = "polled" /\ b.budget = a.budget
        /\ b.attempts = a.attempts /\ b.why = a.why
        /\ b.value = None \/ b.value = last_finished
     \/ a.stage = "polled" /\ a.value = a.n /\ b.stage = "ok" /\ b.why = a.why
     \/ a.stage = "polled" /\ a.attempts # 0 /\ Scheduled(a, b, a.attempts - 1)
CompatStep(a, b) ==
  /\ a.adapter = "compat"
  /\ \/ a.stage = "deposit" /\ b.stage = "deposited" /\ b.budget = a.budget /\ b.why = a.why
     \/ /\ a.stage = "deposited" /\ b.stage = "transfer" /\ b.why = a.why
     \/ /\ a.stage = "deposited" /\ b.stage = "err" /\ b.why = "budget"
        /\ Minus(a.budget, WRAP_TRANSFER_STEP_OVERHEAD) < MIN_CALLBACK_BUDGET
     \/ a.stage = "transfer" /\ b.stage = "transferred" /\ b.why = a.why
     \/ a.stage = "transferred" /\ b.stage = "ok" /\ b.why = a.why
GivesUp(a, b) == a.stage # "refused" /\ b.stage = "err" /\ b.why = "outcome"

LEMMA AdapterRunsOutcome ==
  ASSUME FlowsTypeOK, NEW f \in Flows, AdapterRuns(f)
  PROVE  LET a == adaptations[f]  b == adaptations'[f] IN
         /\ a \in Adaptation /\ b \in Adaptation
         /\ \A g \in Flows : g # f => adaptations'[g] = adaptations[g]
         /\ b.adapter = a.adapter /\ b.n = a.n /\ b.extra = a.extra
         /\ DemoStep(f, a, b) \/ CompatStep(a, b) \/ GivesUp(a, b)
<1> DEFINE a == adaptations[f]
           b == adaptations'[f]
           Others == \A g \in Flows : g # f => adaptations'[g] = adaptations[g]
           Outcome == /\ Others
                      /\ b.adapter = a.adapter /\ b.n = a.n /\ b.extra = a.extra
                      /\ DemoStep(f, a, b) \/ CompatStep(a, b) \/ GivesUp(a, b)
<1>1. adaptations \in [Flows -> Adaptation \union {None}]
  BY DEF FlowsTypeOK
<1>2. a # None
  BY DEF AdapterRuns, StartReturns, on_route_echo_started, PollReturns,
         on_last_finished_polled, DepositReturns, TransferReturns,
         on_wrap_near_deposit_started, on_wrap_ft_transfer_finished, At
<1>3. a \in Adaptation
  BY <1>1, <1>2
<1>4. /\ \A stage : Moves(f, stage) => adaptations' = [adaptations EXCEPT ![f] = [a EXCEPT !.stage = stage]]
      /\ \A why : Panics(f, why) => adaptations' =
           [adaptations EXCEPT ![f] = [a EXCEPT !.stage = "err", !.why = why]]
      /\ \A stage, seen : Sees(f, stage, seen) => adaptations' =
           [adaptations EXCEPT ![f] = [a EXCEPT !.stage = stage, !.seen = seen]]
  BY DEF Moves, Panics, Sees
<1>5. \A c : adaptations' = [adaptations EXCEPT ![f] = c] =>
        b = c /\ Others
  BY <1>1 DEF Others
<1>s. SUFFICES Outcome
  BY <1>3, AdapterRunsType DEF AdaptedAt, MaybeAdapted
<1> USE <1>3
<1> HIDE DEF a, b, Others
<1>6. ASSUME Panics(f, "outcome"), a.stage # "refused"
      PROVE  Outcome
  <2>1. b = [a EXCEPT !.stage = "err", !.why = "outcome"]
        /\ Others
    BY <1>4, <1>5, <1>6
  <2> QED
    BY <1>6, <2>1 DEF Adaptation, GivesUp
<1>7. CASE StartReturns(f)
  <2>1. PICK seen : /\ Sees(f, "started", seen)
                    /\ seen = "ok" => calls[f].state = "ok" /\ UNCHANGED calls
    BY <1>7 DEF StartReturns
  <2>2. b = [a EXCEPT !.stage = "started", !.seen = seen]
        /\ Others
    BY <1>4, <1>5, <2>1
  <2>3. a.adapter = "demo" /\ a.stage = "start"
    BY <1>7 DEF StartReturns, At, a
  <2>4. /\ b.stage = "started" /\ b.seen = seen /\ b.budget = a.budget
        /\ b.attempts = a.attempts /\ b.why = a.why
        /\ b.adapter = a.adapter /\ b.n = a.n /\ b.extra = a.extra
    BY <2>2 DEF Adaptation
  <2>5. DemoStep(f, a, b)
    BY <2>1, <2>3, <2>4 DEF DemoStep
  <2> QED
    BY <2>2, <2>4, <2>5
<1>8. ASSUME NEW left, schedule_finished_poll(f, left)
      PROVE  /\ Others
             /\ b.adapter = a.adapter /\ b.n = a.n /\ b.extra = a.extra
             /\ Scheduled(a, b, left)
  <2> DEFINE budget == Minus(a.budget, POLL_STEP_OVERHEAD)
  <2>1. CASE budget >= MIN_CALLBACK_BUDGET
    <3>1. b = [a EXCEPT !.stage = "poll", !.budget = budget, !.attempts = left]
          /\ Others
      BY <1>5, <1>8, <2>1 DEF schedule_finished_poll, a
    <3> QED
      BY <2>1, <3>1 DEF Adaptation, Scheduled
  <2>2. CASE ~(budget >= MIN_CALLBACK_BUDGET)
    <3>1. b = [a EXCEPT !.stage = "err", !.why = "budget"]
          /\ Others
      BY <1>4, <1>5, <1>8, <2>2 DEF schedule_finished_poll, a
    <3> QED
      BY <2>2, <3>1 DEF Adaptation, Scheduled
  <2> QED
    BY <2>1, <2>2
<1>9. CASE on_route_echo_started(f)
  <2>1. a.adapter = "demo" /\ a.stage = "started"
    BY <1>9 DEF on_route_echo_started, At, a
  <2> QED
    <3>1. \/ a.seen = "ok" /\ schedule_finished_poll(f, a.attempts)
          \/ Panics(f, "outcome")
      BY <1>9 DEF on_route_echo_started, a
    <3>2. ASSUME a.seen = "ok", schedule_finished_poll(f, a.attempts) PROVE Outcome
      BY <1>8, <2>1, <3>2 DEF DemoStep
    <3> QED
      BY <1>6, <2>1, <3>1, <3>2
<1>10. CASE PollReturns(f)
  <2>1. a.adapter = "demo" /\ a.stage = "poll"
    BY <1>10 DEF PollReturns, At, a
  <2>2. PICK value \in {last_finished, None} :
          adaptations' = [adaptations EXCEPT ![f] = [a EXCEPT !.stage = "polled", !.value = value]]
    BY <1>10 DEF PollReturns, a
  <2>3. b = [a EXCEPT !.stage = "polled", !.value = value]
        /\ Others
    BY <1>5, <2>2
  <2>4. /\ b.stage = "polled" /\ b.value = value /\ b.budget = a.budget
        /\ b.attempts = a.attempts /\ b.why = a.why
        /\ b.adapter = a.adapter /\ b.n = a.n /\ b.extra = a.extra
    BY <2>3 DEF Adaptation
  <2>5. DemoStep(f, a, b)
    BY <2>1, <2>2, <2>4 DEF DemoStep
  <2> QED
    BY <2>3, <2>4, <2>5
<1>11. ASSUME NEW stage \in {"ok", "deposited", "transferred"}, NEW stage0 \in {"polled", "deposit", "transfer", "transferred"},
              a.stage = stage0, Moves(f, stage) \/ \E seen : Sees(f, stage, seen)
       PROVE  /\ Others
              /\ b.adapter = a.adapter /\ b.n = a.n /\ b.extra = a.extra
              /\ b.stage = stage /\ b.why = a.why /\ b.budget = a.budget
  <2>1. CASE Moves(f, stage)
    <3>1. b = [a EXCEPT !.stage = stage]
          /\ Others
      BY <1>4, <1>5, <2>1
    <3> QED
      BY <3>1 DEF Adaptation
  <2>2. ASSUME NEW seen, Sees(f, stage, seen)
        PROVE  /\ Others
               /\ b.adapter = a.adapter /\ b.n = a.n /\ b.extra = a.extra
               /\ b.stage = stage /\ b.why = a.why /\ b.budget = a.budget
    <3>1. b = [a EXCEPT !.stage = stage, !.seen = seen]
          /\ Others
      BY <1>4, <1>5, <2>2
    <3> QED
      BY <3>1 DEF Adaptation
  <2> QED
    BY <1>11, <2>1, <2>2
<1>12. CASE on_last_finished_polled(f)
  <2>1. a.adapter = "demo" /\ a.stage = "polled"
    BY <1>12 DEF on_last_finished_polled, At, a
  <2>2. \/ a.value = a.n /\ Moves(f, "ok")
        \/ Panics(f, "outcome")
        \/ a.attempts # 0 /\ schedule_finished_poll(f, a.attempts - 1)
    BY <1>12 DEF on_last_finished_polled, a
  <2>3. ASSUME a.value = a.n, Moves(f, "ok") PROVE Outcome
    BY <1>11, <2>1, <2>3 DEF DemoStep
  <2>4. ASSUME a.attempts # 0, schedule_finished_poll(f, a.attempts - 1) PROVE Outcome
    BY <1>8, <2>1, <2>4 DEF DemoStep
  <2> QED
    BY <1>6, <2>1, <2>2, <2>3, <2>4
<1>13. ASSUME NEW outcome \in {"ok", "err"}, DepositReturns(f, outcome) \/ TransferReturns(f, outcome)
       PROVE  Outcome
  <2>1. /\ a.adapter = "compat"
        /\ \/ a.stage = "deposit" /\ Sees(f, "deposited", outcome)
           \/ a.stage = "transfer" /\ Sees(f, "transferred", outcome)
    BY <1>13 DEF DepositReturns, TransferReturns, At, a
  <2> QED
    BY <1>11, <2>1 DEF CompatStep
<1>14. CASE on_wrap_near_deposit_started(f)
  <2> DEFINE budget == Minus(a.budget, WRAP_TRANSFER_STEP_OVERHEAD)
  <2>1. /\ a.adapter = "compat" /\ a.stage = "deposited"
        /\ \/ Panics(f, "outcome")
           \/ Panics(f, "budget") /\ budget < MIN_CALLBACK_BUDGET
           \/ adaptations' = [adaptations EXCEPT ![f] = [a EXCEPT !.stage = "transfer", !.budget = budget]]
    BY <1>14 DEF on_wrap_near_deposit_started, At, a
  <2>2. CASE Panics(f, "budget") /\ budget < MIN_CALLBACK_BUDGET
    <3>1. b = [a EXCEPT !.stage = "err", !.why = "budget"]
          /\ Others
      BY <1>4, <1>5, <2>2
    <3>2. /\ b.stage = "err" /\ b.why = "budget"
          /\ b.adapter = a.adapter /\ b.n = a.n /\ b.extra = a.extra
      BY <3>1 DEF Adaptation
    <3>3. CompatStep(a, b)
      BY <2>1, <2>2, <3>2 DEF CompatStep
    <3> QED
      BY <3>1, <3>2, <3>3
  <2>3. CASE adaptations' = [adaptations EXCEPT ![f] = [a EXCEPT !.stage = "transfer", !.budget = budget]]
    <3>1. b = [a EXCEPT !.stage = "transfer", !.budget = budget]
          /\ Others
      BY <1>5, <2>3
    <3>2. /\ b.stage = "transfer" /\ b.why = a.why
          /\ b.adapter = a.adapter /\ b.n = a.n /\ b.extra = a.extra
      BY <3>1 DEF Adaptation
    <3>3. CompatStep(a, b)
      BY <2>1, <3>2 DEF CompatStep
    <3> QED
      BY <3>1, <3>2, <3>3
  <2> QED
    BY <1>6, <2>1, <2>2, <2>3
<1>15. CASE on_wrap_ft_transfer_finished(f)
  <2>1. /\ a.adapter = "compat" /\ a.stage = "transferred"
        /\ Moves(f, "ok") \/ Panics(f, "outcome")
    BY <1>15 DEF on_wrap_ft_transfer_finished, At, a
  <2>2. ASSUME Moves(f, "ok") PROVE Outcome
    BY <1>11, <2>1, <2>2 DEF CompatStep
  <2> QED
    BY <1>6, <2>1, <2>2
<1> QED
  BY <1>7, <1>9, <1>10, <1>12, <1>13, <1>14, <1>15 DEF AdapterRuns

LEMMA FlowsTypeInit == Init => FlowsTypeOK
BY TargetInputs DEF Init, TargetsInit, FlowsTypeOK, TargetsTypeOK, StartedByCall

\* The steps of Next, each with what it keeps.
LEMMA FlowsTypeStep == FlowsTypeOK /\ [Next]_allVars => FlowsTypeOK'
<1> SUFFICES ASSUME FlowsTypeOK, [Next]_allVars PROVE FlowsTypeOK'
  OBVIOUS
<1> DEFINE Adapting(f) == /\ adaptations[f] # None /\ adaptations[f].adapter = "demo"
                          /\ adaptations[f].stage # "refused"
           OfStart(f) == calls[f] # None /\ calls[f].method = "route_echo_fire_and_forget"
<1>1. adaptations \in MaybeAdapted /\ \A f \in Flows : Adapting(f) => OfStart(f)
  BY DEF FlowsTypeOK, StartedByCall, MaybeAdapted
<1>2. \A f \in Flows : Kept /\ OfStart(f) => OfStart(f)'
  BY DEF Kept
<1>3. ASSUME NEW f \in Flows, Dispatch(f) PROVE FlowsTypeOK'
  <2>1. /\ Kept /\ Reported /\ TargetsTypeOK' /\ adaptations' \in MaybeAdapted
        /\ UNCHANGED detached
    BY <1>3, DispatchReports
  <2>2. \A g \in Flows : g # f => adaptations'[g] = adaptations[g]
    BY <1>1, <1>3, DispatchOutcome DEF MaybeAdapted
  <2>3. \A g \in Flows : detached'[g] # None => calls'[g] # None
    BY <2>1 DEF FlowsTypeOK, StartedByCall, Kept
  <2>4. \A g \in Flows : g # f /\ Adapting(g)' => OfStart(g)'
    BY <1>1, <1>2, <2>1, <2>2
  <2>5. Adapting(f)' => OfStart(f)'
    <3>1. calls[f] = None /\ adaptations[f] = None /\ calls \in [Flows -> Call \union {None}]
      BY <1>3, DispatchOutcome DEF FlowsTypeOK, TargetsTypeOK
    <3>2. CASE UNCHANGED adaptations
      BY <3>1, <3>2
    <3>3. CASE \E n, extra \in Nat :
                 /\ adaptations' = [adaptations EXCEPT ![f] = Accepted("demo", n, 0, extra, "start")]
                 /\ calls' = [calls EXCEPT ![f] = Called("route_echo_fire_and_forget", n)]
      <4>1. PICK n \in Nat : calls' = [calls EXCEPT ![f] = Called("route_echo_fire_and_forget", n)]
        BY <3>3
      <4>2. Called("route_echo_fire_and_forget", n) \in Call
        BY CallTypes DEF Methods
      <4>3. calls'[f] = Called("route_echo_fire_and_forget", n)
        BY <3>1, <4>1
      <4> QED
        BY <4>2, <4>3, TargetInputs DEF Called
    <3>4. CASE \E n, extra \in Nat :
                 adaptations' = [adaptations EXCEPT ![f] = Accepted("demo", n, 0, extra, "refused")]
      BY <1>1, <3>4 DEF MaybeAdapted, Accepted
    <3>5. CASE \E attached, extra \in Nat, stage \in {"deposit", "refused"} :
                 adaptations' = [adaptations EXCEPT ![f] = Accepted("compat", 0, attached, extra, stage)]
      BY <1>1, <3>5 DEF MaybeAdapted, Accepted
    <3> QED
      BY <1>3, <3>2, <3>3, <3>4, <3>5, DispatchOutcome
  <2> QED
    BY <2>1, <2>3, <2>4, <2>5 DEF FlowsTypeOK, StartedByCall, MaybeAdapted
<1>4. ASSUME NEW f \in Flows, Runs(f) PROVE FlowsTypeOK'
  <2>1. Kept /\ TargetsTypeOK' /\ UNCHANGED adaptations
    BY <1>4, RunsReport DEF Runs, adapterVars
  <2>2. \A g \in Flows : detached'[g] # None => calls'[g] # None
    BY <1>4, RunsReport DEF Runs, Reported
  <2> QED
    BY <1>1, <1>2, <2>1, <2>2 DEF FlowsTypeOK, StartedByCall, MaybeAdapted
<1>5. ASSUME NEW f \in Flows, AdapterRuns(f) PROVE FlowsTypeOK'
  <2>1. Kept /\ TargetsTypeOK' /\ UNCHANGED detached
    BY <1>5, AdapterRunsReport
  <2>2. adaptations' \in MaybeAdapted
    BY <1>5, AdapterRunsType DEF AdaptedAt
  <2>3. \A g \in Flows : g # f => adaptations'[g] = adaptations[g]
    BY <1>5, AdapterRunsOutcome
  <2>4. Adapting(f)' => Adapting(f)
    <3>1. /\ adaptations[f] \in Adaptation /\ adaptations'[f].adapter = adaptations[f].adapter
          /\ \/ DemoStep(f, adaptations[f], adaptations'[f])
             \/ CompatStep(adaptations[f], adaptations'[f])
             \/ GivesUp(adaptations[f], adaptations'[f])
      BY <1>5, AdapterRunsOutcome
    <3> QED
      BY <3>1, AdapterNone DEF DemoStep, CompatStep, GivesUp
  <2> QED
    BY <1>1, <1>2, <2>1, <2>2, <2>3, <2>4 DEF FlowsTypeOK, StartedByCall, MaybeAdapted, Kept
<1>6. CASE UNCHANGED allVars
  BY <1>6 DEF allVars, targetVars, adapterVars, FlowsTypeOK, TargetsTypeOK, StartedByCall
<1> QED
  BY <1>3, <1>4, <1>5, <1>6 DEF Next

----------------------------------------------------------------------------
(* Budgets.                                                                *)

\* An adaptation that got the overhead of a step has enough left for the polls it
\* may still make, or for the transfer, and has not given up for its budget.
Funded(a) ==
  /\ a.why # "budget"
  /\ a.adapter = "demo" /\ a.stage \in {"start", "started"} =>
       a.attempts = MAX_POLL_ATTEMPTS /\ a.budget >= 290
  /\ a.adapter = "demo" /\ a.stage \in {"poll", "polled"} =>
       a.budget >= 165 + POLL_STEP_OVERHEAD * a.attempts
  /\ a.adapter = "compat" /\ a.stage \in {"deposit", "deposited"} => a.budget >= 290
BudgetInv ==
  \A f \in Flows :
    adaptations[f] # None /\ adaptations[f].extra >= ADAPTER_SEQUENCE_OVERHEAD
      => Funded(adaptations[f])

LEMMA AcceptedFunded ==
  ASSUME NEW adapter, NEW n, NEW attached, NEW extra \in Nat, NEW stage,
         extra >= ADAPTER_SEQUENCE_OVERHEAD, stage \in {"start", "deposit", "refused"}
  PROVE  Funded(Accepted(adapter, n, attached, extra, stage))
<1>1. StartBudget(extra) >= 290
  BY DEF StartBudget, Minus, ADAPTER_START_OVERHEAD, ADAPTER_SEQUENCE_OVERHEAD
<1> QED
  BY <1>1, AdapterNone DEF Accepted, Funded

LEMMA BudgetStep == FlowsTypeOK /\ BudgetInv /\ [Next]_allVars => BudgetInv'
<1> SUFFICES ASSUME FlowsTypeOK, BudgetInv, [Next]_allVars PROVE BudgetInv'
  OBVIOUS
<1>1. adaptations \in MaybeAdapted
  BY DEF FlowsTypeOK, MaybeAdapted
<1>2. CASE UNCHANGED adaptations
  BY <1>2 DEF BudgetInv
<1>3. ASSUME NEW f \in Flows, Dispatch(f) PROVE BudgetInv'
  <2>1. ASSUME NEW adapter, NEW n, NEW attached, NEW extra \in Nat,
               NEW stage \in {"start", "deposit", "refused"},
               adaptations' = [adaptations EXCEPT ![f] = Accepted(adapter, n, attached, extra, stage)]
        PROVE  BudgetInv'
    <3>1. adaptations'[f] = Accepted(adapter, n, attached, extra, stage)
          /\ \A g \in Flows : g # f => adaptations'[g] = adaptations[g]
      BY <1>1, <2>1 DEF MaybeAdapted
    <3>2. adaptations'[f].extra = extra
      BY <3>1 DEF Accepted
    <3> QED
      BY <3>1, <3>2, AcceptedFunded DEF BudgetInv
  <2> QED
    BY <1>2, <1>3, <2>1, DispatchOutcome
<1>4. ASSUME NEW f \in Flows, AdapterRuns(f) PROVE BudgetInv'
  <2> DEFINE a == adaptations[f]
             b == adaptations'[f]
  <2>1. /\ a \in Adaptation /\ b \in Adaptation
        /\ \A g \in Flows : g # f => adaptations'[g] = adaptations[g]
        /\ b.adapter = a.adapter /\ b.extra = a.extra
        /\ DemoStep(f, a, b) \/ CompatStep(a, b) \/ GivesUp(a, b)
    BY <1>4, AdapterRunsOutcome
  <2>2. a # None
    BY <2>1, AdapterNone
  <2>3. ASSUME a.extra >= ADAPTER_SEQUENCE_OVERHEAD PROVE Funded(b)
    <3>1. Funded(a)
      BY <2>2, <2>3 DEF BudgetInv
    <3>2. a.budget \in Nat /\ a.attempts \in 0..4 /\ a.extra \in Nat
      BY <2>1 DEF Adaptation, MAX_POLL_ATTEMPTS
    <3> HIDE DEF a, b
    <3>3. ASSUME NEW left \in 0..4, Scheduled(a, b, left), a.budget >= 190 + 25 * left
          PROVE  Funded(b)
      <4>1. Minus(a.budget, POLL_STEP_OVERHEAD) = a.budget - 25
        BY <3>2, <3>3 DEF Minus, POLL_STEP_OVERHEAD
      <4>2. a.budget - 25 >= MIN_CALLBACK_BUDGET
        BY <3>2, <3>3 DEF MIN_CALLBACK_BUDGET
      <4>3. b.stage = "poll" /\ b.budget = a.budget - 25 /\ b.attempts = left /\ b.why = a.why
        BY <3>3, <4>1, <4>2 DEF Scheduled
      <4> QED
        BY <3>1, <3>2, <3>3, <4>3 DEF Funded, POLL_STEP_OVERHEAD
    <3>4. CASE DemoStep(f, a, b)
      <4>1. CASE a.stage = "start" /\ b.stage = "started" /\ b.budget = a.budget
                 /\ b.attempts = a.attempts /\ b.why = a.why
        BY <2>1, <3>1, <3>4, <4>1 DEF Funded, DemoStep
      <4>2. CASE a.stage = "started" /\ Scheduled(a, b, a.attempts)
        BY <3>1, <3>2, <3>3, <3>4, <4>2 DEF Funded, DemoStep, MAX_POLL_ATTEMPTS
      <4>3. CASE a.stage = "poll" /\ b.stage = "polled" /\ b.budget = a.budget
                 /\ b.attempts = a.attempts /\ b.why = a.why
        BY <2>1, <3>1, <3>4, <4>3 DEF Funded, DemoStep
      <4>4. CASE b.stage = "ok" /\ b.why = a.why
        BY <3>1, <4>4 DEF Funded
      <4>5. CASE a.stage = "polled" /\ a.attempts # 0 /\ Scheduled(a, b, a.attempts - 1)
        <5>1. a.attempts - 1 \in 0..4 /\ a.budget >= 190 + 25 * (a.attempts - 1)
          BY <3>1, <3>2, <3>4, <4>5 DEF Funded, DemoStep, POLL_STEP_OVERHEAD
        <5> QED
          BY <3>3, <4>5, <5>1
      <4> QED
        BY <3>4, <4>1, <4>2, <4>3, <4>4, <4>5 DEF DemoStep
    <3>5. CASE CompatStep(a, b)
      <4>1. a.stage = "deposited" => ~(Minus(a.budget, WRAP_TRANSFER_STEP_OVERHEAD) < MIN_CALLBACK_BUDGET)
        BY <3>1, <3>2, <3>5
        DEF Funded, CompatStep, Minus, WRAP_TRANSFER_STEP_OVERHEAD, MIN_CALLBACK_BUDGET
      <4> QED
        BY <2>1, <3>1, <3>5, <4>1 DEF Funded, CompatStep
    <3>6. CASE GivesUp(a, b)
      BY <3>6 DEF GivesUp, Funded
    <3> QED
      BY <2>1, <3>4, <3>5, <3>6
  <2> QED
    BY <2>1, <2>3 DEF BudgetInv
<1>5. ASSUME NEW f \in Flows, Runs(f) PROVE BudgetInv'
  BY <1>2, <1>5 DEF Runs, adapterVars
<1>6. CASE UNCHANGED allVars
  BY <1>2, <1>6 DEF allVars, adapterVars
<1> QED
  BY <1>3, <1>4, <1>5, <1>6 DEF Next

\* The overhead that dispatch_promise_for_call adds for an adapter pays for every
\* poll and for the transfer, whatever the numbers, the deposits and the gas.
THEOREM StepBudgetSafe == Spec => []StepBudgetSuffices
<1>1. Init => FlowsTypeOK /\ BudgetInv
  BY FlowsTypeInit DEF Init, BudgetInv
<1>2. FlowsTypeOK /\ BudgetInv /\ [Next]_allVars => (FlowsTypeOK /\ BudgetInv)'
  BY FlowsTypeStep, BudgetStep
<1>3. BudgetInv => StepBudgetSuffices
  BY DEF BudgetInv, Funded, StepBudgetSuffices
<1> QED
  BY <1>1, <1>2, <1>3, PTL DEF Spec

----------------------------------------------------------------------------
(* Fresh work.                                                             *)

StartCall(f) == calls[f].method = "route_echo_fire_and_forget"

\* An echo of v has reported success since the start of f.
Fresh(f, v) ==
  \E g \in Flows : calls[g] # None /\ <<g, f>> \in finished_after /\ calls[g].arg = v

Adapted(f) == adaptations[f] # None /\ adaptations[f].adapter = "demo"

\* What the router holds has been reported since the last start: a start forgets
\* it, and a report is later than every start before it.  So what a poll answers is
\* fresh for the adaptation it answers.
StartsSend ==
  \A f \in Flows : calls[f] # None /\ StartCall(f) /\ calls[f].state = "ok"
    => detached[f] # None
HeldIsFresh ==
  last_finished # None =>
    \E g \in Flows :
      /\ calls[g] # None /\ calls[g].arg = last_finished
      /\ \A f \in Flows : detached[f] # None /\ StartCall(f) => <<g, f>> \in finished_after
AdaptedFresh(f) ==
  LET a == adaptations[f] IN
  /\ a.stage = "started" /\ a.seen = "ok" => detached[f] # None
  /\ a.stage \in {"poll", "polled", "ok"} => detached[f] # None
  /\ a.stage = "polled" /\ a.value # None => Fresh(f, a.value)
  /\ a.stage = "ok" => Fresh(f, a.n)
FreshInv == StartsSend /\ HeldIsFresh /\ \A f \in Flows : Adapted(f) => AdaptedFresh(f)

LEMMA FreshStays ==
  ASSUME Kept, Reported, NEW f \in Flows, NEW v, Fresh(f, v)
  PROVE  Fresh(f, v)'
BY DEF Kept, Reported, Fresh

\* A step that leaves what the router holds keeps its witness.
LEMMA HeldStays ==
  ASSUME FlowsTypeOK, FreshInv, Kept, Reported, UNCHANGED last_finished,
         \A f \in Flows : detached'[f] # None /\ StartCall(f)' => detached[f] # None
  PROVE  HeldIsFresh'
<1> SUFFICES ASSUME last_finished # None PROVE HeldIsFresh'
  BY DEF HeldIsFresh
<1>1. PICK g \in Flows :
        /\ calls[g] # None /\ calls[g].arg = last_finished
        /\ \A f \in Flows : detached[f] # None /\ StartCall(f) => <<g, f>> \in finished_after
  BY DEF FreshInv, HeldIsFresh
<1>2. \A f \in Flows : detached[f] # None /\ StartCall(f)' => StartCall(f)
  BY DEF FlowsTypeOK, StartedByCall, Kept, StartCall
<1> QED
  BY <1>1, <1>2 DEF Kept, Reported, HeldIsFresh

\* The steps of the targets leave the adaptations alone.
LEMMA AdaptedStays ==
  ASSUME FreshInv, Kept, Reported, NEW f \in Flows, Adapted(f),
         adaptations'[f] = adaptations[f]
  PROVE  AdaptedFresh(f)'
<1>1. AdaptedFresh(f)
  BY DEF FreshInv
<1>2. detached[f] # None => detached'[f] # None
  BY DEF Reported
<1> QED
  BY <1>1, <1>2 DEF AdaptedFresh, Fresh, Kept, Reported

LEMMA FreshTargets ==
  ASSUME FlowsTypeOK, FreshInv, NEW f \in Flows, TargetRuns(f), UNCHANGED adaptations
  PROVE  FreshInv'
<1>1. Kept /\ Reported
  BY RunsReport
<1>2. calls \in [Flows -> Call \union {None}] /\ detached \in [Flows -> DetachedStates]
  BY DEF FlowsTypeOK, TargetsTypeOK, DetachedStates
<1>3. CASE route_echo_fire_and_forget(f)
  <2>1. /\ calls[f] \in Call /\ last_finished' = None
        /\ detached' = [detached EXCEPT ![f] = "sent"]
        /\ calls' = [calls EXCEPT ![f] = [calls[f] EXCEPT !.state = "ok"]]
    BY <1>2, <1>3 DEF route_echo_fire_and_forget, RunsNow, Answer
  <2>2. \A g \in Flows : calls'[g] # None /\ StartCall(g)' /\ calls'[g].state = "ok"
          => detached'[g] # None
    BY <1>2, <2>1, TargetInputs DEF FreshInv, StartsSend, StartCall
  <2> QED
    BY <1>1, <2>1, <2>2, AdaptedStays DEF FreshInv, StartsSend, HeldIsFresh, Adapted
<1>4. CASE ~route_echo_fire_and_forget(f)
  <2>1. UNCHANGED last_finished
    BY <1>4
    DEF TargetRuns, route_echo, do_honest_work, burn_gas, noop_claim_success,
        return_decoy_promise, return_oversized_payload, require_one_yocto, echo,
        EchoIsTheAnswer, on_echo_and
  <2>2. /\ calls[f] \in Call /\ ~StartCall(f)
        /\ \A g \in Flows : g # f => calls'[g] = calls[g] /\ detached'[g] = detached[g]
    BY <1>2, <1>4
    DEF TargetRuns, route_echo, do_honest_work, burn_gas, noop_claim_success,
        return_decoy_promise, return_oversized_payload, require_one_yocto, echo,
        EchoIsTheAnswer, on_echo_and, RunsNow, EchoesIn, Answer, Waits, StartCall, Awaited,
        RouterMethods
  <2>3. ~StartCall(f)'
    BY <1>1, <1>2, <2>2, TargetInputs DEF Kept, StartCall
  <2>4. \A g \in Flows : calls'[g] # None /\ StartCall(g)' /\ calls'[g].state = "ok"
          => detached'[g] # None
    BY <1>1, <2>2, <2>3 DEF FreshInv, StartsSend, StartCall
  <2>5. \A g \in Flows : detached'[g] # None /\ StartCall(g)' => detached[g] # None
    BY <2>2, <2>3
  <2> QED
    BY <1>1, <2>1, <2>4, <2>5, HeldStays, AdaptedStays DEF FreshInv, StartsSend, Adapted
<1> QED
  BY <1>3, <1>4

LEMMA FreshDetached ==
  ASSUME FlowsTypeOK, FreshInv, NEW f \in Flows, DetachedRuns(f), UNCHANGED adaptations
  PROVE  FreshInv'
<1>1. Kept /\ Reported
  BY RunsReport
<1>2. UNCHANGED calls
  BY DEF DetachedRuns, DetachedEcho, on_echo_finished
<1>3. StartsSend'
  BY <1>1, <1>2 DEF FreshInv, StartsSend, StartCall, Reported
<1>4. \A g \in Flows : detached'[g] # None => detached[g] # None
  <2>1. detached \in [Flows -> DetachedStates] /\ None \notin {"sent", "ok", "err"}
    BY TargetInputs DEF FlowsTypeOK, TargetsTypeOK, DetachedStates
  <2> QED
    BY <2>1 DEF DetachedRuns, DetachedEcho, on_echo_finished
<1>5. HeldIsFresh'
  <2>1. CASE UNCHANGED last_finished
    BY <1>1, <1>4, <2>1, HeldStays
  <2>2. CASE on_echo_finished(f) /\ detached[f] = "ok"
    <3>1. /\ last_finished' = calls[f].arg /\ {f} \X Started \subseteq finished_after'
      BY <2>2 DEF on_echo_finished
    <3>2. calls[f] # None
      BY <2>2, TargetInputs DEF FlowsTypeOK, StartedByCall
    <3> QED
      BY <1>2, <1>4, <3>1, <3>2 DEF HeldIsFresh, Started
  <2>3. CASE last_finished' = None
    BY <2>3 DEF HeldIsFresh
  <2> QED
    BY <2>1, <2>2, <2>3 DEF DetachedRuns, DetachedEcho, on_echo_finished
<1> QED
  BY <1>1, <1>3, <1>5, AdaptedStays DEF FreshInv, Adapted

LEMMA FreshAdapters ==
  ASSUME FlowsTypeOK, FreshInv, NEW f \in Flows, AdapterRuns(f)
  PROVE  FreshInv'
<1> DEFINE a == adaptations[f]
           b == adaptations'[f]
<1>1. /\ Kept /\ Reported
      /\ UNCHANGED <<detached, last_finished, finished_after>>
  BY AdapterRunsReport
<1>2. /\ a \in Adaptation /\ b \in Adaptation
      /\ \A g \in Flows : g # f => adaptations'[g] = adaptations[g]
      /\ b.adapter = a.adapter /\ b.n = a.n
      /\ DemoStep(f, a, b) \/ CompatStep(a, b) \/ GivesUp(a, b)
  BY AdapterRunsOutcome
<1>3. StartsSend'
  <2>1. UNCHANGED calls \/ calls' = [calls EXCEPT ![f].state = "err"]
    BY DEF AdapterRuns, StartReturns, on_route_echo_started, PollReturns,
           on_last_finished_polled, DepositReturns, TransferReturns,
           on_wrap_near_deposit_started, on_wrap_ft_transfer_finished, targetVars
  <2>2. \A g \in Flows : calls'[g] # None /\ calls'[g].state = "ok"
          => calls[g] # None /\ calls[g].state = "ok"
    <3>1. CASE UNCHANGED calls
      BY <3>1
    <3>2. CASE calls' = [calls EXCEPT ![f].state = "err"] /\ ~UNCHANGED calls
      <4>1. calls \in [Flows -> Call \union {None}] /\ calls[f] # None
        BY <3>2 DEF FlowsTypeOK, TargetsTypeOK, StartedByCall, AdapterRuns, StartReturns,
                on_route_echo_started, PollReturns, on_last_finished_polled, DepositReturns,
                TransferReturns, on_wrap_near_deposit_started,
                on_wrap_ft_transfer_finished, targetVars, At
      <4> QED
        BY <3>2, <4>1 DEF Call
    <3> QED
      BY <2>1, <3>1, <3>2
  <2>3. \A g \in Flows : calls[g] # None => calls'[g].method = calls[g].method
    BY <1>1 DEF Kept
  <2> QED
    BY <1>1, <2>2, <2>3 DEF FreshInv, StartsSend, StartCall
<1>4. HeldIsFresh'
  BY <1>1, HeldStays
<1>5. \A g \in Flows : g # f /\ Adapted(g)' => AdaptedFresh(g)'
  BY <1>1, <1>2, AdaptedStays DEF Adapted
<1>6. ASSUME b.adapter = "demo" PROVE AdaptedFresh(f)'
  <2> HIDE DEF a, b
  <2>1. a # None /\ a.adapter = "demo" /\ a.n # None
    BY <1>2, <1>6, AdapterNone, TargetInputs DEF Adaptation
  <2>2. a.stage # "refused" => calls[f] # None /\ StartCall(f)
    BY <2>1 DEF FlowsTypeOK, StartedByCall, StartCall, a
  <2>3. AdaptedFresh(f)
    BY <2>1 DEF FreshInv, Adapted, a
  <2>4. /\ a.stage = "started" /\ a.seen = "ok" => detached[f] # None
        /\ a.stage \in {"poll", "polled", "ok"} => detached[f] # None
        /\ a.stage = "polled" /\ a.value # None => Fresh(f, a.value)
    BY <2>3 DEF AdaptedFresh, a
  <2>5. last_finished # None /\ detached[f] # None /\ StartCall(f) => Fresh(f, last_finished)
    BY DEF FreshInv, HeldIsFresh, Fresh
  <2>6. \A v : Fresh(f, v) => Fresh(f, v)'
    BY <1>1 DEF Fresh, Kept, Reported
  <2>7. /\ b.stage = "started" /\ b.seen = "ok" => detached[f] # None
        /\ b.stage \in {"poll", "polled", "ok"} => detached[f] # None
        /\ b.stage = "polled" /\ b.value # None => Fresh(f, b.value)
        /\ b.stage = "ok" => Fresh(f, b.n)
    <3>1. CASE GivesUp(a, b)
      BY <3>1 DEF GivesUp
    <3>2. CASE DemoStep(f, a, b)
      <4>1. CASE a.stage = "start" /\ b.stage = "started" /\ (b.seen = "ok" => calls[f].state = "ok")
        BY <2>2, <4>1 DEF FreshInv, StartsSend
      <4>2. CASE a.stage = "started" /\ a.seen = "ok" /\ Scheduled(a, b, a.attempts)
        BY <2>4, <4>2 DEF Scheduled
      <4>3. CASE a.stage = "poll" /\ b.stage = "polled" /\ (b.value = None \/ b.value = last_finished)
        BY <2>2, <2>4, <2>5, <4>3
      <4>4. CASE a.stage = "polled" /\ a.value = a.n /\ b.stage = "ok"
        BY <1>2, <2>1, <2>4, <4>4
      <4>5. CASE a.stage = "polled" /\ Scheduled(a, b, a.attempts - 1)
        BY <2>4, <4>5 DEF Scheduled
      <4> QED
        BY <3>2, <4>1, <4>2, <4>3, <4>4, <4>5 DEF DemoStep
    <3>3. ~CompatStep(a, b)
      BY <2>1 DEF CompatStep
    <3> QED
      BY <1>2, <3>1, <3>2, <3>3
  <2> QED
    BY <1>1, <2>6, <2>7 DEF AdaptedFresh, Fresh, b
<1> QED
  BY <1>3, <1>4, <1>5, <1>6 DEF FreshInv, Adapted

LEMMA FreshDispatch ==
  ASSUME FlowsTypeOK, FreshInv, NEW f \in Flows, Dispatch(f)
  PROVE  FreshInv'
<1>1. /\ Kept /\ Reported
      /\ UNCHANGED <<detached, last_finished, finished_after>>
  BY DispatchReports
<1>2. calls[f] = None /\ adaptations[f] = None
  BY DispatchOutcome
<1>3. calls \in [Flows -> Call \union {None}] /\ adaptations \in [Flows -> Adaptation \union {None}]
  BY DEF FlowsTypeOK, TargetsTypeOK
<1>4. StartsSend'
  <2>1. \A g \in Flows : calls'[g] = calls[g] \/ calls'[g].state = "called"
    BY <1>3, DispatchOutcome DEF Called
  <2> QED
    BY <1>1, <2>1 DEF FreshInv, StartsSend, StartCall
<1>5. HeldIsFresh'
  BY <1>1, HeldStays
<1>6. ASSUME NEW g \in Flows, Adapted(g)' PROVE AdaptedFresh(g)'
  <2>1. CASE adaptations'[g] = adaptations[g]
    BY <1>1, <1>6, <2>1, AdaptedStays DEF Adapted
  <2>2. CASE adaptations'[g] # adaptations[g]
    <3>1. adaptations'[g].stage \in {"start", "deposit", "refused"}
      BY <1>3, <2>2, DispatchOutcome DEF Accepted
    <3> QED
      BY <3>1 DEF AdaptedFresh
  <2> QED
    BY <2>1, <2>2
<1> QED
  BY <1>4, <1>5, <1>6 DEF FreshInv

LEMMA FreshStep == FlowsTypeOK /\ FreshInv /\ [Next]_allVars => FreshInv'
<1> SUFFICES ASSUME FlowsTypeOK, FreshInv, [Next]_allVars PROVE FreshInv'
  OBVIOUS
<1>1. CASE \E f \in Flows : Dispatch(f)
  BY <1>1, FreshDispatch
<1>2. CASE \E f \in Flows : Runs(f)
  BY <1>2, FreshTargets, FreshDetached DEF Runs, adapterVars
<1>3. CASE \E f \in Flows : AdapterRuns(f)
  BY <1>3, FreshAdapters
<1>4. CASE UNCHANGED allVars
  BY <1>4 DEF allVars, targetVars, adapterVars, FreshInv, StartsSend, HeldIsFresh,
         AdaptedFresh, Adapted, Fresh, StartCall
<1> QED
  BY <1>1, <1>2, <1>3, <1>4 DEF Next

\* A demo adaptation that succeeds has seen an echo of its number that reported
\* after its own start, however many adaptations share the router.
THEOREM FreshEchoSafe == Spec => []PollSeesFreshEcho
<1>1. Init => FlowsTypeOK /\ FreshInv
  <2>1. Init => FreshInv
    BY DEF Init, TargetsInit, FreshInv, StartsSend, HeldIsFresh, Adapted
  <2> QED
    BY <2>1, FlowsTypeInit
<1>2. FlowsTypeOK /\ FreshInv /\ [Next]_allVars => (FlowsTypeOK /\ FreshInv)'
  BY FlowsTypeStep, FreshStep
<1>3. FreshInv => PollSeesFreshEcho
  BY DEF FreshInv, AdaptedFresh, Adapted, Fresh, PollSeesFreshEcho, At
<1> QED
  BY <1>1, <1>2, <1>3, PTL DEF Spec

----------------------------------------------------------------------------
(* Work done.                                                              *)

Counts(f) == \/ calls[f].method = "do_honest_work"
             \/ calls[f].method = "require_one_yocto" /\ calls[f].arg = 1
Done == {f \in Flows : calls[f] # None /\ calls[f].state = "ok" /\ Counts(f)}

\* The count is the number of the calls that did the work at every moment: the call
\* succeeds in the step that counts it.
WorkInv == IsFiniteSet(Done) /\ calls_completed = Cardinality(Done)

LEMMA OneMore ==
  ASSUME WorkInv, NEW f \in Flows, f \notin Done, Done' = Done \union {f},
         calls_completed' = calls_completed + 1
  PROVE  WorkInv'
BY FS_AddElement DEF WorkInv

LEMMA NoMore ==
  ASSUME WorkInv, Done' = Done, UNCHANGED calls_completed
  PROVE  WorkInv'
BY DEF WorkInv

LEMMA WorkTargets ==
  ASSUME FlowsTypeOK, WorkInv, NEW f \in Flows, TargetRuns(f)
  PROVE  WorkInv'
<1>1. calls \in [Flows -> Call \union {None}] /\ calls[f] # None /\ calls[f] \in Call
  BY DEF FlowsTypeOK, TargetsTypeOK, TargetRuns, route_echo, route_echo_fire_and_forget,
         do_honest_work, burn_gas, noop_claim_success, return_decoy_promise,
         return_oversized_payload, require_one_yocto, echo, EchoIsTheAnswer, on_echo_and,
         RunsNow, EchoesIn
<1>2. Kept /\ \A g \in Flows : g # f => calls'[g] = calls[g]
  <2>1. \A g \in Flows : g # f => calls'[g] = calls[g]
    BY <1>1
    DEF TargetRuns, route_echo, route_echo_fire_and_forget, do_honest_work, burn_gas,
        noop_claim_success, return_decoy_promise, return_oversized_payload,
        require_one_yocto, echo, EchoIsTheAnswer, on_echo_and, Answer, Waits
  <2> QED
    BY <2>1, RunsReport
<1>3. CASE do_honest_work(f) \/ (require_one_yocto(f) /\ calls[f].arg = 1)
  <2>1. /\ calls[f].state = "called" /\ Counts(f)
        /\ calls' = [calls EXCEPT ![f] = [calls[f] EXCEPT !.state = "ok"]]
        /\ calls_completed' = calls_completed + 1
    BY <1>3 DEF do_honest_work, require_one_yocto, RunsNow, Answer, Counts
  <2>2. calls'[f].state = "ok" /\ calls'[f] # None /\ Counts(f)'
    BY <1>1, <1>2, <2>1 DEF Call, Kept, Counts
  <2>3. f \notin Done /\ Done' = Done \union {f}
    BY <1>2, <2>1, <2>2 DEF Done, Counts
  <2> QED
    BY <2>1, <2>3, OneMore
<1>4. CASE ~do_honest_work(f) /\ ~(require_one_yocto(f) /\ calls[f].arg = 1)
  <2>1. UNCHANGED calls_completed
    BY <1>4
    DEF TargetRuns, route_echo, route_echo_fire_and_forget, burn_gas,
        noop_claim_success, return_decoy_promise, return_oversized_payload,
        require_one_yocto, echo, EchoIsTheAnswer, on_echo_and, Answer, Waits
  <2>2. f \notin Done /\ ~(calls'[f].state = "ok" /\ Counts(f))
    <3>1. calls[f].state \in {"called", "waiting"}
      BY DEF TargetRuns, route_echo, route_echo_fire_and_forget, do_honest_work, burn_gas,
             noop_claim_success, return_decoy_promise, return_oversized_payload,
             require_one_yocto, echo, EchoIsTheAnswer, on_echo_and, RunsNow, EchoesIn
    <3>2. CASE require_one_yocto(f)
      <4>1. calls'[f].state = "err"
        BY <1>1, <1>4, <3>2 DEF require_one_yocto, Answer, Call
      <4> QED
        BY <3>1, <4>1 DEF Done
    <3>3. ASSUME NEW outcome \in {"ok", "err"}, echo(f, outcome)
          PROVE  calls'[f].state # "ok"
      BY <1>1, <3>3 DEF echo, Call
    <3>4. CASE ~require_one_yocto(f) /\ ~\E outcome \in {"ok", "err"} : echo(f, outcome)
      <4>1. ~Counts(f)
        BY <1>4, <3>4
        DEF TargetRuns, route_echo, route_echo_fire_and_forget, burn_gas,
            noop_claim_success, return_decoy_promise, return_oversized_payload,
            EchoIsTheAnswer, on_echo_and, RunsNow, Counts, RouterMethods
      <4> QED
        BY <3>1, <4>1 DEF Done
    <3> QED
      BY <3>1, <3>2, <3>3, <3>4 DEF Done
  <2>3. ~(calls'[f].state = "ok" /\ Counts(f)')
    BY <1>1, <1>2, <2>2 DEF Kept, Counts
  <2>4. Done' = Done
    BY <1>2, <2>2, <2>3 DEF Done, Counts
  <2> QED
    BY <2>1, <2>4, NoMore
<1> QED
  BY <1>3, <1>4

LEMMA WorkStep == FlowsTypeOK /\ WorkInv /\ [Next]_allVars => WorkInv'
<1> SUFFICES ASSUME FlowsTypeOK, WorkInv, [Next]_allVars PROVE WorkInv'
  OBVIOUS
<1>1. calls \in [Flows -> Call \union {None}]
  BY DEF FlowsTypeOK, TargetsTypeOK
<1>2. CASE UNCHANGED <<calls, calls_completed>>
  BY <1>2, NoMore DEF Done, Counts
<1>3. ASSUME NEW f \in Flows, Dispatch(f) PROVE WorkInv'
  <2>1. calls[f] = None /\ UNCHANGED calls_completed
    BY <1>3, DispatchOutcome
  <2>2. \/ UNCHANGED calls
        \/ \E method \in Methods, arg \in Nat : calls' = [calls EXCEPT ![f] = Called(method, arg)]
    BY <1>3, DispatchOutcome
  <2>3. \A g \in Flows :
          calls'[g] = calls[g] \/ (calls[g] = None /\ calls'[g].state = "called")
    <3>1. \A method, arg : Called(method, arg).state = "called"
      BY DEF Called
    <3> QED
      BY <1>1, <2>1, <2>2, <3>1
  <2>4. Done' = Done
    <3>1. \A g \in Flows : g \in Done' <=> g \in Done
      BY <2>3 DEF Done, Counts
    <3> QED
      BY <3>1 DEF Done
  <2> QED
    BY <2>1, <2>4, NoMore
<1>4. ASSUME NEW f \in Flows, Runs(f) PROVE WorkInv'
  <2>1. CASE TargetRuns(f)
    BY <2>1, WorkTargets
  <2>2. CASE DetachedRuns(f)
    BY <1>2, <2>2 DEF DetachedRuns, DetachedEcho, on_echo_finished
  <2> QED
    BY <1>4, <2>1, <2>2 DEF Runs
<1>5. ASSUME NEW f \in Flows, AdapterRuns(f) PROVE WorkInv'
  <2>1. UNCHANGED calls_completed
    BY <1>5, AdapterRunsReport
  <2>2. CASE StartReturns(f) /\ ~UNCHANGED calls
    <3>1. /\ calls[f] # None /\ StartCall(f)
          /\ calls' = [calls EXCEPT ![f] = [calls[f] EXCEPT !.state = "err"]]
      BY <2>2 DEF StartReturns, At, FlowsTypeOK, StartedByCall, StartCall
    <3>2. calls'[f].state = "err" /\ ~Counts(f) /\ \A g \in Flows : g # f => calls'[g] = calls[g]
      BY <1>1, <3>1 DEF Call, Counts, StartCall
    <3>3. Done' = Done
      BY <3>2 DEF Done, Counts
    <3> QED
      BY <2>1, <3>3, NoMore
  <2>3. StartReturns(f) \/ UNCHANGED calls
    BY <1>5
    DEF AdapterRuns, on_route_echo_started, PollReturns, on_last_finished_polled,
        DepositReturns, TransferReturns, on_wrap_near_deposit_started,
        on_wrap_ft_transfer_finished, targetVars
  <2> QED
    BY <1>2, <2>1, <2>2, <2>3
<1>6. CASE UNCHANGED allVars
  BY <1>2, <1>6 DEF allVars, targetVars
<1> QED
  BY <1>3, <1>4, <1>5, <1>6 DEF Next

\* calls_completed is the number of calls that did the work they report, however the
\* calls interleave.
THEOREM WorkCounted == Spec => []CompletedIsWorkDone
<1>1. Init => FlowsTypeOK /\ WorkInv
  <2>1. ASSUME Init PROVE WorkInv
    <3>1. Done = {} /\ calls_completed = 0
      BY <2>1 DEF Init, TargetsInit, Done
    <3> QED
      BY <3>1, FS_EmptySet DEF WorkInv
  <2> QED
    BY <2>1, FlowsTypeInit
<1>2. FlowsTypeOK /\ WorkInv /\ [Next]_allVars => (FlowsTypeOK /\ WorkInv)'
  BY FlowsTypeStep, WorkStep
<1>3. WorkInv => CompletedIsWorkDone
  BY DEF WorkInv, Done, Counts, CompletedIsWorkDone
<1> QED
  BY <1>1, <1>2, <1>3, PTL DEF Spec

----------------------------------------------------------------------------
(* compat-adapter's books.                                                 *)

Amount(a) == wrap_amount(a.attached)

\* ft_transfer was called: its step has been paid for from the budget.
Sent(a) == a.budget # StartBudget(a.extra)

\* near_deposit failed, and the deposit is back.
DepositFailed(a) == a.stage \in {"deposited", "err"} /\ a.seen = "err" /\ ~Sent(a)

\* The caller has its tokens.
Delivered(a) == a.stage = "ok" \/ (a.stage = "transferred" /\ a.seen = "ok")

\* What the adapter holds of one adaptation in either currency, and what its
\* caller has received.
NearOf(a) == IF Delivered(a) \/ a.stage = "transfer" THEN 0
             ELSE IF DepositFailed(a) THEN a.attached ELSE FT_TRANSFER_DEPOSIT
WrappedOf(a) == IF Delivered(a) \/ DepositFailed(a) \/ a.stage = "deposit" THEN 0
                ELSE Amount(a)
ReceivedOf(a) == IF Delivered(a) THEN Amount(a) ELSE 0

Taken == {f \in Flows : /\ adaptations[f] # None /\ adaptations[f].adapter = "compat"
                        /\ adaptations[f].stage # "refused"}
Nears == [f \in Flows |-> NearOf(adaptations[f])]
Wraps == [f \in Flows |-> WrappedOf(adaptations[f])]
Receipts == [f \in Flows |-> ReceivedOf(adaptations[f])]

Sound(a) ==
  /\ a \in Adaptation /\ a.adapter = "compat" /\ a.attached > FT_TRANSFER_DEPOSIT
  /\ a.stage \in {"deposit", "deposited", "transfer", "transferred", "ok", "err"}
  /\ a.stage \in {"deposit", "deposited"} => ~Sent(a)
  /\ a.stage \in {"transfer", "transferred"} => Sent(a)

\* Both currencies are accounted for adaptation by adaptation at every moment, which
\* is why neither ever runs short.
BooksInv ==
  /\ IsFiniteSet(Taken)
  /\ \A f \in Taken : Sound(adaptations[f])
  /\ near = SumFunctionOnSet(Nears, Taken)
  /\ wrapped = [adapter |-> SumFunctionOnSet(Wraps, Taken),
                caller |-> SumFunctionOnSet(Receipts, Taken)]

LEMMA SharesAreNatural ==
  ASSUME NEW a, Sound(a)
  PROVE  /\ NearOf(a) \in Nat /\ WrappedOf(a) \in Nat /\ ReceivedOf(a) \in Nat
         /\ Amount(a) \in Nat /\ a.attached = Amount(a) + FT_TRANSFER_DEPOSIT
<1>1. a.attached \in Nat /\ a.attached > 1
  BY DEF Sound, Adaptation, FT_TRANSFER_DEPOSIT
<1>2. Amount(a) \in Nat /\ a.attached = Amount(a) + FT_TRANSFER_DEPOSIT
  BY <1>1 DEF Amount, wrap_amount, FT_TRANSFER_DEPOSIT
<1> QED
  BY <1>1, <1>2 DEF NearOf, WrappedOf, ReceivedOf, FT_TRANSFER_DEPOSIT

LEMMA BooksAreNatural ==
  ASSUME BooksInv
  PROVE  /\ \A f \in Taken : Nears[f] \in Nat /\ Wraps[f] \in Nat /\ Receipts[f] \in Nat
         /\ near \in Nat /\ wrapped["adapter"] \in Nat /\ wrapped["caller"] \in Nat
<1>1. \A f \in Taken : /\ Nears[f] = NearOf(adaptations[f])
                       /\ Wraps[f] = WrappedOf(adaptations[f])
                       /\ Receipts[f] = ReceivedOf(adaptations[f])
  BY DEF Taken, Nears, Wraps, Receipts
<1>2. \A f \in Taken : Nears[f] \in Nat /\ Wraps[f] \in Nat /\ Receipts[f] \in Nat
  BY <1>1, SharesAreNatural DEF BooksInv
<1>3. IsFiniteSet(Taken)
  BY DEF BooksInv
<1>4. /\ SumFunctionOnSet(Nears, Taken) \in Nat
      /\ SumFunctionOnSet(Wraps, Taken) \in Nat
      /\ SumFunctionOnSet(Receipts, Taken) \in Nat
  BY <1>2, <1>3, SumNat
<1> QED
  BY <1>2, <1>4 DEF BooksInv

\* One adaptation moves on, and the books move by its shares.
LEMMA BooksMove ==
  ASSUME BooksInv, NEW f \in Taken, f \in Taken',
         \A g \in Flows : g # f => adaptations'[g] = adaptations[g],
         Sound(adaptations'[f]),
         near' = near + (NearOf(adaptations'[f]) - NearOf(adaptations[f])),
         wrapped' = [adapter |-> wrapped["adapter"]
                                 + (WrappedOf(adaptations'[f]) - WrappedOf(adaptations[f])),
                     caller |-> wrapped["caller"]
                                + (ReceivedOf(adaptations'[f]) - ReceivedOf(adaptations[f]))]
  PROVE  BooksInv'
<1>1. Taken' = Taken
  BY DEF Taken
<1>2. IsFiniteSet(Taken) /\ \A g \in Taken : g \in Flows /\ Sound(adaptations[g])
  BY DEF BooksInv, Taken
<1>3. \A g \in Taken : Sound(adaptations'[g])
  BY <1>2
<1>4. \A g \in Taken : /\ Nears[g] = NearOf(adaptations[g])
                       /\ Wraps[g] = WrappedOf(adaptations[g])
                       /\ Receipts[g] = ReceivedOf(adaptations[g])
                       /\ Nears'[g] = NearOf(adaptations'[g])
                       /\ Wraps'[g] = WrappedOf(adaptations'[g])
                       /\ Receipts'[g] = ReceivedOf(adaptations'[g])
  BY <1>2 DEF Nears, Wraps, Receipts
<1>5. \A g \in Taken : Nears[g] \in Int /\ Wraps[g] \in Int /\ Receipts[g] \in Int
  BY BooksAreNatural
<1>6. Nears'[f] \in Int /\ Wraps'[f] \in Int /\ Receipts'[f] \in Int
  BY <1>4, SharesAreNatural
<1>7. \A g \in Taken : g # f =>
        Nears'[g] = Nears[g] /\ Wraps'[g] = Wraps[g] /\ Receipts'[g] = Receipts[g]
  BY <1>2, <1>4
<1>8. SumFunctionOnSet(Nears', Taken)
        = SumFunctionOnSet(Nears, Taken) + (Nears'[f] - Nears[f])
  BY <1>2, <1>5, <1>6, <1>7, SumChange
<1>9. SumFunctionOnSet(Wraps', Taken)
        = SumFunctionOnSet(Wraps, Taken) + (Wraps'[f] - Wraps[f])
  BY <1>2, <1>5, <1>6, <1>7, SumChange
<1>10. SumFunctionOnSet(Receipts', Taken)
         = SumFunctionOnSet(Receipts, Taken) + (Receipts'[f] - Receipts[f])
  BY <1>2, <1>5, <1>6, <1>7, SumChange
<1>11. near' = SumFunctionOnSet(Nears', Taken)
  BY <1>4, <1>8 DEF BooksInv
<1>12. wrapped' = [adapter |-> SumFunctionOnSet(Wraps', Taken),
                   caller |-> SumFunctionOnSet(Receipts', Taken)]
  BY <1>4, <1>9, <1>10 DEF BooksInv
<1> QED
  BY <1>1, <1>2, <1>3, <1>11, <1>12 DEF BooksInv

\* A call is taken, and the adapter keeps the yocto of its transfer.
LEMMA BooksAdd ==
  ASSUME BooksInv, NEW f \in Flows, f \notin Taken,
         \A g \in Flows : g # f => adaptations'[g] = adaptations[g],
         adaptations'[f] # None, Sound(adaptations'[f]), adaptations'[f].stage = "deposit",
         near' = near + FT_TRANSFER_DEPOSIT, UNCHANGED wrapped
  PROVE  BooksInv'
<1>1. Taken' = Taken \union {f}
  BY DEF Taken, Sound
<1>2. IsFiniteSet(Taken) /\ \A g \in Taken : g \in Flows /\ Sound(adaptations[g])
  BY DEF BooksInv, Taken
<1>3. \A g \in Taken' : Sound(adaptations'[g])
  BY <1>1, <1>2
<1>4. \A g \in Taken : /\ Nears'[g] = Nears[g] /\ Wraps'[g] = Wraps[g]
                       /\ Receipts'[g] = Receipts[g]
  BY <1>2 DEF Nears, Wraps, Receipts
<1>5. \A g \in Taken : Nears[g] \in Int /\ Wraps[g] \in Int /\ Receipts[g] \in Int
  BY BooksAreNatural
<1>6. Nears'[f] = FT_TRANSFER_DEPOSIT /\ Wraps'[f] = 0 /\ Receipts'[f] = 0
  BY DEF Nears, Wraps, Receipts, NearOf, WrappedOf, ReceivedOf, Delivered, DepositFailed
<1>7. \A g \in Taken \union {f} : Nears'[g] \in Int /\ Wraps'[g] \in Int /\ Receipts'[g] \in Int
  BY <1>4, <1>5, <1>6 DEF FT_TRANSFER_DEPOSIT
<1>8. /\ SumFunctionOnSet(Nears', Taken) = SumFunctionOnSet(Nears, Taken)
      /\ SumFunctionOnSet(Wraps', Taken) = SumFunctionOnSet(Wraps, Taken)
      /\ SumFunctionOnSet(Receipts', Taken) = SumFunctionOnSet(Receipts, Taken)
  BY <1>2, <1>4, <1>5, SumAgree
<1>9. /\ SumFunctionOnSet(Nears', Taken \union {f})
           = FT_TRANSFER_DEPOSIT + SumFunctionOnSet(Nears', Taken)
      /\ SumFunctionOnSet(Wraps', Taken \union {f}) = 0 + SumFunctionOnSet(Wraps', Taken)
      /\ SumFunctionOnSet(Receipts', Taken \union {f}) = 0 + SumFunctionOnSet(Receipts', Taken)
  BY <1>2, <1>6, <1>7, SumAdd
<1>10. near \in Nat /\ wrapped["adapter"] \in Nat /\ wrapped["caller"] \in Nat
  BY BooksAreNatural
<1>11. near = SumFunctionOnSet(Nears, Taken)
       /\ wrapped = [adapter |-> SumFunctionOnSet(Wraps, Taken),
                     caller |-> SumFunctionOnSet(Receipts, Taken)]
  BY DEF BooksInv
<1>12. near' = SumFunctionOnSet(Nears', Taken')
  BY <1>1, <1>8, <1>9, <1>10, <1>11 DEF FT_TRANSFER_DEPOSIT
<1>13. wrapped' = [adapter |-> SumFunctionOnSet(Wraps', Taken'),
                   caller |-> SumFunctionOnSet(Receipts', Taken')]
  BY <1>1, <1>8, <1>9, <1>10, <1>11
<1>14. IsFiniteSet(Taken')
  BY <1>1, <1>2, FS_AddElement
<1> QED
  BY <1>3, <1>12, <1>13, <1>14 DEF BooksInv

\* The other adapter, and the contracts behind them, leave the books alone.
LEMMA BooksKeep ==
  ASSUME BooksInv, Taken' = Taken, UNCHANGED <<near, wrapped>>,
         \A f \in Taken : adaptations'[f] = adaptations[f]
  PROVE  BooksInv'
<1>1. IsFiniteSet(Taken) /\ \A g \in Taken : g \in Flows /\ Sound(adaptations[g])
  BY DEF BooksInv, Taken
<1>2. \A g \in Taken : /\ Nears'[g] = Nears[g] /\ Wraps'[g] = Wraps[g]
                       /\ Receipts'[g] = Receipts[g]
  BY <1>1 DEF Nears, Wraps, Receipts
<1>3. \A g \in Taken : Nears[g] \in Int /\ Wraps[g] \in Int /\ Receipts[g] \in Int
  BY BooksAreNatural
<1>4. /\ SumFunctionOnSet(Nears', Taken) = SumFunctionOnSet(Nears, Taken)
      /\ SumFunctionOnSet(Wraps', Taken) = SumFunctionOnSet(Wraps, Taken)
      /\ SumFunctionOnSet(Receipts', Taken) = SumFunctionOnSet(Receipts, Taken)
  BY <1>1, <1>2, <1>3, SumAgree
<1> QED
  BY <1>1, <1>4 DEF BooksInv

\* What an action does to one adaptation.
LEMMA BecomesOne ==
  ASSUME FlowsTypeOK, NEW f \in Flows, NEW b, adaptations' = [adaptations EXCEPT ![f] = b]
  PROVE  adaptations'[f] = b /\ \A g \in Flows : g # f => adaptations'[g] = adaptations[g]
BY DEF FlowsTypeOK

LEMMA TakenIsSound ==
  ASSUME FlowsTypeOK, BooksInv, NEW f \in Flows, NEW stage, At(f, "compat", stage),
         stage # "refused"
  PROVE  /\ f \in Taken /\ Sound(adaptations[f])
         /\ adaptations[f] \in Adaptation /\ adaptations[f].stage = stage
         /\ Amount(adaptations[f]) \in Nat
         /\ adaptations[f].attached = Amount(adaptations[f]) + FT_TRANSFER_DEPOSIT
         /\ near \in Nat /\ wrapped["adapter"] \in Nat /\ wrapped["caller"] \in Nat
         /\ wrapped = [adapter |-> wrapped["adapter"], caller |-> wrapped["caller"]]
<1>1. f \in Taken
  BY DEF At, Taken
<1>2. Sound(adaptations[f])
  BY <1>1 DEF BooksInv
<1>3. adaptations[f] \in Adaptation
  BY <1>2 DEF Sound
<1>4. adaptations[f].stage = stage
  BY DEF At
<1>5. wrapped = [adapter |-> wrapped["adapter"], caller |-> wrapped["caller"]]
  BY DEF BooksInv
<1> QED
  BY <1>1, <1>2, <1>3, <1>4, <1>5, SharesAreNatural, BooksAreNatural

LEMMA BooksDeposit ==
  ASSUME FlowsTypeOK, BooksInv, NEW f \in Flows, NEW outcome \in {"ok", "err"},
         DepositReturns(f, outcome)
  PROVE  BooksInv'
<1> DEFINE a == adaptations[f]
           b == [a EXCEPT !.stage = "deposited", !.seen = outcome]
<1>1. /\ f \in Taken /\ Sound(a) /\ a \in Adaptation /\ a.stage = "deposit"
      /\ Amount(a) \in Nat /\ a.attached = Amount(a) + FT_TRANSFER_DEPOSIT
      /\ near \in Nat /\ wrapped["adapter"] \in Nat /\ wrapped["caller"] \in Nat
      /\ wrapped = [adapter |-> wrapped["adapter"], caller |-> wrapped["caller"]]
  BY TakenIsSound DEF DepositReturns
<1>2. adaptations' = [adaptations EXCEPT ![f] = b]
  BY DEF DepositReturns, Sees
<1>3. adaptations'[f] = b /\ \A g \in Flows : g # f => adaptations'[g] = adaptations[g]
  BY <1>2, BecomesOne
<1>4. /\ b \in Adaptation /\ b.stage = "deposited" /\ b.seen = outcome
      /\ b.adapter = a.adapter /\ b.attached = a.attached
      /\ b.budget = a.budget /\ b.extra = a.extra
  BY <1>1 DEF Adaptation
<1> HIDE DEF a, b
<1>5. ~Sent(a) /\ (Sent(b) <=> Sent(a)) /\ Amount(b) = Amount(a)
  BY <1>1, <1>4 DEF Sound, Sent, Amount
<1>6. Sound(b)
  BY <1>1, <1>4, <1>5 DEF Sound
<1>7. f \in Taken'
  BY <1>1, <1>3, <1>4, AdapterNone DEF Taken, Sound
<1>8. /\ NearOf(a) = FT_TRANSFER_DEPOSIT /\ WrappedOf(a) = 0
      /\ ReceivedOf(a) = 0 /\ ReceivedOf(b) = 0
  BY <1>1, <1>4 DEF NearOf, WrappedOf, ReceivedOf, Delivered, DepositFailed
<1>9. CASE outcome = "ok"
  <2>1. NearOf(b) = FT_TRANSFER_DEPOSIT /\ WrappedOf(b) = Amount(a)
    BY <1>4, <1>5, <1>9 DEF NearOf, WrappedOf, Delivered, DepositFailed
  <2>2. UNCHANGED near /\ wrapped' = [wrapped EXCEPT !["adapter"] = @ + Amount(a)]
    BY <1>9 DEF DepositReturns, Amount, a
  <2>5. PICK held \in Nat, sent \in Nat : wrapped = [adapter |-> held, caller |-> sent]
    BY <1>1
  <2>6. wrapped' = [adapter |-> held + Amount(a), caller |-> sent]
    BY <2>2, <2>5
  <2>3. near' = near + (NearOf(b) - NearOf(a))
    BY <1>1, <1>8, <2>1, <2>2 DEF FT_TRANSFER_DEPOSIT
  <2>4. wrapped' = [adapter |-> wrapped["adapter"] + (WrappedOf(b) - WrappedOf(a)),
                    caller |-> wrapped["caller"] + (ReceivedOf(b) - ReceivedOf(a))]
    BY <1>1, <1>8, <2>1, <2>5, <2>6
  <2> QED
    BY <1>1, <1>3, <1>6, <1>7, <2>3, <2>4, BooksMove DEF a
<1>10. CASE outcome = "err"
  <2>1. NearOf(b) = a.attached /\ WrappedOf(b) = 0
    BY <1>4, <1>5, <1>10 DEF NearOf, WrappedOf, Delivered, DepositFailed
  <2>2. near' = near + Amount(a) /\ UNCHANGED wrapped
    BY <1>10 DEF DepositReturns, Amount, a
  <2>3. near' = near + (NearOf(b) - NearOf(a))
    BY <1>1, <1>8, <2>1, <2>2 DEF FT_TRANSFER_DEPOSIT
  <2>4. wrapped' = [adapter |-> wrapped["adapter"] + (WrappedOf(b) - WrappedOf(a)),
                    caller |-> wrapped["caller"] + (ReceivedOf(b) - ReceivedOf(a))]
    BY <1>1, <1>8, <2>1, <2>2
  <2> QED
    BY <1>1, <1>3, <1>6, <1>7, <2>3, <2>4, BooksMove DEF a
<1> QED
  BY <1>9, <1>10

LEMMA BooksTransfer ==
  ASSUME FlowsTypeOK, BooksInv, NEW f \in Flows, NEW outcome \in {"ok", "err"},
         TransferReturns(f, outcome)
  PROVE  BooksInv'
<1> DEFINE a == adaptations[f]
           b == [a EXCEPT !.stage = "transferred", !.seen = outcome]
<1>1. /\ f \in Taken /\ Sound(a) /\ a \in Adaptation /\ a.stage = "transfer"
      /\ Amount(a) \in Nat /\ a.attached = Amount(a) + FT_TRANSFER_DEPOSIT
      /\ near \in Nat /\ wrapped["adapter"] \in Nat /\ wrapped["caller"] \in Nat
      /\ wrapped = [adapter |-> wrapped["adapter"], caller |-> wrapped["caller"]]
  BY TakenIsSound DEF TransferReturns
<1>2. adaptations' = [adaptations EXCEPT ![f] = b]
  BY DEF TransferReturns, Sees
<1>3. adaptations'[f] = b /\ \A g \in Flows : g # f => adaptations'[g] = adaptations[g]
  BY <1>2, BecomesOne
<1>4. /\ b \in Adaptation /\ b.stage = "transferred" /\ b.seen = outcome
      /\ b.adapter = a.adapter /\ b.attached = a.attached
      /\ b.budget = a.budget /\ b.extra = a.extra
  BY <1>1 DEF Adaptation
<1> HIDE DEF a, b
<1>5. Sent(a) /\ (Sent(b) <=> Sent(a)) /\ Amount(b) = Amount(a)
  BY <1>1, <1>4 DEF Sound, Sent, Amount
<1>6. Sound(b)
  BY <1>1, <1>4, <1>5 DEF Sound
<1>7. f \in Taken'
  BY <1>1, <1>3, <1>4, AdapterNone DEF Taken, Sound
<1>8. NearOf(a) = 0 /\ WrappedOf(a) = Amount(a) /\ ReceivedOf(a) = 0
  BY <1>1 DEF NearOf, WrappedOf, ReceivedOf, Delivered, DepositFailed
<1>9. CASE outcome = "ok"
  <2>1. NearOf(b) = 0 /\ WrappedOf(b) = 0 /\ ReceivedOf(b) = Amount(a)
    BY <1>4, <1>5, <1>9 DEF NearOf, WrappedOf, ReceivedOf, Delivered, DepositFailed
  <2>2. UNCHANGED near /\ wrapped' = [adapter |-> wrapped["adapter"] - Amount(a),
                                      caller |-> wrapped["caller"] + Amount(a)]
    BY <1>9 DEF TransferReturns, Amount, a
  <2>3. near' = near + (NearOf(b) - NearOf(a))
    BY <1>1, <1>8, <2>1, <2>2
  <2>4. wrapped' = [adapter |-> wrapped["adapter"] + (WrappedOf(b) - WrappedOf(a)),
                    caller |-> wrapped["caller"] + (ReceivedOf(b) - ReceivedOf(a))]
    BY <1>1, <1>8, <2>1, <2>2
  <2> QED
    BY <1>1, <1>3, <1>6, <1>7, <2>3, <2>4, BooksMove DEF a
<1>10. CASE outcome = "err"
  <2>1. NearOf(b) = FT_TRANSFER_DEPOSIT /\ WrappedOf(b) = Amount(a) /\ ReceivedOf(b) = 0
    BY <1>4, <1>5, <1>10 DEF NearOf, WrappedOf, ReceivedOf, Delivered, DepositFailed
  <2>2. near' = near + FT_TRANSFER_DEPOSIT /\ UNCHANGED wrapped
    BY <1>10 DEF TransferReturns
  <2>3. near' = near + (NearOf(b) - NearOf(a))
    BY <1>1, <1>8, <2>1, <2>2 DEF FT_TRANSFER_DEPOSIT
  <2>4. wrapped' = [adapter |-> wrapped["adapter"] + (WrappedOf(b) - WrappedOf(a)),
                    caller |-> wrapped["caller"] + (ReceivedOf(b) - ReceivedOf(a))]
    BY <1>1, <1>8, <2>1, <2>2
  <2> QED
    BY <1>1, <1>3, <1>6, <1>7, <2>3, <2>4, BooksMove DEF a
<1> QED
  BY <1>9, <1>10

\* A callback that panics leaves the shares as they are.
LEMMA BooksPanic ==
  ASSUME FlowsTypeOK, BooksInv, NEW f \in Flows, NEW why \in {"budget", "outcome"},
         At(f, "compat", "deposited") \/ At(f, "compat", "transferred"),
         adaptations[f].stage = "transferred" => adaptations[f].seen # "ok",
         Panics(f, why), UNCHANGED <<near, wrapped>>
  PROVE  BooksInv'
<1> DEFINE a == adaptations[f]
           b == [a EXCEPT !.stage = "err", !.why = why]
<1>1. /\ f \in Taken /\ Sound(a) /\ a \in Adaptation
      /\ a.stage \in {"deposited", "transferred"}
      /\ Amount(a) \in Nat /\ a.attached = Amount(a) + FT_TRANSFER_DEPOSIT
      /\ near \in Nat /\ wrapped["adapter"] \in Nat /\ wrapped["caller"] \in Nat
      /\ wrapped = [adapter |-> wrapped["adapter"], caller |-> wrapped["caller"]]
  BY TakenIsSound
<1>2. adaptations' = [adaptations EXCEPT ![f] = b]
  BY DEF Panics
<1>3. adaptations'[f] = b /\ \A g \in Flows : g # f => adaptations'[g] = adaptations[g]
  BY <1>2, BecomesOne
<1>4. /\ b \in Adaptation /\ b.stage = "err" /\ b.seen = a.seen
      /\ b.adapter = a.adapter /\ b.attached = a.attached
      /\ b.budget = a.budget /\ b.extra = a.extra
  BY <1>1 DEF Adaptation
<1>c. a.stage = "transferred" => a.seen # "ok"
  OBVIOUS
<1> HIDE DEF a, b
<1>5. (Sent(b) <=> Sent(a)) /\ Amount(b) = Amount(a) /\ (a.stage = "transferred" => Sent(a))
  BY <1>1, <1>4 DEF Sound, Sent, Amount
<1>6. Sound(b)
  BY <1>1, <1>4, <1>5 DEF Sound
<1>7. f \in Taken'
  BY <1>1, <1>3, <1>4, AdapterNone DEF Taken, Sound
<1>8. ~Delivered(a) /\ ~Delivered(b) /\ (DepositFailed(b) <=> DepositFailed(a))
  BY <1>c, <1>1, <1>4, <1>5 DEF Delivered, DepositFailed
<1>9. /\ NearOf(b) = NearOf(a) /\ WrappedOf(b) = WrappedOf(a)
      /\ ReceivedOf(b) = ReceivedOf(a)
  BY <1>1, <1>4, <1>5, <1>8 DEF NearOf, WrappedOf, ReceivedOf
<1>10. NearOf(a) \in Nat /\ WrappedOf(a) \in Nat /\ ReceivedOf(a) \in Nat
  BY <1>1, SharesAreNatural
<1>11. near' = near + (NearOf(b) - NearOf(a))
  BY <1>1, <1>9, <1>10
<1>12. wrapped' = [adapter |-> wrapped["adapter"] + (WrappedOf(b) - WrappedOf(a)),
                   caller |-> wrapped["caller"] + (ReceivedOf(b) - ReceivedOf(a))]
  BY <1>1, <1>9, <1>10
<1> QED
  BY <1>1, <1>3, <1>6, <1>7, <1>11, <1>12, BooksMove DEF a

LEMMA BooksStarted ==
  ASSUME FlowsTypeOK, BooksInv, NEW f \in Flows, on_wrap_near_deposit_started(f)
  PROVE  BooksInv'
<1> DEFINE a == adaptations[f]
           budget == Minus(a.budget, WRAP_TRANSFER_STEP_OVERHEAD)
           b == [a EXCEPT !.stage = "transfer", !.budget = budget]
<1>1. /\ f \in Taken /\ Sound(a) /\ a \in Adaptation /\ a.stage = "deposited"
      /\ Amount(a) \in Nat /\ a.attached = Amount(a) + FT_TRANSFER_DEPOSIT
      /\ near \in Nat /\ wrapped["adapter"] \in Nat /\ wrapped["caller"] \in Nat
      /\ wrapped = [adapter |-> wrapped["adapter"], caller |-> wrapped["caller"]]
  BY TakenIsSound DEF on_wrap_near_deposit_started
<1>2. UNCHANGED wrapped /\ At(f, "compat", "deposited")
  BY DEF on_wrap_near_deposit_started
<1>3. CASE \E why \in {"budget", "outcome"} : Panics(f, why) /\ UNCHANGED near
  BY <1>1, <1>2, <1>3, BooksPanic
<1>4. CASE /\ a.seen = "ok" /\ budget >= MIN_CALLBACK_BUDGET
           /\ adaptations' = [adaptations EXCEPT ![f] = b]
           /\ near' = near - FT_TRANSFER_DEPOSIT
  <2>1. adaptations'[f] = b /\ \A g \in Flows : g # f => adaptations'[g] = adaptations[g]
    BY <1>4, BecomesOne
  <2>2. a.budget \in Nat /\ budget \in Nat /\ budget # a.budget
    <3>1. a.budget \in Nat
      BY <1>1 DEF Adaptation
    <3> QED
      BY <1>4, <3>1 DEF Minus, WRAP_TRANSFER_STEP_OVERHEAD, MIN_CALLBACK_BUDGET
  <2>3. a.seen = "ok" /\ near' = near - FT_TRANSFER_DEPOSIT
    BY <1>4
  <2> HIDE DEF budget
  <2>4. /\ b \in Adaptation /\ b.stage = "transfer" /\ b.seen = a.seen
        /\ b.adapter = a.adapter /\ b.attached = a.attached
        /\ b.budget = budget /\ b.extra = a.extra
    BY <1>1, <2>2 DEF Adaptation
  <2> HIDE DEF a, b
  <2>5. ~Sent(a) /\ Sent(b) /\ Amount(b) = Amount(a)
    BY <1>1, <2>2, <2>4 DEF Sound, Sent, Amount
  <2>6. Sound(b)
    BY <1>1, <2>4, <2>5 DEF Sound
  <2>7. f \in Taken'
    BY <1>1, <2>1, <2>4, AdapterNone DEF Taken, Sound
  <2>8. NearOf(a) = FT_TRANSFER_DEPOSIT /\ WrappedOf(a) = Amount(a) /\ ReceivedOf(a) = 0
    BY <1>1, <2>3 DEF NearOf, WrappedOf, ReceivedOf, Delivered, DepositFailed
  <2>9. NearOf(b) = 0 /\ WrappedOf(b) = Amount(a) /\ ReceivedOf(b) = 0
    BY <2>4, <2>5 DEF NearOf, WrappedOf, ReceivedOf, Delivered, DepositFailed
  <2>10. near' = near + (NearOf(b) - NearOf(a))
    BY <1>1, <2>3, <2>8, <2>9 DEF FT_TRANSFER_DEPOSIT
  <2>11. wrapped' = [adapter |-> wrapped["adapter"] + (WrappedOf(b) - WrappedOf(a)),
                     caller |-> wrapped["caller"] + (ReceivedOf(b) - ReceivedOf(a))]
    BY <1>1, <1>2, <2>8, <2>9
  <2> QED
    BY <1>1, <2>1, <2>6, <2>7, <2>10, <2>11, BooksMove DEF a
<1>5. budget < MIN_CALLBACK_BUDGET \/ budget >= MIN_CALLBACK_BUDGET
  <2>1. a.budget \in Nat
    BY <1>1 DEF Adaptation
  <2> QED
    BY <2>1 DEF Minus, MIN_CALLBACK_BUDGET, WRAP_TRANSFER_STEP_OVERHEAD
<1>6. \/ \E why \in {"budget", "outcome"} : Panics(f, why) /\ UNCHANGED near
      \/ /\ a.seen = "ok" /\ ~(budget < MIN_CALLBACK_BUDGET)
         /\ adaptations' = [adaptations EXCEPT ![f] = b]
         /\ near' = near - FT_TRANSFER_DEPOSIT
  BY DEF on_wrap_near_deposit_started
<1> QED
  BY <1>3, <1>4, <1>5, <1>6

LEMMA BooksFinished ==
  ASSUME FlowsTypeOK, BooksInv, NEW f \in Flows, on_wrap_ft_transfer_finished(f)
  PROVE  BooksInv'
<1> DEFINE a == adaptations[f]
           b == [a EXCEPT !.stage = "ok"]
<1>1. /\ f \in Taken /\ Sound(a) /\ a \in Adaptation /\ a.stage = "transferred"
      /\ Amount(a) \in Nat /\ a.attached = Amount(a) + FT_TRANSFER_DEPOSIT
      /\ near \in Nat /\ wrapped["adapter"] \in Nat /\ wrapped["caller"] \in Nat
      /\ wrapped = [adapter |-> wrapped["adapter"], caller |-> wrapped["caller"]]
  BY TakenIsSound DEF on_wrap_ft_transfer_finished
<1>2. UNCHANGED <<near, wrapped>> /\ At(f, "compat", "transferred")
  BY DEF on_wrap_ft_transfer_finished
<1>3. CASE a.seen # "ok"
  <2>1. Panics(f, "outcome")
    BY <1>3 DEF on_wrap_ft_transfer_finished
  <2> QED
    BY <1>2, <1>3, <2>1, BooksPanic
<1>4. CASE a.seen = "ok"
  <2>1. adaptations' = [adaptations EXCEPT ![f] = b]
    BY <1>4 DEF on_wrap_ft_transfer_finished, Moves
  <2>2. adaptations'[f] = b /\ \A g \in Flows : g # f => adaptations'[g] = adaptations[g]
    BY <2>1, BecomesOne
  <2>3. a.seen = "ok"
    BY <1>4
  <2>4. /\ b \in Adaptation /\ b.stage = "ok" /\ b.attached = a.attached
        /\ b.adapter = a.adapter
    BY <1>1 DEF Adaptation
  <2> HIDE DEF a, b
  <2>5. Sound(b) /\ Amount(b) = Amount(a)
    BY <1>1, <2>4 DEF Sound, Amount
  <2>6. f \in Taken'
    BY <1>1, <2>2, <2>4, AdapterNone DEF Taken, Sound
  <2>7. Delivered(a) /\ Delivered(b)
    BY <1>1, <2>3, <2>4 DEF Delivered
  <2>8. /\ NearOf(b) = 0 /\ NearOf(a) = 0 /\ WrappedOf(b) = 0 /\ WrappedOf(a) = 0
        /\ ReceivedOf(a) = Amount(a) /\ ReceivedOf(b) = Amount(a)
    BY <2>5, <2>7 DEF NearOf, WrappedOf, ReceivedOf
  <2>9. near' = near + (NearOf(b) - NearOf(a))
    BY <1>1, <1>2, <2>8
  <2>10. wrapped' = [adapter |-> wrapped["adapter"] + (WrappedOf(b) - WrappedOf(a)),
                     caller |-> wrapped["caller"] + (ReceivedOf(b) - ReceivedOf(a))]
    BY <1>1, <1>2, <2>8
  <2> QED
    BY <1>1, <2>2, <2>5, <2>6, <2>9, <2>10, BooksMove DEF a
<1> QED
  BY <1>3, <1>4

LEMMA BooksAdapters ==
  ASSUME FlowsTypeOK, BooksInv, NEW f \in Flows, AdapterRuns(f)
  PROVE  BooksInv'
<1>1. CASE \/ StartReturns(f) \/ on_route_echo_started(f)
           \/ PollReturns(f) \/ on_last_finished_polled(f)
  <2>1. adaptations[f] # None /\ adaptations[f].adapter = "demo" /\ UNCHANGED <<near, wrapped>>
    BY <1>1 DEF StartReturns, on_route_echo_started, PollReturns, on_last_finished_polled, At
  <2>2. /\ adaptations'[f].adapter = "demo"
        /\ \A g \in Flows : g # f => adaptations'[g] = adaptations[g]
    BY <2>1, AdapterRunsOutcome
  <2>3. Taken' = Taken /\ f \notin Taken
    BY <2>1, <2>2 DEF Taken
  <2>4. \A g \in Taken : adaptations'[g] = adaptations[g]
    BY <2>2, <2>3 DEF Taken
  <2> QED
    BY <2>1, <2>3, <2>4, BooksKeep
<1>2. CASE \E outcome \in {"ok", "err"} : DepositReturns(f, outcome) \/ TransferReturns(f, outcome)
  BY <1>2, BooksDeposit, BooksTransfer
<1>3. CASE on_wrap_near_deposit_started(f) \/ on_wrap_ft_transfer_finished(f)
  BY <1>3, BooksStarted, BooksFinished
<1> QED
  BY <1>1, <1>2, <1>3 DEF AdapterRuns

LEMMA BooksDispatch ==
  ASSUME FlowsTypeOK, BooksInv, NEW f \in Flows, Dispatch(f)
  PROVE  BooksInv'
<1>1. adaptations[f] = None /\ f \notin Taken
  BY DispatchOutcome DEF Taken
<1>2. ASSUME NEW n, NEW extra, adapt_fire_and_forget_route_echo(f, n, extra)
      PROVE  BooksInv'
  <2>1. PICK stage \in {"start", "refused"} :
          adaptations' = [adaptations EXCEPT ![f] = Accepted("demo", n, 0, extra, stage)]
    BY <1>2 DEF adapt_fire_and_forget_route_echo
  <2> DEFINE b == Accepted("demo", n, 0, extra, stage)
  <2>4. b.adapter = "demo"
    BY DEF Accepted
  <2> HIDE DEF b
  <2>5. adaptations' = [adaptations EXCEPT ![f] = b]
    BY <2>1 DEF b
  <2>2. /\ adaptations'[f].adapter = "demo"
        /\ \A g \in Flows : g # f => adaptations'[g] = adaptations[g]
    BY <2>4, <2>5, BecomesOne
  <2>3. Taken' = Taken /\ \A g \in Taken : adaptations'[g] = adaptations[g]
    BY <1>1, <2>2 DEF Taken
  <2> QED
    BY <1>2, <2>3, BooksKeep DEF adapt_fire_and_forget_route_echo
<1>3. ASSUME NEW attached \in Attached, NEW extra \in ExtraGas,
             adapt_wrap_near_deposit_then_transfer(f, attached, extra)
      PROVE  BooksInv'
  <2>1. attached \in Nat /\ extra \in Nat
    BY AdapterInputs
  <2>2. CASE attached > FT_TRANSFER_DEPOSIT /\ StartBudget(extra) >= MIN_CALLBACK_BUDGET
    <3> DEFINE b == Accepted("compat", 0, attached, extra, "deposit")
    <3>1. /\ adaptations' = [adaptations EXCEPT ![f] = b]
          /\ near' = near + attached - wrap_amount(attached) /\ UNCHANGED wrapped
      BY <1>3, <2>2 DEF adapt_wrap_near_deposit_then_transfer
    <3>2. adaptations'[f] = b /\ \A g \in Flows : g # f => adaptations'[g] = adaptations[g]
      BY <3>1, BecomesOne
    <3>3. b \in Adaptation
      BY <2>1, AcceptedType DEF Stages
    <3>4. /\ b.adapter = "compat" /\ b.attached = attached /\ b.stage = "deposit"
          /\ b.budget = StartBudget(b.extra)
      BY DEF Accepted
    <3>5. Sound(b) /\ b # None
      BY <2>2, <3>3, <3>4, AdapterNone DEF Sound, Sent
    <3>6. near' = near + FT_TRANSFER_DEPOSIT
      BY <2>1, <3>1, BooksAreNatural DEF wrap_amount, FT_TRANSFER_DEPOSIT
    <3> HIDE DEF b
    <3> QED
      BY <1>1, <3>1, <3>2, <3>4, <3>5, <3>6, BooksAdd
  <2>3. CASE ~(attached > FT_TRANSFER_DEPOSIT /\ StartBudget(extra) >= MIN_CALLBACK_BUDGET)
    <3>1. /\ adaptations' = [adaptations EXCEPT ![f] = Accepted("compat", 0, attached, extra, "refused")]
          /\ UNCHANGED <<near, wrapped>>
      BY <1>3, <2>3 DEF adapt_wrap_near_deposit_then_transfer
    <3> DEFINE b == Accepted("compat", 0, attached, extra, "refused")
    <3>4. b.stage = "refused"
      BY DEF Accepted
    <3> HIDE DEF b
    <3>5. adaptations' = [adaptations EXCEPT ![f] = b]
      BY <3>1 DEF b
    <3>2. /\ adaptations'[f].stage = "refused"
          /\ \A g \in Flows : g # f => adaptations'[g] = adaptations[g]
      BY <3>4, <3>5, BecomesOne
    <3>3. Taken' = Taken /\ \A g \in Taken : adaptations'[g] = adaptations[g]
      BY <1>1, <3>2 DEF Taken
    <3> QED
      BY <3>1, <3>3, BooksKeep
  <2> QED
    BY <2>2, <2>3
<1>4. CASE UNCHANGED adapterVars
  BY <1>4, BooksKeep DEF adapterVars, Taken
<1> QED
  BY <1>2, <1>3, <1>4 DEF Dispatch

LEMMA BooksStep == FlowsTypeOK /\ BooksInv /\ [Next]_allVars => BooksInv'
<1> SUFFICES ASSUME FlowsTypeOK, BooksInv, [Next]_allVars PROVE BooksInv'
  OBVIOUS
<1>1. CASE UNCHANGED adapterVars
  BY <1>1, BooksKeep DEF adapterVars, Taken
<1> QED
  BY <1>1, BooksDispatch, BooksAdapters DEF Next, Runs, allVars

LEMMA BooksInit == Init => BooksInv
<1> SUFFICES ASSUME Init PROVE BooksInv
  OBVIOUS
<1>1. Taken = {}
  BY DEF Init, Taken
<1>2. near = 0 /\ wrapped = [who \in {"adapter", "caller"} |-> 0]
  BY DEF Init
<1>3. /\ SumFunctionOnSet(Nears, Taken) = 0 /\ SumFunctionOnSet(Wraps, Taken) = 0
      /\ SumFunctionOnSet(Receipts, Taken) = 0
  BY <1>1, SumEmpty
<1>4. wrapped = [adapter |-> 0, caller |-> 0]
  BY <1>2
<1>5. IsFiniteSet(Taken) /\ \A f \in Taken : Sound(adaptations[f])
  BY <1>1, FS_EmptySet
<1> QED
  BY <1>2, <1>3, <1>4, <1>5 DEF BooksInv

\* No currency ever runs short: what the adapter pays out it holds.
THEOREM AdaptersTypeCorrect == Spec => []TypeOK
<1>1. Init => FlowsTypeOK /\ BooksInv
  BY FlowsTypeInit, BooksInit
<1>2. FlowsTypeOK /\ BooksInv /\ [Next]_allVars => (FlowsTypeOK /\ BooksInv)'
  BY FlowsTypeStep, BooksStep
<1>3. FlowsTypeOK /\ BooksInv => TypeOK
  <2> SUFFICES ASSUME FlowsTypeOK, BooksInv PROVE TypeOK
    OBVIOUS
  <2>1. near \in Nat /\ wrapped["adapter"] \in Nat /\ wrapped["caller"] \in Nat
    BY BooksAreNatural
  <2>2. wrapped = [adapter |-> wrapped["adapter"], caller |-> wrapped["caller"]]
    BY DEF BooksInv
  <2>3. wrapped \in [{"adapter", "caller"} -> Nat]
    BY <2>1, <2>2
  <2> QED
    BY <2>1, <2>3 DEF FlowsTypeOK, TypeOK
<1> QED
  BY <1>1, <1>2, <1>3, PTL DEF Spec

LEMMA BooksClose == BooksInv => BooksBalance
<1> SUFFICES ASSUME BooksInv, \A f \in Flows : Ended(f)
             PROVE  /\ near + wrapped["adapter"] = AttachedBy(EndedAs("err"))
                    /\ wrapped["caller"] + Cardinality(EndedAs("ok")) = AttachedBy(EndedAs("ok"))
  BY DEF BooksBalance
<1> DEFINE Err == EndedAs("err")
           Ok == EndedAs("ok")
           held == [f \in Flows |-> NearOf(adaptations[f]) + WrappedOf(adaptations[f])]
           kept == [f \in Ok |-> 1]
           attached(flows) == [f \in flows |-> adaptations[f].attached]
<1>1. IsFiniteSet(Taken) /\ \A f \in Taken : f \in Flows /\ Sound(adaptations[f])
  BY DEF BooksInv, Taken
<1>2. /\ Err \in SUBSET Taken /\ Ok \in SUBSET Taken
      /\ \A f \in Taken : f \in Ok <=> adaptations[f].stage = "ok"
      /\ \A f \in Taken : f \in Err <=> adaptations[f].stage = "err"
      /\ \A f \in Taken : f \in Err \/ f \in Ok
  BY DEF EndedAs, Taken, Ended
<1>3. IsFiniteSet(Err) /\ IsFiniteSet(Ok)
  BY <1>1, <1>2, FS_Subset
<1>4. \A f \in Taken :
        /\ NearOf(adaptations[f]) \in Nat /\ WrappedOf(adaptations[f]) \in Nat
        /\ ReceivedOf(adaptations[f]) \in Nat /\ Amount(adaptations[f]) \in Nat
        /\ adaptations[f].attached = Amount(adaptations[f]) + FT_TRANSFER_DEPOSIT
  BY <1>1, SharesAreNatural
<1>5. \A f \in Err : NearOf(adaptations[f]) + WrappedOf(adaptations[f]) = adaptations[f].attached
  <2> SUFFICES ASSUME NEW f \in Err
               PROVE  NearOf(adaptations[f]) + WrappedOf(adaptations[f]) = adaptations[f].attached
    OBVIOUS
  <2> DEFINE a == adaptations[f]
  <2>1. a.stage = "err" /\ Amount(a) \in Nat /\ a.attached = Amount(a) + FT_TRANSFER_DEPOSIT
    BY <1>2, <1>4
  <2> HIDE DEF a
  <2>2. NearOf(a) + WrappedOf(a) = a.attached
    BY <2>1 DEF NearOf, WrappedOf, Delivered, FT_TRANSFER_DEPOSIT
  <2> QED
    BY <2>2 DEF a
<1>6. \A f \in Ok : /\ NearOf(adaptations[f]) + WrappedOf(adaptations[f]) = 0
                    /\ adaptations[f].attached = ReceivedOf(adaptations[f]) + 1
  <2>1. \A f \in Ok : Delivered(adaptations[f])
    BY <1>2 DEF Delivered
  <2> QED
    BY <1>2, <1>4, <2>1 DEF NearOf, WrappedOf, ReceivedOf, FT_TRANSFER_DEPOSIT
<1>7. \A f \in Err : ReceivedOf(adaptations[f]) = 0
  BY <1>2 DEF ReceivedOf, Delivered
<1>8. \A f \in Taken :
        /\ Nears[f] \in Int /\ Wraps[f] \in Int /\ held[f] = Nears[f] + Wraps[f]
        /\ held[f] \in Int /\ Receipts[f] = ReceivedOf(adaptations[f]) /\ Receipts[f] \in Int
        /\ held[f] = NearOf(adaptations[f]) + WrappedOf(adaptations[f])
  BY <1>1, <1>4 DEF Nears, Wraps, Receipts
<1>9. \A f \in Err : attached(Err)[f] = held[f] /\ held[f] \in Int
  BY <1>2, <1>5, <1>8
<1>10. \A f \in Taken \ Err : held[f] = 0
  BY <1>2, <1>6, <1>8
<1>11. \A f \in Taken \ Ok : Receipts[f] = 0
  BY <1>2, <1>7, <1>8
<1>12. \A f \in Ok : /\ Receipts[f] \in Int /\ kept[f] \in Int
                     /\ attached(Ok)[f] = Receipts[f] + kept[f]
  <2> SUFFICES ASSUME NEW f \in Ok
               PROVE  /\ Receipts[f] \in Int /\ kept[f] \in Int
                      /\ attached(Ok)[f] = Receipts[f] + kept[f]
    OBVIOUS
  <2>1. f \in Taken /\ adaptations[f].attached = ReceivedOf(adaptations[f]) + 1
    BY <1>2, <1>6
  <2>2. Receipts[f] = ReceivedOf(adaptations[f]) /\ Receipts[f] \in Int
    BY <1>8, <2>1
  <2>3. kept[f] = 1 /\ attached(Ok)[f] = adaptations[f].attached
    OBVIOUS
  <2> QED
    BY <2>1, <2>2, <2>3
<1>13. AttachedBy(Err) = SumFunctionOnSet(attached(Err), Err)
  BY DEF AttachedBy, SumFunction
<1>14. AttachedBy(Ok) = SumFunctionOnSet(attached(Ok), Ok)
  BY DEF AttachedBy, SumFunction
<1>15. \A f \in Ok : kept[f] = 1
  OBVIOUS
<1> HIDE DEF held, kept, attached, Err, Ok
<1>16. near + wrapped["adapter"] = SumFunctionOnSet(held, Taken)
  <2>1. SumFunctionOnSet(held, Taken)
          = SumFunctionOnSet(Nears, Taken) + SumFunctionOnSet(Wraps, Taken)
    BY <1>1, <1>8, SumPlus
  <2> QED
    BY <2>1 DEF BooksInv
<1>17. SumFunctionOnSet(held, Taken) = SumFunctionOnSet(held, Err)
  BY <1>1, <1>2, <1>8, <1>10, SumWithout
<1>18. SumFunctionOnSet(attached(Err), Err) = SumFunctionOnSet(held, Err)
  BY <1>3, <1>9, SumAgree
<1>19. wrapped["caller"] = SumFunctionOnSet(Receipts, Ok)
  <2>1. SumFunctionOnSet(Receipts, Taken) = SumFunctionOnSet(Receipts, Ok)
    BY <1>1, <1>2, <1>8, <1>11, SumWithout
  <2> QED
    BY <2>1 DEF BooksInv
<1>20. SumFunctionOnSet(attached(Ok), Ok)
         = SumFunctionOnSet(Receipts, Ok) + SumFunctionOnSet(kept, Ok)
  BY <1>3, <1>12, SumPlus
<1>21. SumFunctionOnSet(kept, Ok) = Cardinality(Ok)
  BY <1>3, <1>15, SumOnes
<1>22. near + wrapped["adapter"] = AttachedBy(Err)
  BY <1>13, <1>16, <1>17, <1>18
<1>23. wrapped["caller"] + Cardinality(Ok) = AttachedBy(Ok)
  BY <1>14, <1>19, <1>20, <1>21
<1> QED
  BY <1>22, <1>23 DEF Err, Ok

\* compat-adapter's books balance whenever no call is under way, however many calls
\* were mixed and whichever of their parts failed.
THEOREM BooksSafe == Spec => []BooksBalance
<1>1. Init => FlowsTypeOK /\ BooksInv
  BY FlowsTypeInit, BooksInit
<1>2. FlowsTypeOK /\ BooksInv /\ [Next]_allVars => (FlowsTypeOK /\ BooksInv)'
  BY FlowsTypeStep, BooksStep
<1> QED
  BY <1>1, <1>2, BooksClose, PTL DEF Spec
=============================================================================
