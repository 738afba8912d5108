-------------------------- MODULE SequencerProofs --------------------------
(***************************************************************************)
(* Proofs about the release engine, for every set of accounts, steps,      *)
(* plans and orders and for every bound: the types; that a callback of a   *)
(* manual run only ever meets the registration it was created with; that   *)
(* only a panic strands a registration; that a queue or a saved result has *)
(* a released chain to drive it; and the order of the first manual run.    *)
(***************************************************************************)
EXTENDS Sequencer, SequenceTheorems, WellFoundedInduction, TLAPS

----------------------------------------------------------------------------
(* The operators the actions are built from.                               *)

LEMMA StepFields ==
  ASSUME NEW step \in Steps
  PROVE  /\ step.id \in StepIds /\ step.save \in Names \union {None}
         /\ step.uses \in Names \union {None} /\ step.deposit \in Nat
  BY StepsAssumption DEF StepType

LEMMA PlanFacts ==
  ASSUME NEW plan \in Plans
  PROVE  /\ plan \in Seq(Steps) /\ Len(plan) \in Nat /\ Len(plan) > 0
         /\ DOMAIN plan = 1..Len(plan)
         /\ \A i \in DOMAIN plan : plan[i] \in Steps
         /\ DistinctIds(plan)
  BY PlansAssumption

LEMMA IdsOfType ==
  ASSUME NEW plan \in Seq(Steps)
  PROVE  /\ IdsOf(plan) \in Seq(StepIds)
         /\ DOMAIN IdsOf(plan) = DOMAIN plan
<1>1. /\ DOMAIN plan = 1..Len(plan) /\ Len(plan) \in Nat
      /\ \A i \in DOMAIN plan : plan[i] \in Steps
  OBVIOUS
<1>2. IdsOf(plan) \in [1..Len(plan) -> StepIds]
  BY <1>1, StepFields DEF IdsOf
<1> QED BY <1>1, <1>2 DEF IdsOf

LEMMA LeastNumber ==
  ASSUME NEW S, S \subseteq Nat, S # {}
  PROVE  \E least \in S : \A n \in S : least <= n
<1>1. PICK least \in S : \A n \in S : <<n, least>> \notin OpToRel(<, Nat)
  BY WFMin, NatLessThanWellFounded, Zenon
<1>2. ASSUME NEW n \in S PROVE ~(n < least)
  BY <1>1, Zenon DEF OpToRel
<1>3. ASSUME NEW n \in S PROVE least <= n
  BY <1>2
<1> QED BY <1>3

\* p is the first index of the order that names chain y: StartRelease gives the
\* chain that place.
IsFirst(ns, order, reg, y, p) ==
  /\ p \in DOMAIN order /\ p \in Nat /\ reg[<<ns, order[p]>>].yield = y
  /\ \A j \in 1..(p - 1) : reg[<<ns, order[j]>>].yield # y

FirstPlace(ns, order, reg, y) ==
  CHOOSE i \in DOMAIN order :
    /\ reg[<<ns, order[i]>>].yield = y
    /\ \A j \in 1..(i - 1) : reg[<<ns, order[j]>>].yield # y

LEMMA FirstPlaceFacts ==
  ASSUME NEW ns, NEW order \in Seq(StepIds), NEW reg, NEW y,
         \E i \in DOMAIN order : reg[<<ns, order[i]>>].yield = y,
         NEW p, p = FirstPlace(ns, order, reg, y)
  PROVE  IsFirst(ns, order, reg, y, p)
<1> DEFINE S == {i \in DOMAIN order : reg[<<ns, order[i]>>].yield = y}
<1>1. DOMAIN order \subseteq Nat /\ DOMAIN order = 1..Len(order) /\ Len(order) \in Nat
  OBVIOUS
<1>2. S \subseteq Nat /\ S # {}
  BY <1>1
<1>3. PICK least \in S : \A n \in S : least <= n
  BY <1>2, LeastNumber
<1>4. least \in DOMAIN order /\ reg[<<ns, order[least]>>].yield = y
  BY <1>3
<1>5. ASSUME NEW j \in 1..(least - 1) PROVE reg[<<ns, order[j]>>].yield # y
  <2>1. least \in 1..Len(order) /\ Len(order) \in Nat /\ j \in 1..(least - 1)
    BY <1>1, <1>4, <1>5
  <2>2. j \in 1..Len(order) /\ ~(least <= j)
    BY ONLY <2>1
  <2>3. j \notin S
    BY <1>3, <2>2
  <2> QED BY <1>1, <2>2, <2>3
<1>6. /\ p \in DOMAIN order /\ reg[<<ns, order[p]>>].yield = y
      /\ \A j \in 1..(p - 1) : reg[<<ns, order[j]>>].yield # y
  BY <1>4, <1>5 DEF FirstPlace
<1> QED BY <1>1, <1>6 DEF IsFirst

LEMMA KeyType ==
  ASSUME TypeOK, NEW y \in YieldIds, receipts[y] # None
  PROVE  /\ receipts[y] \in Receipt /\ Key(y) \in Keys
         /\ receipts[y].ns \in Namespaces /\ receipts[y].id \in StepIds
         /\ Phase(y) = receipts[y].phase
  BY DEF TypeOK, Receipt, Key, Keys, Phase

\* A yield with a live phase has a receipt.
LEMMA LiveHasReceipt ==
  ASSUME TypeOK, NEW y \in YieldIds, Phase(y) \in Phases
  PROVE  receipts[y] # None
  BY NoneAssumption DEF Phase

\* register_step_in_namespace stores a registration and yields a receipt per call.
LEMMA RegisterType ==
  ASSUME TypeOK, NEW ns \in Namespaces, NEW plan \in Seq(Steps), CanRegister(ns, plan)
  PROVE  /\ Registered(ns, plan) \in [Keys -> RegisteredStep \union {None}]
         /\ Yielded(ns, plan) \in [YieldIds -> Receipt \union {None}]
<1>1. /\ DOMAIN plan = 1..Len(plan) /\ Len(plan) \in Nat
      /\ \A i \in DOMAIN plan : plan[i] \in Steps /\ plan[i].id \in StepIds
  BY StepFields
<1>2. /\ next_yield \in Nat /\ next_yield >= 1 /\ MaxYields \in Nat
      /\ next_yield + Len(plan) - 1 <= MaxYields
  BY BoundsAssumption DEF TypeOK, CanRegister
<1>3. ASSUME NEW i \in DOMAIN plan
      PROVE  next_yield + i - 1 \in YieldIds
  BY <1>1, <1>2 DEF YieldIds
<1>4. ASSUME NEW k \in Keys
      PROVE  Registered(ns, plan)[k] \in RegisteredStep \union {None}
  <2>1. CASE k[1] = ns /\ \E i \in DOMAIN plan : plan[i].id = k[2]
    <3> DEFINE i == CHOOSE i \in DOMAIN plan : plan[i].id = k[2]
    <3>1. i \in DOMAIN plan
      BY <2>1
    <3>2. Registered(ns, plan)[k] = [yield |-> next_yield + i - 1, call |-> plan[i]]
      BY <2>1 DEF Registered
    <3> HIDE DEF i
    <3> QED BY <3>1, <3>2, <1>1, <1>3 DEF RegisteredStep
  <2>2. CASE ~(k[1] = ns /\ \E i \in DOMAIN plan : plan[i].id = k[2])
    BY <2>2 DEF Registered, TypeOK
  <2> QED BY <2>1, <2>2
<1>5. ASSUME NEW y \in YieldIds
      PROVE  Yielded(ns, plan)[y] \in Receipt \union {None}
  <2>1. CASE y \in next_yield..(next_yield + Len(plan) - 1)
    <3>1. y - next_yield + 1 \in DOMAIN plan
      BY <2>1, <1>1, <1>2
    <3> QED BY <2>1, <3>1, <1>1 DEF Yielded, Receipt, Phases, LivePhases
  <2>2. CASE y \notin next_yield..(next_yield + Len(plan) - 1)
    BY <2>2 DEF Yielded, TypeOK
  <2> QED BY <2>1, <2>2
<1> QED BY <1>4, <1>5 DEF Registered, Yielded

\* start_sequence_release_in_namespace.
LEMMA StartReleaseType ==
  ASSUME TypeOK, NEW ns \in Namespaces, NEW order \in Seq(StepIds),
         NEW reg \in [Keys -> RegisteredStep \union {None}],
         NEW rcpts \in [YieldIds -> Receipt \union {None}],
         StartRelease(ns, order, reg, rcpts)
  PROVE  /\ registered_steps' \in [Keys -> RegisteredStep \union {None}]
         /\ receipts' \in [YieldIds -> Receipt \union {None}]
         /\ sequence_queue' \in [Namespaces -> Seq(StepIds)]
         /\ ordered' \in [YieldIds -> Place]
         /\ releases' \in 0..MaxReleases
<1>1. order # <<>> /\ Tail(order) \in Seq(StepIds) /\ Head(order) \in StepIds
      /\ DOMAIN order = 1..Len(order) /\ Len(order) \in Nat
  BY DEF StartRelease
<1> DEFINE h == reg[<<ns, Head(order)>>].yield
<1>2. h \in YieldIds /\ rcpts[h] \in Receipt
  <2>1. <<ns, Head(order)>> \in Keys
    BY <1>1 DEF Keys
  <2>2. Head(order) = order[1] /\ 1 \in DOMAIN order
    BY <1>1
  <2>3. reg[<<ns, Head(order)>>] # None
    BY <2>2 DEF StartRelease
  <2>4. reg[<<ns, Head(order)>>] \in RegisteredStep
    BY <2>1, <2>3
  <2>5. h \in YieldIds
    BY <2>4 DEF RegisteredStep
  <2> QED BY <2>5 DEF StartRelease, CanResume
<1>3. receipts' \in [YieldIds -> Receipt \union {None}]
  <2>1. receipts' = [rcpts EXCEPT ![h].phase = "resumed"]
    BY DEF StartRelease
  <2>2. [rcpts[h] EXCEPT !.phase = "resumed"] \in Receipt
    BY <1>2 DEF Receipt, Phases, LivePhases, ReleasedPhases
  <2> HIDE DEF h
  <2> QED BY <1>2, <2>1, <2>2
<1>4. sequence_queue' \in [Namespaces -> Seq(StepIds)]
  <2>1. sequence_queue' = [sequence_queue EXCEPT ![ns] = Tail(order)]
    BY DEF StartRelease
  <2>2. sequence_queue \in [Namespaces -> Seq(StepIds)]
    BY DEF TypeOK
  <2>3. Tail(order) \in Seq(StepIds)
    BY <1>1
  <2> QED BY ONLY <2>1, <2>2, <2>3
<1>5. releases' \in 0..MaxReleases /\ releases + 1 \in 0..MaxReleases
  <2>1. releases < MaxReleases /\ releases' = releases + 1
    BY DEF StartRelease
  <2>2. releases \in 0..MaxReleases /\ MaxReleases \in Nat
    BY BoundsAssumption DEF TypeOK
  <2> QED BY ONLY <2>1, <2>2
<1>6. ordered' \in [YieldIds -> Place]
  <2> SUFFICES ASSUME NEW y \in YieldIds
               PROVE  ordered'[y] \in Place
    BY DEF StartRelease
  <2>1. CASE \E i \in DOMAIN order : reg[<<ns, order[i]>>].yield = y
    <3>0. PICK p : p = FirstPlace(ns, order, reg, y)
      OBVIOUS
    <3>1. p \in Nat
      BY <2>1, <3>0, FirstPlaceFacts DEF IsFirst
    <3>2. ordered'[y] = [run |-> releases + 1, pos |-> p]
      BY <2>1, <3>0 DEF StartRelease, FirstPlace
    <3> QED BY <3>1, <3>2, <1>5 DEF Place
  <2>2. CASE ~ \E i \in DOMAIN order : reg[<<ns, order[i]>>].yield = y
    BY <2>2 DEF StartRelease, TypeOK
  <2> QED BY <2>1, <2>2
<1> QED BY <1>3, <1>4, <1>5, <1>6 DEF StartRelease

----------------------------------------------------------------------------
(* Type correctness.                                                       *)

\* The part of TypeOK that is the contract's own state.
ContractTypeOK ==
  /\ registered_steps \in [Keys -> RegisteredStep \union {None}]
  /\ sequence_queue \in [Namespaces -> Seq(StepIds)]
  /\ sequence_contexts \in [Namespaces -> [Names -> YieldIds \union {None}]]
  /\ automation_runs \in [Namespaces -> RunStatus \union {None}]
  /\ \A ns \in ManualNamespaces : automation_runs[ns] = None
  /\ balance_triggers \in [Triggers -> BalanceTrigger \union {None}]

LEMMA InitType == Init => TypeOK
  BY BoundsAssumption DEF Init, TypeOK, NoContext, Place, YieldIds, Namespaces

LEMMA MoveToType ==
  ASSUME TypeOK, NEW y \in YieldIds, receipts[y] # None, NEW phase \in Phases,
         MoveTo(y, phase)
  PROVE  receipts' \in [YieldIds -> Receipt \union {None}]
<1>1. [receipts[y] EXCEPT !.phase = phase] \in Receipt
  BY KeyType DEF Receipt
<1> QED BY <1>1 DEF MoveTo, TypeOK

LEMMA WithoutType ==
  ASSUME TypeOK, NEW key
  PROVE  Without(key) \in [Keys -> RegisteredStep \union {None}]
  BY DEF TypeOK, Without

\* finish_automation_run and the failure tail, from any well-typed map.
LEMMA FinishType ==
  ASSUME TypeOK, NEW ns \in Namespaces, NEW status \in RunStatus,
         NEW reg \in [Keys -> RegisteredStep \union {None}],
         finish_automation_run(ns, status, reg)
  PROVE  /\ registered_steps' \in [Keys -> RegisteredStep \union {None}]
         /\ automation_runs' \in [Namespaces -> RunStatus \union {None}]
         /\ \A m \in ManualNamespaces : automation_runs'[m] = None
         /\ balance_triggers' \in [Triggers -> BalanceTrigger \union {None}]
<1>1. CASE automation_runs[ns] = "InFlight"
  <2>1. ns \notin ManualNamespaces
    BY <1>1, NoneAssumption DEF TypeOK, RunStatus
  <2>2. registered_steps' \in [Keys -> RegisteredStep \union {None}]
    BY <1>1 DEF finish_automation_run, ClearedNamespace
  <2>3. /\ automation_runs' \in [Namespaces -> RunStatus \union {None}]
        /\ \A m \in ManualNamespaces : automation_runs'[m] = None
    BY <1>1, <2>1 DEF finish_automation_run, TypeOK, Namespaces
  <2>4. ASSUME NEW t \in Triggers
        PROVE  balance_triggers'[t] \in BalanceTrigger \union {None}
    <3>1. balance_triggers[t] \in BalanceTrigger \union {None}
      BY DEF TypeOK
    <3>2. balance_triggers[t] # None =>
            [balance_triggers[t] EXCEPT !.in_flight = FALSE, !.last_outcome = status]
              \in BalanceTrigger
      BY <3>1 DEF BalanceTrigger
    <3> QED BY <1>1, <3>1, <3>2 DEF finish_automation_run
  <2> QED BY <1>1, <2>2, <2>3, <2>4 DEF finish_automation_run
<1>2. CASE automation_runs[ns] # "InFlight"
  BY <1>2 DEF finish_automation_run, TypeOK
<1> QED BY <1>1, <1>2

LEMMA HaltType ==
  ASSUME TypeOK, NEW ns \in Namespaces, NEW status \in RunStatus,
         NEW reg \in [Keys -> RegisteredStep \union {None}],
         Halt(ns, status, reg)
  PROVE  ContractTypeOK'
<1>1. /\ sequence_queue' \in [Namespaces -> Seq(StepIds)]
      /\ sequence_contexts' \in [Namespaces -> [Names -> YieldIds \union {None}]]
  BY DEF Halt, TypeOK, NoContext
<1> QED BY <1>1, FinishType DEF Halt, ContractTypeOK

\* The context keeps its type when a resolution saves a result.
LEMMA ContextAfterType ==
  ASSUME TypeOK, NEW y \in YieldIds, receipts[y] # None
  PROVE  ContextAfter(y) \in [Namespaces -> [Names -> YieldIds \union {None}]]
<1>1. CASE Found(y) # None /\ Found(y).call.save # None
  <2>1. Found(y) \in RegisteredStep
    BY <1>1, KeyType DEF Found, TypeOK
  <2>2. Found(y).call.save \in Names
    BY <1>1, <2>1, StepFields DEF RegisteredStep
  <2> QED BY <1>1, <2>2, KeyType DEF ContextAfter, TypeOK
<1>2. CASE ~(Found(y) # None /\ Found(y).call.save # None)
  BY <1>2 DEF ContextAfter, TypeOK
<1> QED BY <1>1, <1>2

\* What every disjunct of Deliver leaves well-typed.
CallbackTypeOK ==
  /\ ContractTypeOK
  /\ balance \in 0..MaxBalance
  /\ receipts \in [YieldIds -> Receipt \union {None}]

LEMMA PhaseNames ==
  /\ {"waiting", "resumed", "gate", "target", "asserted_target", "check",
      "resolve_ok", "resolve_err", "ok", "err", "halted", "dropped", "aborted"}
       \subseteq Phases
  /\ {"InFlight", "Succeeded", "DownstreamFailed", "ResumeFailed"} \subseteq RunStatus
  BY DEF Phases, LivePhases, ReleasedPhases, EndPhases, RunStatus

\* A callback that only moves its chain on.
LEMMA MoveOnlyType ==
  ASSUME TypeOK, NEW y \in YieldIds, receipts[y] # None, NEW phase \in Phases,
         MoveTo(y, phase), UNCHANGED contractVars, balance' \in 0..MaxBalance
  PROVE  CallbackTypeOK'
  BY MoveToType DEF CallbackTypeOK, ContractTypeOK, TypeOK, contractVars

\* A callback that halts its run.
LEMMA MoveAndHaltType ==
  ASSUME TypeOK, NEW y \in YieldIds, receipts[y] # None, NEW phase \in Phases,
         NEW status \in RunStatus,
         MoveTo(y, phase), Halt(receipts[y].ns, status, Without(Key(y))),
         UNCHANGED balance
  PROVE  CallbackTypeOK'
<1>1. ContractTypeOK'
  BY HaltType, WithoutType, KeyType
<1> QED BY <1>1, MoveToType DEF CallbackTypeOK, TypeOK

LEMMA DispatchType ==
  ASSUME TypeOK, NEW y \in YieldIds, receipts[y] # None, Found(y) # None,
         halt_on_materialize_failure(y) \/ dispatch_promise_for_call(y)
  PROVE  CallbackTypeOK'
<1>1. CASE halt_on_materialize_failure(y)
  BY <1>1, PhaseNames, MoveAndHaltType DEF halt_on_materialize_failure
<1>2. CASE dispatch_promise_for_call(y)
  <2>1. Found(y).call \in Steps
    BY KeyType DEF Found, TypeOK, RegisteredStep
  <2>2. balance' \in 0..MaxBalance
    BY <1>2, <2>1, StepFields, BoundsAssumption DEF dispatch_promise_for_call, TypeOK
  <2>3. \E phase \in {"asserted_target", "target", "aborted"} : MoveTo(y, phase)
    BY <1>2 DEF dispatch_promise_for_call
  <2> QED BY <1>2, <2>2, <2>3, PhaseNames, MoveOnlyType DEF dispatch_promise_for_call
<1> QED BY <1>1, <1>2

LEMMA ResolvedOkType ==
  ASSUME TypeOK, NEW y \in YieldIds, on_step_resolved_ok(y)
  PROVE  CallbackTypeOK'
<1>0. Phase(y) \in Phases /\ receipts[y] # None
  BY PhaseNames, LiveHasReceipt DEF on_step_resolved_ok
<1>1. /\ receipts[y].ns \in Namespaces /\ Key(y) \in Keys
      /\ Without(Key(y)) \in [Keys -> RegisteredStep \union {None}]
      /\ "ok" \in Phases /\ "Succeeded" \in RunStatus /\ "ResumeFailed" \in RunStatus
  BY <1>0, KeyType, WithoutType, PhaseNames
<1> DEFINE ns == receipts[y].ns
           entry == Without(Key(y))[<<ns, Head(sequence_queue[ns])>>]
<1>2. CASE ReleaseNext(y)
  <2>1. CASE entry # None /\ CanResume(receipts, entry.yield)
    <3>1. sequence_queue[ns] \in Seq(StepIds) /\ sequence_queue[ns] # <<>>
      BY <1>1, <1>2 DEF ReleaseNext, TypeOK
    <3>2. <<ns, Head(sequence_queue[ns])>> \in Keys
      BY <1>1, <3>1 DEF Keys
    <3>3. entry.yield \in YieldIds
      BY <1>1, <2>1, <3>2 DEF RegisteredStep
    <3>4. receipts' = [receipts EXCEPT ![y].phase = "ok", ![entry.yield].phase = "resumed"]
      BY <1>2, <2>1 DEF ReleaseNext
    <3>5. receipts' \in [YieldIds -> Receipt \union {None}]
      <4> DEFINE mid == [receipts EXCEPT ![y].phase = "ok"]
      <4>1. mid \in [YieldIds -> Receipt \union {None}]
        <5>1. [receipts[y] EXCEPT !.phase = "ok"] \in Receipt
          BY <1>0, <1>1, KeyType DEF Receipt
        <5> QED BY <5>1 DEF TypeOK
      <4>2. mid[entry.yield] \in Receipt
        <5>1. receipts[entry.yield] \in Receipt
          BY <2>1, <3>3 DEF CanResume, TypeOK
        <5>2. [receipts[y] EXCEPT !.phase = "ok"] \in Receipt
          BY <1>0, <1>1, KeyType DEF Receipt
        <5> QED BY <3>3, <5>1, <5>2 DEF TypeOK
      <4>3. [mid[entry.yield] EXCEPT !.phase = "resumed"] \in Receipt
        BY <4>2, PhaseNames DEF Receipt
      <4>4. receipts' = [mid EXCEPT ![entry.yield].phase = "resumed"]
        BY <3>4
      <4> HIDE DEF mid, entry
      <4> QED BY <3>3, <4>1, <4>3, <4>4
    <3>6. sequence_queue' \in [Namespaces -> Seq(StepIds)]
      <4>1. Tail(sequence_queue[ns]) \in Seq(StepIds)
        BY <3>1
      <4>2. sequence_queue' = [sequence_queue EXCEPT ![ns] = Tail(@)]
        BY <1>2, <2>1 DEF ReleaseNext
      <4> QED BY <1>1, <4>1, <4>2 DEF TypeOK
    <3>7. sequence_contexts' \in [Namespaces -> [Names -> YieldIds \union {None}]]
      BY <1>0, <1>2, <2>1, ContextAfterType DEF ReleaseNext
    <3> QED BY <1>1, <1>2, <2>1, <3>5, <3>6, <3>7
            DEF ReleaseNext, CallbackTypeOK, ContractTypeOK, TypeOK, on_step_resolved_ok
  <2>2. CASE ~(entry # None /\ CanResume(receipts, entry.yield))
    <3>1. MoveTo(y, "ok") /\ Halt(ns, "ResumeFailed", Without(Key(y)))
      BY <1>2, <2>2 DEF ReleaseNext
    <3> QED BY <1>0, <1>1, <3>1, MoveAndHaltType DEF on_step_resolved_ok
  <2> QED BY <2>1, <2>2
<1>3. CASE CompleteSequence(y)
  <2>1. finish_automation_run(ns, "Succeeded", Without(Key(y)))
    BY <1>3 DEF CompleteSequence
  <2>2. receipts' \in [YieldIds -> Receipt \union {None}]
    BY <1>0, <1>1, <1>3, MoveToType DEF CompleteSequence
  <2>3. sequence_contexts' \in [Namespaces -> [Names -> YieldIds \union {None}]]
    BY <1>3 DEF CompleteSequence, TypeOK, NoContext
  <2> QED BY <1>1, <1>3, <2>1, <2>2, <2>3, FinishType
          DEF CompleteSequence, CallbackTypeOK, ContractTypeOK, TypeOK, on_step_resolved_ok
<1> QED BY <1>2, <1>3 DEF on_step_resolved_ok

LEMMA DeliverType ==
  ASSUME TypeOK, NEW y \in YieldIds, Deliver(y)
  PROVE  TypeOK'
<1> USE PhaseNames
<1>0. Phase(y) \in Phases => receipts[y] # None
  BY LiveHasReceipt
<1>b. balance \in 0..MaxBalance
  BY DEF TypeOK
<1>s. SUFFICES CallbackTypeOK'
  BY DEF Deliver, TypeOK, CallbackTypeOK, ContractTypeOK, historyVars
<1>1. CASE on_step_resumed(y)
  <2>1. CASE on_step_resumed_ok(y)
    <3>1. receipts[y] # None /\ Found(y) # None
      BY <2>1, <1>0 DEF on_step_resumed_ok
    <3>2. CASE Found(y).call.gated
      <4>1. \E phase \in {"gate", "aborted"} : MoveTo(y, phase)
        BY <2>1, <3>2 DEF on_step_resumed_ok
      <4> QED BY <2>1, <3>1, <3>2, <4>1, <1>b, MoveOnlyType DEF on_step_resumed_ok
    <3>3. CASE ~Found(y).call.gated
      BY <2>1, <3>1, <3>3, DispatchType DEF on_step_resumed_ok
    <3> QED BY <3>2, <3>3
  <2>2. CASE on_step_resumed_err(y)
    <3>1. receipts[y] # None
      BY <2>2, <1>0 DEF on_step_resumed_err
    <3> QED BY <2>2, <3>1, MoveAndHaltType DEF on_step_resumed_err
  <2>3. CASE Phase(y) \in {"waiting", "resumed"} /\ WakesUpLate(y)
    BY <2>3, <1>0, <1>b, MoveOnlyType DEF WakesUpLate
  <2> QED BY <1>1, <2>1, <2>2, <2>3 DEF on_step_resumed
<1>2. CASE on_pre_gate_checked(y)
  <2>0. receipts[y] # None
    BY <1>2, <1>0 DEF on_pre_gate_checked
  <2>1. CASE WakesUpLate(y)
    BY <2>1, <2>0, <1>b, MoveOnlyType DEF WakesUpLate
  <2>2. CASE on_pre_gate_checked_ungated(y)
    BY <2>2, <2>0, <1>b, MoveOnlyType DEF on_pre_gate_checked_ungated
  <2>3. CASE on_pre_gate_checked_in_range(y)
    BY <2>3, <2>0, DispatchType DEF on_pre_gate_checked_in_range
  <2>4. CASE halt_sequence_on_pre_gate_failure(y)
    BY <2>4, <2>0, MoveAndHaltType DEF halt_sequence_on_pre_gate_failure
  <2> QED BY <1>2, <2>1, <2>2, <2>3, <2>4 DEF on_pre_gate_checked
<1>3. ASSUME NEW ok \in BOOLEAN,
             \/ TargetReturns(y, ok)
             \/ on_asserted_run_postcheck(y, ok)
             \/ on_asserted_evaluate_postcheck(y, ok)
      PROVE  CallbackTypeOK'
  <2>1. receipts[y] # None
    BY <1>3, <1>0 DEF TargetReturns, on_asserted_run_postcheck,
                      on_asserted_evaluate_postcheck
  <2>2. \E phase \in {"resolve_ok", "resolve_err", "check"} : MoveTo(y, phase)
    BY <1>3 DEF TargetReturns, on_asserted_run_postcheck, on_asserted_evaluate_postcheck
  <2>3. UNCHANGED contractVars /\ UNCHANGED balance
    BY <1>3 DEF TargetReturns, on_asserted_run_postcheck, on_asserted_evaluate_postcheck
  <2> QED BY <2>1, <2>2, <2>3, <1>b, MoveOnlyType
<1>4. CASE on_step_resolved_ok(y)
  BY <1>4, ResolvedOkType
<1>5. CASE on_step_resolved_err(y)
  <2>1. receipts[y] # None
    BY <1>5, <1>0 DEF on_step_resolved_err
  <2> QED BY <1>5, <2>1, MoveAndHaltType DEF on_step_resolved_err
<1> QED BY <1>1, <1>2, <1>3, <1>4, <1>5 DEF Deliver

LEMMA TypeStep == TypeOK /\ [Next]_vars => TypeOK'
<1> SUFFICES ASSUME TypeOK, [Next]_vars PROVE TypeOK'
  OBVIOUS
<1> USE BoundsAssumption DEF historyVars, contractVars
<1>1. ASSUME NEW account \in Delegates \union {None}, set_authorized_executor(account)
      PROVE  TypeOK'
  BY <1>1 DEF set_authorized_executor, TypeOK
<1>2. ASSUME NEW caller \in Callers, NEW step \in Steps, register_step(caller, step)
      PROVE  TypeOK'
  <2>1. /\ <<step>> \in Seq(Steps) /\ Len(<<step>>) = 1
        /\ manual_namespace(caller) \in Namespaces
    BY DEF Namespaces, ManualNamespaces
  <2>2. next_yield' \in 1..(MaxYields + 1)
    BY <1>2, <2>1 DEF register_step, CanRegister, TypeOK
  <2>3. CanRegister(manual_namespace(caller), <<step>>)
    BY <1>2 DEF register_step
  <2> QED BY <1>2, <2>1, <2>2, <2>3, RegisterType DEF register_step, TypeOK
<1>3. ASSUME NEW caller \in Callers, NEW plan \in Plans, execute_steps(caller, plan)
      PROVE  TypeOK'
  <2> DEFINE ns == manual_namespace(caller)
  <2>1. ns \in Namespaces /\ plan \in Seq(Steps) /\ Len(plan) \in Nat /\ Len(plan) > 0
        /\ IdsOf(plan) \in Seq(StepIds)
    BY PlanFacts, IdsOfType DEF Namespaces, ManualNamespaces
  <2>2. /\ CanRegister(ns, plan)
        /\ StartRelease(ns, IdsOf(plan), Registered(ns, plan), Yielded(ns, plan))
    BY <1>3 DEF execute_steps
  <2>3. next_yield' \in 1..(MaxYields + 1)
    BY <1>3, <2>1, <2>2 DEF execute_steps, CanRegister, TypeOK
  <2>4. /\ Registered(ns, plan) \in [Keys -> RegisteredStep \union {None}]
        /\ Yielded(ns, plan) \in [YieldIds -> Receipt \union {None}]
    BY <2>1, <2>2, RegisterType
  <2> HIDE DEF ns
  <2>5. /\ registered_steps' \in [Keys -> RegisteredStep \union {None}]
        /\ receipts' \in [YieldIds -> Receipt \union {None}]
        /\ sequence_queue' \in [Namespaces -> Seq(StepIds)]
        /\ ordered' \in [YieldIds -> Place]
        /\ releases' \in 0..MaxReleases
    BY <2>1, <2>2, <2>4, StartReleaseType
  <2> QED BY <1>3, <2>3, <2>5 DEF execute_steps, TypeOK
<1>4. ASSUME NEW who \in Accounts, NEW caller \in Callers, NEW order \in Orders,
             run_sequence(who, caller, order)
      PROVE  TypeOK'
  <2>1. manual_namespace(caller) \in Namespaces /\ order \in Seq(StepIds)
    BY PlansAssumption DEF Namespaces, ManualNamespaces
  <2>2. StartRelease(manual_namespace(caller), order, registered_steps, receipts)
    BY <1>4 DEF run_sequence
  <2>3. /\ registered_steps' \in [Keys -> RegisteredStep \union {None}]
        /\ receipts' \in [YieldIds -> Receipt \union {None}]
        /\ sequence_queue' \in [Namespaces -> Seq(StepIds)]
        /\ ordered' \in [YieldIds -> Place]
        /\ releases' \in 0..MaxReleases
    BY <2>1, <2>2, StartReleaseType DEF TypeOK
  <2> QED BY <1>4, <2>3 DEF run_sequence, TypeOK
<1>5. ASSUME NEW y \in YieldIds, Deliver(y) PROVE TypeOK'
  BY <1>5, DeliverType
<1>6. ASSUME NEW amount \in 1..MaxBalance, Credit(amount) PROVE TypeOK'
  <2>1. balance' \in 0..MaxBalance
    BY <1>6 DEF Credit, TypeOK
  <2> QED BY <1>6, <2>1 DEF Credit, TypeOK
<1>7. CASE UNCHANGED vars
  BY <1>7 DEF vars, TypeOK
<1> QED BY <1>1, <1>2, <1>3, <1>4, <1>5, <1>6, <1>7 DEF Next, Manual, Runtime

\* Every variable keeps its type; in particular no manual namespace ever gets a
\* run row, and no callback saves anything but the result of a yield.
THEOREM TypeCorrect == Spec => []TypeOK
  BY InitType, TypeStep, PTL DEF Spec

----------------------------------------------------------------------------
(* A callback of a manual run finds its own registration.                  *)

\* A live chain always has its registration under its key.  Stronger than
\* CallbackFindsOwnStep: were the key of a live chain ever free, it could be
\* taken by another yield.
LiveRegistered ==
  \A y \in YieldIds : Live(y) => Found(y) # None /\ Found(y).yield = y

\* Without triggers every chain belongs to a manual namespace.
OnlyManual ==
  \A y \in YieldIds : receipts[y] # None => receipts[y].ns \in ManualNamespaces

ChainInv == TypeOK /\ OnlyManual /\ LiveRegistered

LEMMA ChainInvInit == Init => ChainInv
<1> SUFFICES ASSUME Init PROVE ChainInv
  OBVIOUS
<1>1. TypeOK
  BY InitType
<1>2. OnlyManual
  BY DEF Init, OnlyManual
<1>3. LiveRegistered
  BY NoneAssumption DEF Init, LiveRegistered, Live, Phase, Phases
<1> QED BY <1>1, <1>2, <1>3 DEF ChainInv

\* Moving one chain on touches neither its key nor any other chain.
LEMMA MoveFacts ==
  ASSUME TypeOK, NEW y \in YieldIds, receipts[y] # None, NEW phase \in Phases,
         MoveTo(y, phase)
  PROVE  /\ Phase(y)' = phase /\ receipts'[y] # None
         /\ \A z \in YieldIds : z # y => Phase(z)' = Phase(z)
         /\ \A z \in YieldIds : receipts[z] # None =>
              Key(z)' = Key(z) /\ receipts'[z].ns = receipts[z].ns
         /\ \A z \in YieldIds : receipts'[z] # None => receipts[z] # None
<1>1. receipts[y] \in Receipt /\ [receipts[y] EXCEPT !.phase = phase] \in Receipt
  BY KeyType DEF Receipt
<1>2. receipts' = [receipts EXCEPT ![y] = [receipts[y] EXCEPT !.phase = phase]]
  BY DEF MoveTo, TypeOK
<1>3. receipts'[y] = [receipts[y] EXCEPT !.phase = phase] /\ receipts'[y] # None
  BY <1>1, <1>2, NoneAssumption DEF TypeOK
<1>4. /\ receipts'[y].phase = phase /\ receipts'[y].ns = receipts[y].ns
      /\ receipts'[y].id = receipts[y].id
  BY <1>1, <1>3 DEF Receipt
<1>5. \A z \in YieldIds : z # y => receipts'[z] = receipts[z]
  BY <1>2 DEF TypeOK
<1> QED BY <1>3, <1>4, <1>5 DEF Phase, Key

LEMMA OnlyManualKept ==
  ASSUME TypeOK, OnlyManual, NEW y \in YieldIds, receipts[y] # None,
         NEW phase \in Phases, MoveTo(y, phase)
  PROVE  OnlyManual'
  BY MoveFacts DEF OnlyManual

\* The chain moves on and the registrations stay, or it ends and its own
\* registration goes.
LEMMA MoveKeepsLive ==
  ASSUME ChainInv, NEW y \in YieldIds, Live(y), receipts[y] # None,
         NEW phase \in Phases, MoveTo(y, phase),
         \/ registered_steps' = registered_steps
         \/ phase \notin LivePhases /\ registered_steps' = Without(Key(y))
  PROVE  LiveRegistered' /\ OnlyManual'
<1>1. SUFFICES ASSUME NEW z \in YieldIds, Live(z)'
               PROVE  Found(z)' # None /\ Found(z)'.yield = z
  BY OnlyManualKept DEF LiveRegistered, ChainInv
<1>2. TypeOK /\ LiveRegistered
  BY DEF ChainInv
<1>3. Live(z)
  BY <1>1, <1>2, MoveFacts DEF Live
<1>4. receipts[z] # None /\ Key(z) \in Keys /\ Key(z)' = Key(z)
  BY <1>2, <1>3, KeyType, LiveHasReceipt, MoveFacts DEF Live, Phases
<1>5. Found(z) # None /\ Found(z).yield = z /\ Found(y).yield = y
  BY <1>2, <1>3 DEF LiveRegistered
<1>6. CASE registered_steps' = registered_steps
  BY <1>4, <1>5, <1>6 DEF Found
<1>7. CASE phase \notin LivePhases /\ registered_steps' = Without(Key(y))
  <2>1. z # y
    BY <1>1, <1>2, <1>7, MoveFacts DEF Live
  <2>2. Key(z) # Key(y)
    BY <1>5, <2>1 DEF Found
  <2>3. registered_steps'[Key(z)] = registered_steps[Key(z)]
    BY <1>2, <1>4, <1>7, <2>2 DEF Without, TypeOK
  <2> QED BY <1>4, <1>5, <2>3 DEF Found
<1> QED BY <1>6, <1>7

\* In a manual namespace no run is finished: finish_automation_run does nothing.
LEMMA ManualFinish ==
  ASSUME ChainInv, NEW y \in YieldIds, receipts[y] # None, NEW status, NEW reg,
         finish_automation_run(receipts[y].ns, status, reg)
  PROVE  registered_steps' = reg
<1>1. automation_runs[receipts[y].ns] # "InFlight"
  BY NoneAssumption DEF ChainInv, OnlyManual, TypeOK, RunStatus
<1> QED BY <1>1 DEF finish_automation_run

LEMMA EndKeepsLive ==
  ASSUME ChainInv, NEW y \in YieldIds, Live(y), receipts[y] # None,
         NEW phase \in EndPhases, NEW status,
         MoveTo(y, phase), Halt(receipts[y].ns, status, Without(Key(y)))
  PROVE  LiveRegistered' /\ OnlyManual'
<1>1. registered_steps' = Without(Key(y))
  BY ManualFinish DEF Halt
<1>2. phase \in Phases /\ phase \notin LivePhases
  BY DEF Phases, EndPhases, LivePhases, ReleasedPhases
<1> QED BY <1>1, <1>2, MoveKeepsLive

\* LiveRegistered over given maps.
LiveIn(reg, rcpts) ==
  \A y \in YieldIds :
    rcpts[y] # None /\ rcpts[y].phase \in LivePhases
      => LET entry == reg[<<rcpts[y].ns, rcpts[y].id>>]
         IN  entry # None /\ entry.yield = y

LEMMA LiveInNow == ChainInv => LiveIn(registered_steps, receipts)
  BY NoneAssumption DEF ChainInv, LiveIn, LiveRegistered, Live, Phase, Found, Key

LEMMA LiveInNext ==
  LiveIn(registered_steps, receipts)' => LiveRegistered'
  BY NoneAssumption DEF LiveIn, LiveRegistered, Live, Phase, Found, Key, Phases

\* Registering takes free keys only, so that no chain loses its registration,
\* and no key twice, so that every new chain gets its own.
LEMMA RegisterKeepsLive ==
  ASSUME ChainInv, NEW ns \in ManualNamespaces, NEW plan \in Seq(Steps),
         DistinctIds(plan), CanRegister(ns, plan)
  PROVE  /\ LiveIn(Registered(ns, plan), Yielded(ns, plan))
         /\ \A y \in YieldIds : Yielded(ns, plan)[y] # None
              => Yielded(ns, plan)[y].ns \in ManualNamespaces
<1>1. /\ DOMAIN plan = 1..Len(plan) /\ Len(plan) \in Nat
      /\ \A i \in DOMAIN plan : plan[i] \in Steps /\ plan[i].id \in StepIds
  BY StepFields
<1>2. /\ TypeOK /\ LiveIn(registered_steps, receipts) /\ ns \in Namespaces
      /\ next_yield \in Nat /\ MaxYields \in Nat
  BY LiveInNow, BoundsAssumption DEF ChainInv, TypeOK, Namespaces
<1>3. ASSUME NEW y \in YieldIds, y \notin next_yield..(next_yield + Len(plan) - 1)
      PROVE  Yielded(ns, plan)[y] = receipts[y]
  BY <1>3 DEF Yielded
<1>4. ASSUME NEW y \in YieldIds, y \in next_yield..(next_yield + Len(plan) - 1)
      PROVE  LET i == y - next_yield + 1
             IN  /\ i \in DOMAIN plan /\ next_yield + i - 1 = y
                 /\ Yielded(ns, plan)[y] = [ns |-> ns, id |-> plan[i].id, phase |-> "waiting"]
  BY <1>1, <1>2, <1>4 DEF Yielded, YieldIds
<1>5. ASSUME NEW i \in DOMAIN plan
      PROVE  Registered(ns, plan)[<<ns, plan[i].id>>]
               = [yield |-> next_yield + i - 1, call |-> plan[i]]
  <2>1. <<ns, plan[i].id>> \in Keys
    BY <1>1, <1>2 DEF Keys
  <2>2. (CHOOSE j \in DOMAIN plan : plan[j].id = plan[i].id) = i
    BY DEF DistinctIds
  <2> QED BY <2>1, <2>2 DEF Registered
<1>6. ASSUME NEW k \in Keys, registered_steps[k] # None
      PROVE  Registered(ns, plan)[k] = registered_steps[k]
  <2>1. ~(k[1] = ns /\ \E i \in DOMAIN plan : plan[i].id = k[2])
    <3> SUFFICES ASSUME k[1] = ns, NEW i \in DOMAIN plan, plan[i].id = k[2] PROVE FALSE
      OBVIOUS
    <3>1. k = <<ns, plan[i].id>>
      BY DEF Keys
    <3> QED BY <1>6, <3>1 DEF CanRegister
  <2> QED BY <2>1 DEF Registered
<1>7. LiveIn(Registered(ns, plan), Yielded(ns, plan))
  <2> DEFINE R == Registered(ns, plan)
             Y == Yielded(ns, plan)
  <2>1. ASSUME NEW y \in YieldIds, Y[y] # None, Y[y].phase \in LivePhases
        PROVE  R[<<Y[y].ns, Y[y].id>>] # None /\ R[<<Y[y].ns, Y[y].id>>].yield = y
    <3>1. CASE y \in next_yield..(next_yield + Len(plan) - 1)
      <4> DEFINE i == y - next_yield + 1
      <4>1. /\ i \in DOMAIN plan /\ next_yield + i - 1 = y
            /\ Y[y] = [ns |-> ns, id |-> plan[i].id, phase |-> "waiting"]
        BY <1>4, <3>1
      <4> HIDE DEF i, Y, R
      <4>2. Y[y].ns = ns /\ Y[y].id = plan[i].id
        BY <4>1
      <4>3. R[<<ns, plan[i].id>>] = [yield |-> y, call |-> plan[i]]
        BY <1>5, <4>1 DEF R
      <4>4. [yield |-> y, call |-> plan[i]] \in RegisteredStep
        BY <1>1, <4>1 DEF RegisteredStep
      <4> QED BY <4>2, <4>3, <4>4, NoneAssumption
    <3>2. CASE y \notin next_yield..(next_yield + Len(plan) - 1)
      <4>1. Y[y] = receipts[y]
        BY <1>3, <3>2
      <4>2. Key(y) \in Keys /\ Key(y) = <<Y[y].ns, Y[y].id>>
        BY <1>2, <2>1, <4>1, KeyType DEF Key
      <4>3. registered_steps[Key(y)] # None /\ registered_steps[Key(y)].yield = y
        BY <1>2, <2>1, <4>1 DEF LiveIn, Key
      <4> QED BY <1>6, <4>2, <4>3
    <3> QED BY <3>1, <3>2
  <2> QED BY <2>1 DEF LiveIn
<1>8. ASSUME NEW y \in YieldIds, Yielded(ns, plan)[y] # None
      PROVE  Yielded(ns, plan)[y].ns \in ManualNamespaces
  <2>1. CASE y \in next_yield..(next_yield + Len(plan) - 1)
    <3> DEFINE i == y - next_yield + 1
    <3>1. Yielded(ns, plan)[y] = [ns |-> ns, id |-> plan[i].id, phase |-> "waiting"]
      BY <1>4, <2>1
    <3> HIDE DEF i
    <3> QED BY <3>1
  <2>2. CASE y \notin next_yield..(next_yield + Len(plan) - 1)
    BY <1>3, <1>8, <2>2 DEF ChainInv, OnlyManual
  <2> QED BY <2>1, <2>2
<1> QED BY <1>7, <1>8

\* Starting a release only resumes a chain that is alive.
LEMMA StartKeepsLive ==
  ASSUME NEW ns \in Namespaces, NEW order \in Seq(StepIds),
         NEW reg \in [Keys -> RegisteredStep \union {None}],
         NEW rcpts \in [YieldIds -> Receipt \union {None}],
         LiveIn(reg, rcpts), StartRelease(ns, order, reg, rcpts),
         \A y \in YieldIds : rcpts[y] # None => rcpts[y].ns \in ManualNamespaces
  PROVE  LiveRegistered' /\ OnlyManual'
<1> DEFINE h == reg[<<ns, Head(order)>>].yield
<1>1. /\ registered_steps' = reg
      /\ receipts' = [rcpts EXCEPT ![h].phase = "resumed"]
      /\ rcpts[h] # None /\ rcpts[h].phase \in LivePhases
  BY DEF StartRelease, CanResume, LivePhases, ReleasedPhases
<1> HIDE DEF h
<1>2. ASSUME NEW y \in YieldIds, receipts'[y] # None, receipts'[y].phase \in LivePhases
      PROVE  /\ rcpts[y] # None /\ rcpts[y].phase \in LivePhases
             /\ receipts'[y].ns = rcpts[y].ns /\ receipts'[y].id = rcpts[y].id
  <2>1. CASE y = h
    BY <1>1, <2>1 DEF Receipt
  <2>2. CASE y # h
    BY <1>1, <1>2, <2>2
  <2> QED BY <2>1, <2>2
<1>3. LiveIn(registered_steps, receipts)'
  BY <1>1, <1>2 DEF LiveIn
<1>4. OnlyManual'
  <2>1. ASSUME NEW y \in YieldIds, receipts'[y] # None
        PROVE  rcpts[y] # None /\ receipts'[y].ns = rcpts[y].ns
    <3>1. CASE y = h
      BY <1>1, <3>1 DEF Receipt
    <3>2. CASE y # h
      BY <1>1, <2>1, <3>2
    <3> QED BY <3>1, <3>2
  <2> QED BY <2>1 DEF OnlyManual
<1> QED BY <1>3, <1>4, LiveInNext

\* Releasing the next step ends one chain and resumes another live one.
LEMMA ReleaseKeepsLive ==
  ASSUME ChainInv, NEW y \in YieldIds, Phase(y) = "resolve_ok", ReleaseNext(y)
  PROVE  LiveRegistered' /\ OnlyManual'
<1> DEFINE ns == receipts[y].ns
           reg == Without(Key(y))
           entry == reg[<<ns, Head(sequence_queue[ns])>>]
<1>0. /\ TypeOK /\ Live(y) /\ receipts[y] # None /\ ns \in Namespaces
      /\ receipts[y] \in Receipt
  BY PhaseNames, LiveHasReceipt, KeyType
     DEF ChainInv, Live, LivePhases, ReleasedPhases
<1>1. CASE entry # None /\ CanResume(receipts, entry.yield)
  <2> DEFINE h == entry.yield
  <2>1. /\ registered_steps' = reg
        /\ receipts' = [receipts EXCEPT ![y].phase = "ok", ![h].phase = "resumed"]
        /\ receipts[h] # None /\ receipts[h].phase \in {"waiting", "resumed"}
    BY <1>1 DEF ReleaseNext, CanResume
  <2>2. receipts[y].phase = "resolve_ok"
    BY <1>0, KeyType
  <2>3. h # y
    BY <2>1, <2>2
  <2> HIDE DEF h, entry
  <2>4. ASSUME NEW z \in YieldIds, z # y
        PROVE  /\ receipts'[z] # None => receipts[z] # None
               /\ receipts[z] # None =>
                    receipts'[z].ns = receipts[z].ns /\ receipts'[z].id = receipts[z].id
               /\ receipts'[z] # None /\ receipts'[z].phase \in LivePhases
                    => receipts[z].phase \in LivePhases
    <3>1. CASE z = h
      <4>1. receipts[z] \in Receipt /\ receipts'[z] = [receipts[z] EXCEPT !.phase = "resumed"]
        BY <1>0, <2>1, <2>4, <3>1 DEF TypeOK
      <4> QED BY <2>1, <3>1, <4>1 DEF Receipt, LivePhases, ReleasedPhases
    <3>2. CASE z # h
      <4>1. receipts'[z] = receipts[z]
        BY <1>0, <2>1, <2>4, <3>2 DEF TypeOK
      <4> QED BY <4>1
    <3> QED BY <3>1, <3>2
  <2>5. receipts'[y] = [receipts[y] EXCEPT !.phase = "ok"]
    BY <1>0, <2>1, <2>3 DEF TypeOK
  <2>6. receipts'[y].phase = "ok" /\ receipts'[y].ns = receipts[y].ns
    BY <1>0, <2>5 DEF Receipt
  <2>7. ASSUME NEW z \in YieldIds, receipts'[z] # None, receipts'[z].phase \in LivePhases
        PROVE  /\ reg[<<receipts'[z].ns, receipts'[z].id>>] # None
               /\ reg[<<receipts'[z].ns, receipts'[z].id>>].yield = z
    <3>1. z # y
      BY <2>6, <2>7 DEF LivePhases, ReleasedPhases
    <3>2. /\ receipts[z] # None /\ receipts[z].phase \in LivePhases
          /\ Key(z) = <<receipts'[z].ns, receipts'[z].id>>
      BY <2>4, <2>7, <3>1 DEF Key
    <3>3. Found(z) # None /\ Found(z).yield = z /\ Found(y).yield = y /\ Key(z) \in Keys
      BY <1>0, <3>2, KeyType DEF ChainInv, LiveRegistered, Live
    <3>4. Key(z) # Key(y)
      BY <3>1, <3>3 DEF Found
    <3>5. reg[Key(z)] = registered_steps[Key(z)]
      BY <1>0, <3>3, <3>4 DEF Without, TypeOK
    <3> QED BY <3>2, <3>3, <3>5 DEF Found
  <2>8. LiveIn(registered_steps, receipts)'
    BY <2>1, <2>7 DEF LiveIn
  <2>9. OnlyManual'
    <3> SUFFICES ASSUME NEW z \in YieldIds, receipts'[z] # None
                 PROVE  receipts'[z].ns \in ManualNamespaces
      BY DEF OnlyManual
    <3>1. CASE z = y
      BY <1>0, <2>6, <3>1 DEF ChainInv, OnlyManual
    <3>2. CASE z # y
      BY <2>4, <3>2 DEF ChainInv, OnlyManual
    <3> QED BY <3>1, <3>2
  <2> QED BY <2>8, <2>9, LiveInNext
<1>2. CASE ~(entry # None /\ CanResume(receipts, entry.yield))
  <2>1. MoveTo(y, "ok") /\ Halt(ns, "ResumeFailed", reg)
    BY <1>2 DEF ReleaseNext
  <2> QED BY <1>0, <2>1, EndKeepsLive DEF EndPhases
<1> QED BY <1>1, <1>2

LEMMA DispatchKeepsLive ==
  ASSUME ChainInv, NEW y \in YieldIds, Live(y), receipts[y] # None,
         halt_on_materialize_failure(y) \/ dispatch_promise_for_call(y)
  PROVE  LiveRegistered' /\ OnlyManual'
<1>1. CASE halt_on_materialize_failure(y)
  BY <1>1, EndKeepsLive DEF halt_on_materialize_failure, EndPhases
<1>2. CASE dispatch_promise_for_call(y)
  <2>1. \E phase \in {"asserted_target", "target", "aborted"} : MoveTo(y, phase)
    BY <1>2 DEF dispatch_promise_for_call
  <2>2. registered_steps' = registered_steps
    BY <1>2 DEF dispatch_promise_for_call, contractVars
  <2> QED BY <2>1, <2>2, PhaseNames, MoveKeepsLive
<1> QED BY <1>1, <1>2

LEMMA DeliverKeepsLive ==
  ASSUME ChainInv, NEW y \in YieldIds, Deliver(y)
  PROVE  LiveRegistered' /\ OnlyManual'
<1>0. ASSUME Phase(y) \in LivePhases
      PROVE  /\ Live(y) /\ receipts[y] # None
             /\ Found(y) # None
  BY <1>0, LiveHasReceipt DEF ChainInv, LiveRegistered, Live, Phases
<1>l. LivePhases = {"waiting", "resumed", "gate", "target", "asserted_target",
                    "check", "resolve_ok", "resolve_err"}
  BY DEF LivePhases, ReleasedPhases
<1>1. CASE on_step_resumed(y)
  <2>1. CASE on_step_resumed_ok(y)
    <3>1. Live(y) /\ receipts[y] # None
      BY <2>1, <1>0, <1>l DEF on_step_resumed_ok
    <3>2. CASE Found(y).call.gated
      <4>1. /\ \E phase \in {"gate", "aborted"} : MoveTo(y, phase)
            /\ registered_steps' = registered_steps
        BY <2>1, <3>2 DEF on_step_resumed_ok, contractVars
      <4> QED BY <3>1, <4>1, PhaseNames, MoveKeepsLive
    <3>3. CASE ~Found(y).call.gated
      BY <2>1, <3>1, <3>3, DispatchKeepsLive DEF on_step_resumed_ok
    <3> QED BY <3>2, <3>3
  <2>2. CASE on_step_resumed_err(y)
    BY <2>2, <1>0, <1>l, EndKeepsLive DEF on_step_resumed_err, EndPhases
  <2>3. CASE Phase(y) \in {"waiting", "resumed"} /\ WakesUpLate(y)
    BY <2>3, <1>0, <1>l DEF WakesUpLate
  <2> QED BY <1>1, <2>1, <2>2, <2>3 DEF on_step_resumed
<1>2. CASE on_pre_gate_checked(y)
  <2>0. Live(y) /\ receipts[y] # None /\ Found(y) # None
    BY <1>2, <1>0, <1>l DEF on_pre_gate_checked
  <2>1. CASE WakesUpLate(y)
    BY <2>1, <2>0 DEF WakesUpLate
  <2>2. CASE on_pre_gate_checked_ungated(y)
    BY <2>2, <2>0, PhaseNames, MoveKeepsLive DEF on_pre_gate_checked_ungated, contractVars
  <2>3. CASE on_pre_gate_checked_in_range(y)
    BY <2>3, <2>0, DispatchKeepsLive DEF on_pre_gate_checked_in_range
  <2>4. CASE halt_sequence_on_pre_gate_failure(y)
    BY <2>4, <2>0, EndKeepsLive DEF halt_sequence_on_pre_gate_failure, EndPhases
  <2> QED BY <1>2, <2>1, <2>2, <2>3, <2>4 DEF on_pre_gate_checked
<1>3. ASSUME NEW ok \in BOOLEAN,
             \/ TargetReturns(y, ok)
             \/ on_asserted_run_postcheck(y, ok)
             \/ on_asserted_evaluate_postcheck(y, ok)
      PROVE  LiveRegistered' /\ OnlyManual'
  <2>1. Live(y) /\ receipts[y] # None
    BY <1>3, <1>0, <1>l DEF TargetReturns, on_asserted_run_postcheck,
                            on_asserted_evaluate_postcheck
  <2>2. \E phase \in {"resolve_ok", "resolve_err", "check"} : MoveTo(y, phase)
    BY <1>3 DEF TargetReturns, on_asserted_run_postcheck, on_asserted_evaluate_postcheck
  <2>3. registered_steps' = registered_steps
    BY <1>3 DEF TargetReturns, on_asserted_run_postcheck,
                on_asserted_evaluate_postcheck, contractVars
  <2> QED BY <2>1, <2>2, <2>3, PhaseNames, MoveKeepsLive
<1>4. CASE on_step_resolved_ok(y)
  <2>0. Live(y) /\ receipts[y] # None /\ Phase(y) = "resolve_ok"
    BY <1>4, <1>0, <1>l DEF on_step_resolved_ok
  <2>1. CASE ReleaseNext(y)
    BY <2>0, <2>1, ReleaseKeepsLive
  <2>2. CASE CompleteSequence(y)
    <3>1. registered_steps' = Without(Key(y)) /\ MoveTo(y, "ok")
      BY <2>0, <2>2, ManualFinish DEF CompleteSequence
    <3> QED BY <2>0, <3>1, <1>l, PhaseNames, MoveKeepsLive
  <2> QED BY <1>4, <2>1, <2>2 DEF on_step_resolved_ok
<1>5. CASE on_step_resolved_err(y)
  BY <1>5, <1>0, <1>l, EndKeepsLive DEF on_step_resolved_err, EndPhases
<1> QED BY <1>1, <1>2, <1>3, <1>4, <1>5 DEF Deliver

LEMMA ChainInvStep == ChainInv /\ [Next]_vars => ChainInv'
<1> SUFFICES ASSUME ChainInv, [Next]_vars PROVE LiveRegistered' /\ OnlyManual'
  BY TypeStep DEF ChainInv
<1>0. TypeOK /\ LiveIn(registered_steps, receipts)
  BY LiveInNow DEF ChainInv
<1>a. ASSUME UNCHANGED <<registered_steps, receipts>>
      PROVE  LiveRegistered' /\ OnlyManual'
  <2>1. OnlyManual'
    BY <1>a DEF ChainInv, OnlyManual
  <2>2. ASSUME NEW y \in YieldIds
        PROVE  (Live(y)' <=> Live(y)) /\ Found(y)' = Found(y)
    BY ONLY <1>a DEF Live, Phase, Found, Key
  <2>3. LiveRegistered
    BY DEF ChainInv
  <2> QED BY ONLY <2>1, <2>2, <2>3 DEF LiveRegistered
<1>1. ASSUME NEW account \in Delegates \union {None}, set_authorized_executor(account)
      PROVE  LiveRegistered' /\ OnlyManual'
  BY <1>1, <1>a DEF set_authorized_executor, contractVars
<1>2. ASSUME NEW caller \in Callers, NEW step \in Steps, register_step(caller, step)
      PROVE  LiveRegistered' /\ OnlyManual'
  <2> DEFINE ns == manual_namespace(caller)
  <2>1. /\ <<step>> \in Seq(Steps) /\ DistinctIds(<<step>>) /\ ns \in ManualNamespaces
        /\ CanRegister(ns, <<step>>)
    BY <1>2 DEF register_step, DistinctIds, ManualNamespaces
  <2>2. registered_steps' = Registered(ns, <<step>>) /\ receipts' = Yielded(ns, <<step>>)
    BY <1>2 DEF register_step
  <2> HIDE DEF ns
  <2>3. /\ LiveIn(Registered(ns, <<step>>), Yielded(ns, <<step>>))
        /\ \A y \in YieldIds : Yielded(ns, <<step>>)[y] # None
             => Yielded(ns, <<step>>)[y].ns \in ManualNamespaces
    BY <2>1, RegisterKeepsLive
  <2>4. LiveIn(registered_steps, receipts)'
    BY ONLY <2>2, <2>3 DEF LiveIn
  <2>5. OnlyManual'
    BY ONLY <2>2, <2>3 DEF OnlyManual
  <2> QED BY <2>4, <2>5, LiveInNext
<1>3. ASSUME NEW caller \in Callers, NEW plan \in Plans, execute_steps(caller, plan)
      PROVE  LiveRegistered' /\ OnlyManual'
  <2> DEFINE ns == manual_namespace(caller)
  <2>1. /\ ns \in ManualNamespaces /\ ns \in Namespaces /\ plan \in Seq(Steps)
        /\ DistinctIds(plan) /\ IdsOf(plan) \in Seq(StepIds)
    BY PlanFacts, IdsOfType DEF Namespaces, ManualNamespaces
  <2>2. /\ CanRegister(ns, plan)
        /\ StartRelease(ns, IdsOf(plan), Registered(ns, plan), Yielded(ns, plan))
    BY <1>3 DEF execute_steps
  <2> HIDE DEF ns
  <2> QED BY <1>0, <2>1, <2>2, RegisterType, RegisterKeepsLive, StartKeepsLive
<1>4. ASSUME NEW who \in Accounts, NEW caller \in Callers, NEW order \in Orders,
             run_sequence(who, caller, order)
      PROVE  LiveRegistered' /\ OnlyManual'
  <2>1. manual_namespace(caller) \in Namespaces /\ order \in Seq(StepIds)
    BY PlansAssumption DEF Namespaces, ManualNamespaces
  <2>2. StartRelease(manual_namespace(caller), order, registered_steps, receipts)
    BY <1>4 DEF run_sequence
  <2>3. /\ registered_steps \in [Keys -> RegisteredStep \union {None}]
        /\ receipts \in [YieldIds -> Receipt \union {None}]
        /\ \A y \in YieldIds : receipts[y] # None => receipts[y].ns \in ManualNamespaces
    BY <1>0 DEF TypeOK, ChainInv, OnlyManual
  <2> QED BY <1>0, <2>1, <2>2, <2>3, StartKeepsLive
<1>5. ASSUME NEW y \in YieldIds, Deliver(y) PROVE LiveRegistered' /\ OnlyManual'
  BY <1>5, DeliverKeepsLive
<1>6. ASSUME NEW amount \in 1..MaxBalance, Credit(amount)
      PROVE  LiveRegistered' /\ OnlyManual'
  BY <1>6, <1>a DEF Credit, contractVars
<1>7. CASE UNCHANGED vars
  BY <1>7, <1>a DEF vars, contractVars
<1> QED BY <1>1, <1>2, <1>3, <1>4, <1>5, <1>6, <1>7 DEF Next, Manual, Runtime

\* Reachable states of the manual engine keep every live chain bound to its own
\* registration.
THEOREM ChainInvariant == Spec => []ChainInv
  BY ChainInvInit, ChainInvStep, PTL DEF Spec

\* In manual runs a callback never acts on another step's registration, however
\* registrations, releases, timeouts and failures interleave, although it looks
\* its step up by namespace and id only.
THEOREM CallbackSafe == Spec => []CallbackFindsOwnStep
<1>1. ChainInv => CallbackFindsOwnStep
  BY DEF ChainInv, LiveRegistered, CallbackFindsOwnStep
<1> QED BY <1>1, ChainInvariant, PTL

----------------------------------------------------------------------------
(* Only a callback that panicked leaves its step behind.                   *)

\* Every receipt was yielded, and every registration is driven by the chain it
\* names.  A chain at its gate has a gated registration, or on_pre_gate_checked
\* would drop it and leave the registration.
StrandIn(reg, rcpts, next) ==
  /\ \A y \in YieldIds : rcpts[y] # None => y < next
  /\ \A k \in Keys : reg[k] # None =>
       LET y == reg[k].yield
       IN  /\ rcpts[y] # None /\ <<rcpts[y].ns, rcpts[y].id>> = k
           /\ rcpts[y].phase \in LivePhases \union {"aborted"}
           /\ rcpts[y].phase = "gate" => reg[k].call.gated

StrandInv == StrandIn(registered_steps, receipts, next_yield)

LEMMA StrandImplies == StrandInv => OnlyPanicsStrand
  BY DEF StrandInv, StrandIn, OnlyPanicsStrand, Live, Phase, Key

LEMMA StrandInit == Init => StrandInv
  BY DEF Init, StrandInv, StrandIn

LEMMA RegisterStrand ==
  ASSUME TypeOK, StrandInv, NEW ns \in Namespaces, NEW plan \in Seq(Steps),
         CanRegister(ns, plan)
  PROVE  StrandIn(Registered(ns, plan), Yielded(ns, plan), next_yield + Len(plan))
<1> DEFINE R == Registered(ns, plan)
           Y == Yielded(ns, plan)
           fresh == next_yield..(next_yield + Len(plan) - 1)
<1>1. /\ DOMAIN plan = 1..Len(plan) /\ Len(plan) \in Nat
      /\ \A i \in DOMAIN plan : plan[i] \in Steps /\ plan[i].id \in StepIds
  BY StepFields
<1>2. next_yield \in Nat /\ MaxYields \in Nat /\ next_yield + Len(plan) - 1 <= MaxYields
  BY BoundsAssumption DEF TypeOK, CanRegister
<1>3. ASSUME NEW y \in YieldIds, y \notin fresh
      PROVE  Y[y] = receipts[y]
  BY <1>3 DEF Yielded
<1>4. ASSUME NEW y \in YieldIds, Y[y] # None
      PROVE  y < next_yield + Len(plan)
  <2>1. CASE y \in fresh
    BY <1>1, <1>2, <2>1
  <2>2. CASE y \notin fresh
    <3>1. y < next_yield
      BY <1>3, <1>4, <2>2 DEF StrandInv, StrandIn
    <3> QED BY <1>1, <1>2, <3>1 DEF YieldIds
  <2> QED BY <2>1, <2>2
<1>5. ASSUME NEW k \in Keys, R[k] # None
      PROVE  LET y == R[k].yield
             IN  /\ Y[y] # None /\ <<Y[y].ns, Y[y].id>> = k
                 /\ Y[y].phase \in LivePhases \union {"aborted"}
                 /\ Y[y].phase = "gate" => R[k].call.gated
  <2>1. CASE k[1] = ns /\ \E i \in DOMAIN plan : plan[i].id = k[2]
    <3> DEFINE i == CHOOSE i \in DOMAIN plan : plan[i].id = k[2]
               y == next_yield + i - 1
    <3>1. i \in DOMAIN plan /\ plan[i].id = k[2]
      BY <2>1
    <3>2. R[k] = [yield |-> y, call |-> plan[i]]
      BY <2>1 DEF Registered
    <3> HIDE DEF i
    <3>a. i \in Nat /\ 1 <= i /\ i <= Len(plan) /\ 1 <= next_yield
      BY <1>1, <3>1 DEF TypeOK
    <3>3. y \in fresh /\ y \in YieldIds /\ y - next_yield + 1 = i
      BY <1>1, <1>2, <3>a DEF YieldIds
    <3>4. Y[y] = [ns |-> ns, id |-> plan[i].id, phase |-> "waiting"]
      BY <3>3 DEF Yielded
    <3> HIDE DEF y, R, Y
    <3>5. k = <<ns, plan[i].id>>
      BY <2>1, <3>1 DEF Keys
    <3>6. Y[y] \in Receipt
      BY <1>1, <3>1, <3>4, PhaseNames DEF Receipt
    <3> QED BY <3>2, <3>4, <3>5, <3>6, NoneAssumption DEF LivePhases
  <2>2. CASE ~(k[1] = ns /\ \E i \in DOMAIN plan : plan[i].id = k[2])
    <3>1. R[k] = registered_steps[k]
      BY <2>2 DEF Registered
    <3>2. registered_steps[k].yield \in YieldIds
      BY <1>5, <3>1 DEF TypeOK, RegisteredStep
    <3>3. registered_steps[k].yield < next_yield
      BY <1>5, <3>1, <3>2 DEF StrandInv, StrandIn
    <3>4. Y[registered_steps[k].yield] = receipts[registered_steps[k].yield]
      BY <1>2, <1>3, <3>2, <3>3 DEF YieldIds
    <3> QED BY <1>5, <3>1, <3>4 DEF StrandInv, StrandIn
  <2> QED BY <2>1, <2>2
<1> QED BY <1>4, <1>5 DEF StrandIn

LEMMA StartStrand ==
  ASSUME NEW ns \in Namespaces, NEW order, NEW next,
         NEW reg \in [Keys -> RegisteredStep \union {None}],
         NEW rcpts \in [YieldIds -> Receipt \union {None}],
         StrandIn(reg, rcpts, next), StartRelease(ns, order, reg, rcpts)
  PROVE  StrandIn(registered_steps', receipts', next)
<1> DEFINE h == reg[<<ns, Head(order)>>].yield
<1>1. /\ registered_steps' = reg
      /\ receipts' = [rcpts EXCEPT ![h].phase = "resumed"]
      /\ rcpts[h] # None
  BY DEF StartRelease, CanResume
<1> HIDE DEF h
<1>2. ASSUME NEW y \in YieldIds
      PROVE  /\ receipts'[y] # None => rcpts[y] # None
             /\ rcpts[y] # None =>
                  /\ receipts'[y] # None
                  /\ receipts'[y].ns = rcpts[y].ns /\ receipts'[y].id = rcpts[y].id
                  /\ receipts'[y].phase \in {rcpts[y].phase, "resumed"}
  <2>1. CASE y = h
    <3>1. rcpts[y] \in Receipt /\ receipts'[y] = [rcpts[y] EXCEPT !.phase = "resumed"]
      BY <1>1, <2>1
    <3>2. [rcpts[y] EXCEPT !.phase = "resumed"] \in Receipt
      BY <3>1, PhaseNames DEF Receipt
    <3> QED BY <1>1, <2>1, <3>1, <3>2, NoneAssumption DEF Receipt
  <2>2. CASE y # h
    BY <1>1, <2>2
  <2> QED BY <2>1, <2>2
<1>3. ASSUME NEW k \in Keys, reg[k] # None
      PROVE  reg[k].yield \in YieldIds
  BY <1>3 DEF RegisteredStep
<1> QED BY <1>1, <1>2, <1>3 DEF StrandIn, LivePhases, ReleasedPhases

\* A chain moves on while registrations only go: its own goes when it ends
\* without having panicked.
LEMMA MoveStrand ==
  ASSUME TypeOK, StrandInv, NEW y \in YieldIds, receipts[y] # None,
         NEW phase \in Phases, MoveTo(y, phase), UNCHANGED next_yield,
         \A k \in Keys : registered_steps'[k] # None
                           => registered_steps'[k] = registered_steps[k],
         \/ phase \in (LivePhases \ {"gate"}) \union {"aborted"}
         \/ phase = "gate" /\ Found(y).call.gated
         \/ registered_steps'[Key(y)] = None
         \/ registered_steps[Key(y)].yield # y
  PROVE  StrandInv'
<1>1. \A z \in YieldIds : receipts'[z] # None => z < next_yield'
  BY MoveFacts DEF StrandInv, StrandIn
<1>2. ASSUME NEW k \in Keys, registered_steps'[k] # None
      PROVE  LET z == registered_steps'[k].yield
             IN  /\ receipts'[z] # None /\ <<receipts'[z].ns, receipts'[z].id>> = k
                 /\ receipts'[z].phase \in LivePhases \union {"aborted"}
                 /\ receipts'[z].phase = "gate" => registered_steps'[k].call.gated
  <2> DEFINE z == registered_steps[k].yield
  <2>1. /\ registered_steps'[k] = registered_steps[k] /\ z \in YieldIds
        /\ receipts[z] # None /\ Key(z) = k
        /\ receipts[z].phase \in LivePhases \union {"aborted"}
        /\ receipts[z].phase = "gate" => registered_steps[k].call.gated
    BY <1>2 DEF StrandInv, StrandIn, TypeOK, RegisteredStep, Key
  <2>2. Key(z)' = k
    BY <2>1, MoveFacts
  <2>3. CASE z # y
    <3>1. receipts'[z] = receipts[z]
      BY <2>3 DEF MoveTo
    <3> QED BY <2>1, <2>2, <3>1 DEF Key
  <2>4. CASE z = y
    <3>1. receipts'[z].phase = phase /\ receipts'[z] # None
      BY <2>4, MoveFacts DEF Phase
    <3>2. \/ phase \in (LivePhases \ {"gate"}) \union {"aborted"}
          \/ phase = "gate" /\ registered_steps[k].call.gated
      BY <1>2, <2>1, <2>4 DEF Found
    <3>3. "gate" \in LivePhases
      BY DEF LivePhases, ReleasedPhases
    <3> QED BY <2>1, <2>2, <3>1, <3>2, <3>3 DEF Key
  <2> QED BY <2>3, <2>4
<1> QED BY <1>1, <1>2 DEF StrandInv, StrandIn

\* What finish_automation_run leaves of a map without the key of y.
LEMMA FinishRemoves ==
  ASSUME TypeOK, NEW y \in YieldIds, receipts[y] # None, NEW ns, NEW status,
         finish_automation_run(ns, status, Without(Key(y)))
  PROVE  /\ registered_steps'[Key(y)] = None
         /\ \A k \in Keys : registered_steps'[k] # None
                              => registered_steps'[k] = registered_steps[k]
<1>1. /\ Key(y) \in Keys /\ Without(Key(y))[Key(y)] = None
      /\ \A k \in Keys : k # Key(y) => Without(Key(y))[k] = registered_steps[k]
  BY KeyType DEF Without, TypeOK
<1>2. CASE automation_runs[ns] = "InFlight"
  <2>1. registered_steps' = ClearedNamespace(ns, Without(Key(y)))
    BY <1>2 DEF finish_automation_run
  <2>2. \A k \in Keys : registered_steps'[k] \in {None, Without(Key(y))[k]}
    BY <2>1 DEF ClearedNamespace
  <2> QED BY <1>1, <2>2
<1>3. CASE automation_runs[ns] # "InFlight"
  <2>1. registered_steps' = Without(Key(y))
    BY <1>3 DEF finish_automation_run
  <2> QED BY <1>1, <2>1
<1> QED BY <1>2, <1>3

LEMMA EndStrand ==
  ASSUME TypeOK, StrandInv, NEW y \in YieldIds, receipts[y] # None,
         NEW phase \in Phases, MoveTo(y, phase), UNCHANGED next_yield, NEW ns, NEW status,
         finish_automation_run(ns, status, Without(Key(y)))
  PROVE  StrandInv'
  BY FinishRemoves, MoveStrand

\* Every receipt was yielded, so a resumed chain keeps its place.
LEMMA ReleaseStrand ==
  ASSUME TypeOK, StrandInv, NEW y \in YieldIds, Phase(y) = "resolve_ok", ReleaseNext(y),
         UNCHANGED next_yield
  PROVE  StrandInv'
<1> DEFINE ns == receipts[y].ns
           reg == Without(Key(y))
           entry == reg[<<ns, Head(sequence_queue[ns])>>]
<1>0. /\ receipts[y] # None /\ receipts[y] \in Receipt /\ Key(y) \in Keys
      /\ reg[Key(y)] = None
      /\ \A k \in Keys : k # Key(y) => reg[k] = registered_steps[k]
  BY KeyType, NoneAssumption DEF Phase, Without, TypeOK, Phases, LivePhases, ReleasedPhases
<1>1. CASE entry # None /\ CanResume(receipts, entry.yield)
  <2> DEFINE h == entry.yield
  <2>1. /\ registered_steps' = reg
        /\ receipts' = [receipts EXCEPT ![y].phase = "ok", ![h].phase = "resumed"]
        /\ receipts[h] # None /\ receipts[h].phase \in {"waiting", "resumed"}
    BY <1>1 DEF ReleaseNext, CanResume
  <2>2. receipts[y].phase = "resolve_ok"
    BY <1>0 DEF Phase
  <2>3. h # y
    BY <2>1, <2>2
  <2> HIDE DEF h, entry, reg
  <2>4. ASSUME NEW z \in YieldIds, receipts'[z] # None
        PROVE  receipts[z] # None
    <3>1. CASE z = y \/ z = h
      BY <1>0, <2>1, <3>1
    <3>2. CASE z # y /\ z # h
      BY <2>1, <2>4, <3>2 DEF TypeOK
    <3> QED BY <3>1, <3>2
  <2>5. ASSUME NEW z \in YieldIds, z # y, receipts[z] # None
        PROVE  /\ receipts'[z] # None
               /\ receipts'[z].ns = receipts[z].ns /\ receipts'[z].id = receipts[z].id
               /\ receipts'[z].phase \in {receipts[z].phase, "resumed"}
    <3>1. CASE z = h
      <4>1. receipts[z] \in Receipt /\ receipts'[z] = [receipts[z] EXCEPT !.phase = "resumed"]
        BY <2>1, <2>5, <3>1 DEF TypeOK
      <4>2. [receipts[z] EXCEPT !.phase = "resumed"] \in Receipt
        BY <4>1, PhaseNames DEF Receipt
      <4> QED BY <4>1, <4>2, NoneAssumption DEF Receipt
    <3>2. CASE z # h
      <4>1. receipts'[z] = receipts[z]
        BY <2>1, <2>5, <3>2 DEF TypeOK
      <4> QED BY <2>5, <4>1
    <3> QED BY <3>1, <3>2
  <2>6. ASSUME NEW k \in Keys, reg[k] # None
        PROVE  LET z == reg[k].yield
               IN  /\ receipts'[z] # None /\ <<receipts'[z].ns, receipts'[z].id>> = k
                   /\ receipts'[z].phase \in LivePhases \union {"aborted"}
                   /\ receipts'[z].phase = "gate" => reg[k].call.gated
    <3> DEFINE z == registered_steps[k].yield
    <3>1. k # Key(y) /\ reg[k] = registered_steps[k]
      BY <1>0, <2>6
    <3>2. /\ z \in YieldIds /\ receipts[z] # None /\ Key(z) = k
          /\ receipts[z].phase \in LivePhases \union {"aborted"}
          /\ receipts[z].phase = "gate" => registered_steps[k].call.gated
      BY <2>6, <3>1 DEF StrandInv, StrandIn, TypeOK, RegisteredStep, Key
    <3>3. z # y
      BY <3>1, <3>2
    <3> HIDE DEF z
    <3>4. /\ receipts'[z] # None
          /\ receipts'[z].ns = receipts[z].ns /\ receipts'[z].id = receipts[z].id
          /\ receipts'[z].phase \in {receipts[z].phase, "resumed"}
      BY <2>5, <3>2, <3>3
    <3> QED BY <3>1, <3>2, <3>4 DEF z, Key, LivePhases, ReleasedPhases
  <2> QED BY <2>1, <2>4, <2>6 DEF StrandInv, StrandIn
<1>2. CASE ~(entry # None /\ CanResume(receipts, entry.yield))
  <2>1. MoveTo(y, "ok") /\ finish_automation_run(ns, "ResumeFailed", reg)
    BY <1>2 DEF ReleaseNext, Halt
  <2> QED BY <1>0, <2>1, PhaseNames, EndStrand
<1> QED BY <1>1, <1>2

LEMMA DispatchStrand ==
  ASSUME TypeOK, StrandInv, NEW y \in YieldIds, receipts[y] # None, UNCHANGED next_yield,
         halt_on_materialize_failure(y) \/ dispatch_promise_for_call(y)
  PROVE  StrandInv'
<1>1. CASE halt_on_materialize_failure(y)
  <2>1. /\ MoveTo(y, "halted")
        /\ finish_automation_run(receipts[y].ns, "DownstreamFailed", Without(Key(y)))
    BY <1>1 DEF halt_on_materialize_failure, Halt
  <2> QED BY <2>1, PhaseNames, EndStrand
<1>2. CASE dispatch_promise_for_call(y)
  <2>1. PICK phase \in {"asserted_target", "target", "aborted"} : MoveTo(y, phase)
    BY <1>2 DEF dispatch_promise_for_call
  <2>2. registered_steps' = registered_steps
    BY <1>2 DEF dispatch_promise_for_call, contractVars
  <2>3. phase \in Phases /\ phase \in (LivePhases \ {"gate"}) \union {"aborted"}
    BY PhaseNames DEF LivePhases, ReleasedPhases
  <2> QED BY <2>1, <2>2, <2>3, MoveStrand
<1> QED BY <1>1, <1>2

\* A callback that drops its chain leaves no registration of it: none is under
\* its key, or an ungated one, which is another chain's.
LEMMA DeliverStrand ==
  ASSUME TypeOK, StrandInv, NEW y \in YieldIds, Deliver(y)
  PROVE  StrandInv'
<1>0. UNCHANGED next_yield
  BY DEF Deliver
<1>l. LivePhases = {"waiting", "resumed", "gate", "target", "asserted_target",
                    "check", "resolve_ok", "resolve_err"}
  BY DEF LivePhases, ReleasedPhases
<1>r. ASSUME Phase(y) \in LivePhases PROVE receipts[y] # None
  BY <1>r, LiveHasReceipt DEF Phases
<1>w. ASSUME receipts[y] # None, WakesUpLate(y) PROVE StrandInv'
  <2>1. MoveTo(y, "dropped") /\ registered_steps' = registered_steps /\ Found(y) = None
    BY <1>w DEF WakesUpLate, contractVars
  <2> QED BY <1>0, <1>w, <2>1, PhaseNames, MoveStrand DEF Found
<1>1. CASE on_step_resumed(y)
  <2>0. receipts[y] # None
    BY <1>1, <1>l, <1>r DEF on_step_resumed, on_step_resumed_ok, on_step_resumed_err
  <2>1. CASE on_step_resumed_ok(y)
    <3>1. CASE Found(y).call.gated
      <4>1. PICK phase \in {"gate", "aborted"} : MoveTo(y, phase)
        BY <2>1, <3>1 DEF on_step_resumed_ok
      <4>2. registered_steps' = registered_steps
        BY <2>1, <3>1 DEF on_step_resumed_ok, contractVars
      <4> QED BY <1>0, <2>0, <3>1, <4>1, <4>2, PhaseNames, MoveStrand
    <3>2. CASE ~Found(y).call.gated
      BY <1>0, <2>0, <2>1, <3>2, DispatchStrand DEF on_step_resumed_ok
    <3> QED BY <3>1, <3>2
  <2>2. CASE on_step_resumed_err(y)
    <3>1. /\ MoveTo(y, "halted")
          /\ finish_automation_run(receipts[y].ns, "ResumeFailed", Without(Key(y)))
      BY <2>2 DEF on_step_resumed_err, Halt
    <3> QED BY <1>0, <2>0, <3>1, PhaseNames, EndStrand
  <2>3. CASE WakesUpLate(y)
    BY <2>0, <2>3, <1>w
  <2> QED BY <1>1, <2>1, <2>2, <2>3 DEF on_step_resumed
<1>2. CASE on_pre_gate_checked(y)
  <2>0. receipts[y] # None /\ Phase(y) = "gate"
    BY <1>2, <1>l, <1>r DEF on_pre_gate_checked
  <2>1. CASE WakesUpLate(y)
    BY <2>0, <2>1, <1>w
  <2>2. CASE on_pre_gate_checked_ungated(y)
    <3>1. /\ MoveTo(y, "dropped") /\ registered_steps' = registered_steps
          /\ Found(y) # None /\ ~Found(y).call.gated
      BY <2>2 DEF on_pre_gate_checked_ungated, contractVars
    <3>2. Key(y) \in Keys /\ receipts[y].phase = "gate"
      BY <2>0, KeyType DEF Phase
    <3>3. registered_steps[Key(y)].yield # y
      BY <3>1, <3>2 DEF StrandInv, StrandIn, Found
    <3> QED BY <1>0, <2>0, <3>1, <3>3, PhaseNames, MoveStrand
  <2>3. CASE on_pre_gate_checked_in_range(y)
    BY <1>0, <2>0, <2>3, DispatchStrand DEF on_pre_gate_checked_in_range
  <2>4. CASE halt_sequence_on_pre_gate_failure(y)
    <3>1. /\ MoveTo(y, "halted")
          /\ finish_automation_run(receipts[y].ns, "DownstreamFailed", Without(Key(y)))
      BY <2>4 DEF halt_sequence_on_pre_gate_failure, Halt
    <3> QED BY <1>0, <2>0, <3>1, PhaseNames, EndStrand
  <2> QED BY <1>2, <2>1, <2>2, <2>3, <2>4 DEF on_pre_gate_checked
<1>3. ASSUME NEW ok \in BOOLEAN,
             \/ TargetReturns(y, ok)
             \/ on_asserted_run_postcheck(y, ok)
             \/ on_asserted_evaluate_postcheck(y, ok)
      PROVE  StrandInv'
  <2>1. receipts[y] # None
    BY <1>3, <1>l, <1>r DEF TargetReturns, on_asserted_run_postcheck,
                            on_asserted_evaluate_postcheck
  <2>2. PICK phase \in {"resolve_ok", "resolve_err", "check"} : MoveTo(y, phase)
    BY <1>3 DEF TargetReturns, on_asserted_run_postcheck, on_asserted_evaluate_postcheck
  <2>3. registered_steps' = registered_steps
    BY <1>3 DEF TargetReturns, on_asserted_run_postcheck,
                on_asserted_evaluate_postcheck, contractVars
  <2> QED BY <1>0, <1>l, <2>1, <2>2, <2>3, PhaseNames, MoveStrand
<1>4. CASE on_step_resolved_ok(y)
  <2>0. receipts[y] # None /\ Phase(y) = "resolve_ok"
    BY <1>4, <1>l, <1>r DEF on_step_resolved_ok
  <2>1. CASE ReleaseNext(y)
    BY <1>0, <2>0, <2>1, ReleaseStrand
  <2>2. CASE CompleteSequence(y)
    <3>1. /\ MoveTo(y, "ok")
          /\ finish_automation_run(receipts[y].ns, "Succeeded", Without(Key(y)))
      BY <2>2 DEF CompleteSequence
    <3> QED BY <1>0, <2>0, <3>1, PhaseNames, EndStrand
  <2> QED BY <1>4, <2>1, <2>2 DEF on_step_resolved_ok
<1>5. CASE on_step_resolved_err(y)
  <2>1. /\ receipts[y] # None /\ MoveTo(y, "err")
        /\ finish_automation_run(receipts[y].ns, "DownstreamFailed", Without(Key(y)))
    BY <1>5, <1>l, <1>r DEF on_step_resolved_err, Halt
  <2> QED BY <1>0, <2>1, PhaseNames, EndStrand
<1> QED BY <1>1, <1>2, <1>3, <1>4, <1>5 DEF Deliver

LEMMA StrandStep == TypeOK /\ StrandInv /\ [Next]_vars => StrandInv'
<1> SUFFICES ASSUME TypeOK, StrandInv, [Next]_vars PROVE StrandInv'
  OBVIOUS
<1>a. ASSUME UNCHANGED <<registered_steps, receipts, next_yield>> PROVE StrandInv'
  BY <1>a DEF StrandInv, StrandIn
<1>1. ASSUME NEW account \in Delegates \union {None}, set_authorized_executor(account)
      PROVE  StrandInv'
  BY <1>1, <1>a DEF set_authorized_executor, contractVars
<1>2. ASSUME NEW caller \in Callers, NEW step \in Steps, register_step(caller, step)
      PROVE  StrandInv'
  <2> DEFINE ns == manual_namespace(caller)
  <2>1. /\ <<step>> \in Seq(Steps) /\ Len(<<step>>) = 1 /\ ns \in Namespaces
        /\ CanRegister(ns, <<step>>)
    BY <1>2 DEF register_step, Namespaces, ManualNamespaces
  <2>2. /\ registered_steps' = Registered(ns, <<step>>)
        /\ receipts' = Yielded(ns, <<step>>) /\ next_yield' = next_yield + 1
    BY <1>2 DEF register_step
  <2> HIDE DEF ns
  <2>3. StrandIn(registered_steps', receipts', next_yield')
    BY <2>1, <2>2, RegisterStrand
  <2> QED BY <2>3 DEF StrandInv, StrandIn
<1>3. ASSUME NEW caller \in Callers, NEW plan \in Plans, execute_steps(caller, plan)
      PROVE  StrandInv'
  <2> DEFINE ns == manual_namespace(caller)
  <2>1. /\ ns \in Namespaces /\ plan \in Seq(Steps)
        /\ DistinctIds(plan)
    BY PlanFacts DEF Namespaces, ManualNamespaces
  <2>2. /\ CanRegister(ns, plan)
        /\ StartRelease(ns, IdsOf(plan), Registered(ns, plan), Yielded(ns, plan))
        /\ next_yield' = next_yield + Len(plan)
    BY <1>3 DEF execute_steps
  <2> HIDE DEF ns
  <2>3. StrandIn(registered_steps', receipts', next_yield')
    BY <2>1, <2>2, RegisterType, RegisterStrand, StartStrand
  <2> QED BY <2>3 DEF StrandInv, StrandIn
<1>4. ASSUME NEW who \in Accounts, NEW caller \in Callers, NEW order \in Orders,
             run_sequence(who, caller, order)
      PROVE  StrandInv'
  <2>1. manual_namespace(caller) \in Namespaces
    BY DEF Namespaces, ManualNamespaces
  <2>2. /\ StartRelease(manual_namespace(caller), order, registered_steps, receipts)
        /\ next_yield' = next_yield
    BY <1>4 DEF run_sequence
  <2>3. /\ registered_steps \in [Keys -> RegisteredStep \union {None}]
        /\ receipts \in [YieldIds -> Receipt \union {None}]
    BY DEF TypeOK
  <2>4. StrandIn(registered_steps', receipts', next_yield)
    BY <2>1, <2>2, <2>3, StartStrand DEF StrandInv
  <2> QED BY <2>2, <2>4 DEF StrandInv, StrandIn
<1>5. ASSUME NEW y \in YieldIds, Deliver(y) PROVE StrandInv'
  BY <1>5, DeliverStrand
<1>6. ASSUME NEW amount \in 1..MaxBalance, Credit(amount) PROVE StrandInv'
  BY <1>6, <1>a DEF Credit, contractVars
<1>7. CASE UNCHANGED vars
  BY <1>7, <1>a DEF vars, contractVars
<1> QED BY <1>1, <1>2, <1>3, <1>4, <1>5, <1>6, <1>7 DEF Next, Manual, Runtime

\* In manual runs a step stays registered only while its own chain is alive, or
\* after a callback of that chain panicked: no return path of a callback, and no
\* start or end of a run, leaves a step behind.
THEOREM PanicsStrandSafe == Spec => []OnlyPanicsStrand
<1>1. TypeOK /\ StrandInv /\ [Next]_vars => StrandInv'
  BY StrandStep
<1>2. Init => StrandInv
  BY StrandInit
<1>3. StrandInv => OnlyPanicsStrand
  BY StrandImplies
<1> QED BY <1>1, <1>2, <1>3, TypeCorrect, PTL DEF Spec

----------------------------------------------------------------------------
(* What a namespace holds for its run is held for a chain that will use it. *)

\* The chain z drives the namespace ns, over given maps.
Drives(z, ns, reg, rcpts) ==
  /\ rcpts[z] # None /\ rcpts[z].ns = ns
  /\ rcpts[z].phase \in ReleasedPhases \union {"aborted"}
  /\ LET entry == reg[<<rcpts[z].ns, rcpts[z].id>>]
     IN  entry # None /\ entry.yield = z

DrivenIn(ns, reg, rcpts) == \E z \in YieldIds : Drives(z, ns, reg, rcpts)

LEMMA DrivenMeans ==
  ASSUME NEW ns
  PROVE  /\ Driven(ns) <=> DrivenIn(ns, registered_steps, receipts)
         /\ Driven(ns)' <=> DrivenIn(ns, registered_steps', receipts')
<1> USE NoneAssumption DEF Phases, LivePhases, ReleasedPhases
<1>1. Driven(ns) <=> DrivenIn(ns, registered_steps, receipts)
  BY DEF Driven, DrivenIn, Drives, Released, Phase, Found, Key
<1>2. Driven(ns)' <=> DrivenIn(ns, registered_steps', receipts')
  BY DEF Driven, DrivenIn, Drives, Released, Phase, Found, Key
<1> QED BY <1>1, <1>2

\* A callback moves its chain on and keeps what the namespace holds.
LEMMA MoveDriven ==
  ASSUME ChainInv, WaitingHasDriver, NEW y \in YieldIds, Live(y), receipts[y] # None,
         NEW phase \in ReleasedPhases \union {"aborted"}, MoveTo(y, phase),
         UNCHANGED <<registered_steps, sequence_queue, sequence_contexts>>
  PROVE  WaitingHasDriver'
<1> SUFFICES ASSUME NEW ns \in Namespaces, Driven(ns)
             PROVE  Driven(ns)'
  BY DEF WaitingHasDriver
<1>1. PICK z \in YieldIds : /\ receipts[z] # None /\ receipts[z].ns = ns
                            /\ Released(z) \/ Phase(z) = "aborted"
                            /\ Found(z) # None /\ Found(z).yield = z
  BY DEF Driven
<1>2. TypeOK /\ phase \in Phases
  BY DEF ChainInv, Phases, LivePhases, EndPhases
<1>3. /\ Phase(z)' \in {phase, Phase(z)} /\ Key(z)' = Key(z)
      /\ receipts'[z].ns = ns
  BY <1>1, <1>2, MoveFacts
<1>4. Found(z)' = Found(z)
  BY <1>3 DEF Found
<1>5. receipts'[z] # None
  BY <1>1, <1>3, NoneAssumption, <1>2, KeyType DEF Released, Phase, ReleasedPhases, Phases, LivePhases, EndPhases
<1> QED BY <1>1, <1>3, <1>4, <1>5 DEF Driven, Released

\* A callback ends its chain and drops what the namespace of it holds; what the
\* other namespaces hold is driven by other chains, under other keys.
LEMMA EndDriven ==
  ASSUME ChainInv, WaitingHasDriver, NEW y \in YieldIds, receipts[y] # None,
         NEW phase \in Phases, MoveTo(y, phase),
         registered_steps' = Without(Key(y)),
         \A m \in Namespaces : m # receipts[y].ns =>
           sequence_queue'[m] = sequence_queue[m]
             /\ sequence_contexts'[m] = sequence_contexts[m],
         sequence_queue'[receipts[y].ns] = <<>>,
         sequence_contexts'[receipts[y].ns] = NoContext
  PROVE  WaitingHasDriver'
<1> SUFFICES ASSUME NEW ns \in Namespaces, ns # receipts[y].ns, Driven(ns)
             PROVE  Driven(ns)'
  BY DEF WaitingHasDriver
<1>1. PICK z \in YieldIds : /\ receipts[z] # None /\ receipts[z].ns = ns
                            /\ Released(z) \/ Phase(z) = "aborted"
                            /\ Found(z) # None /\ Found(z).yield = z
  BY DEF Driven
<1>2. TypeOK /\ z # y
  BY <1>1 DEF ChainInv
<1>3. /\ Phase(z)' = Phase(z) /\ Key(z)' = Key(z) /\ receipts'[z].ns = ns
      /\ Key(z) \in Keys /\ Key(z) # Key(y)
  BY <1>1, <1>2, MoveFacts, KeyType DEF Key
<1>4. Found(z)' = Found(z)
  BY <1>2, <1>3 DEF Found, Without, TypeOK
<1>5. receipts'[z] # None
  BY <1>1, <1>2 DEF MoveTo, TypeOK
<1> QED BY <1>1, <1>3, <1>4, <1>5 DEF Driven, Released

LEMMA HaltDriven ==
  ASSUME ChainInv, WaitingHasDriver, NEW y \in YieldIds, receipts[y] # None,
         NEW phase \in Phases, NEW status, MoveTo(y, phase),
         Halt(receipts[y].ns, status, Without(Key(y)))
  PROVE  WaitingHasDriver'
<1>1. registered_steps' = Without(Key(y))
  BY ManualFinish DEF Halt
<1>2. receipts[y].ns \in Namespaces /\ TypeOK
  BY KeyType DEF ChainInv
<1> QED BY <1>1, <1>2, EndDriven DEF Halt, TypeOK

LEMMA DispatchDriven ==
  ASSUME ChainInv, WaitingHasDriver, NEW y \in YieldIds, Live(y), receipts[y] # None,
         halt_on_materialize_failure(y) \/ dispatch_promise_for_call(y)
  PROVE  WaitingHasDriver'
<1>1. CASE halt_on_materialize_failure(y)
  BY <1>1, PhaseNames, HaltDriven DEF halt_on_materialize_failure
<1>2. CASE dispatch_promise_for_call(y)
  <2>1. PICK phase \in {"asserted_target", "target", "aborted"} : MoveTo(y, phase)
    BY <1>2 DEF dispatch_promise_for_call
  <2>2. UNCHANGED <<registered_steps, sequence_queue, sequence_contexts>>
    BY <1>2 DEF dispatch_promise_for_call, contractVars
  <2> QED BY <2>1, <2>2, MoveDriven DEF ReleasedPhases
<1> QED BY <1>1, <1>2

\* The step that is released next drives its namespace from there on.
LEMMA ReleaseDriven ==
  ASSUME ChainInv, StrandInv, WaitingHasDriver, NEW y \in YieldIds,
         Phase(y) = "resolve_ok", ReleaseNext(y)
  PROVE  WaitingHasDriver'
<1>0. /\ TypeOK /\ receipts[y] # None /\ receipts[y].ns \in Namespaces
      /\ receipts[y] \in Receipt /\ receipts[y].phase = "resolve_ok"
  BY PhaseNames, LiveHasReceipt, KeyType DEF ChainInv
<1>n. PICK ns \in Namespaces : ns = receipts[y].ns
  BY <1>0
<1> DEFINE reg == Without(Key(y))
           next == Head(sequence_queue[ns])
           entry == reg[<<ns, next>>]
<1>1. CASE entry # None /\ CanResume(receipts, entry.yield)
  <2> DEFINE h == entry.yield
  <2>1. /\ registered_steps' = reg
        /\ receipts' = [receipts EXCEPT ![y].phase = "ok", ![h].phase = "resumed"]
        /\ receipts[h] # None /\ receipts[h].phase \in {"waiting", "resumed"}
        /\ sequence_queue' = [sequence_queue EXCEPT ![ns] = Tail(@)]
        /\ sequence_contexts' = ContextAfter(y) /\ sequence_queue[ns] # <<>>
    BY <1>1, <1>n DEF ReleaseNext, CanResume
  <2>2. h # y
    BY <1>0, <2>1
  <2>3. <<ns, next>> \in Keys
    BY <1>0, <2>1 DEF TypeOK, Keys
  <2>4. <<ns, next>> # Key(y) /\ entry = registered_steps[<<ns, next>>]
    BY <1>0, <1>1, <1>n, <2>3 DEF Without, TypeOK
  <2>5. h \in YieldIds /\ Key(h) = <<ns, next>>
    BY <1>0, <1>1, <2>3, <2>4 DEF StrandInv, StrandIn, TypeOK, RegisteredStep, Key
  <2>6. ASSUME NEW z \in YieldIds, z # y, z # h
        PROVE  receipts'[z] = receipts[z]
    BY <1>0, <2>1, <2>6 DEF TypeOK
  <2>7. Driven(ns)'
    <3> HIDE DEF entry, h, reg, next
    <3>1. receipts[h] \in Receipt /\ receipts'[h] = [receipts[h] EXCEPT !.phase = "resumed"]
      BY <1>0, <2>1, <2>2, <2>5 DEF TypeOK
    <3>2. [receipts[h] EXCEPT !.phase = "resumed"] \in Receipt
      BY <3>1, PhaseNames DEF Receipt
    <3>3. /\ receipts'[h] # None /\ receipts'[h].phase = "resumed"
          /\ <<receipts'[h].ns, receipts'[h].id>> = <<ns, next>>
      BY <2>5, <3>1, <3>2, NoneAssumption DEF Receipt, Key
    <3>4. entry # None /\ entry.yield = h /\ registered_steps'[<<ns, next>>] = entry
      BY <1>1, <2>1 DEF entry, h
    <3>5. Drives(h, ns, registered_steps', receipts')
      BY <3>3, <3>4 DEF Drives, ReleasedPhases
    <3> QED BY <2>5, <3>5, DrivenMeans DEF DrivenIn
  <2>8. ASSUME NEW m \in Namespaces, m # ns, Driven(m)
        PROVE  Driven(m)'
    <3>1. PICK z \in YieldIds : Drives(z, m, registered_steps, receipts)
      BY <2>8, DrivenMeans DEF DrivenIn
    <3>2. z # y /\ z # h
      BY <1>n, <2>5, <2>8, <3>1 DEF Drives, Key
    <3>3. receipts'[z] = receipts[z] /\ Key(z) \in Keys /\ Key(z) # Key(y)
      BY <1>0, <1>n, <2>6, <2>8, <3>1, <3>2, KeyType DEF Drives, Key
    <3>4. registered_steps'[Key(z)] = registered_steps[Key(z)]
      BY <1>0, <2>1, <3>3 DEF Without, TypeOK
    <3>5. Drives(z, m, registered_steps', receipts')
      BY <3>1, <3>3, <3>4 DEF Drives, Key
    <3> QED BY <3>5, DrivenMeans DEF DrivenIn
  <2>9. ASSUME NEW m \in Namespaces, m # ns
        PROVE  sequence_queue'[m] = sequence_queue[m]
                 /\ sequence_contexts'[m] = sequence_contexts[m]
    <3>1. sequence_queue'[m] = sequence_queue[m]
      BY <1>0, <2>1, <2>9 DEF TypeOK
    <3>2. sequence_contexts'[m] = sequence_contexts[m]
      <4>1. CASE Found(y) # None /\ Found(y).call.save # None
        <5>1. sequence_contexts' = [sequence_contexts EXCEPT
                ![ns] = [sequence_contexts[ns] EXCEPT ![Found(y).call.save] = y]]
          BY <1>0, <1>n, <2>1, <4>1 DEF ContextAfter, TypeOK
        <5> QED BY <1>0, <2>9, <5>1 DEF TypeOK
      <4>2. CASE ~(Found(y) # None /\ Found(y).call.save # None)
        BY <2>1, <4>2 DEF ContextAfter
      <4> QED BY <4>1, <4>2
    <3> QED BY <3>1, <3>2
  <2> QED BY <2>7, <2>8, <2>9 DEF WaitingHasDriver
<1>2. CASE ~(entry # None /\ CanResume(receipts, entry.yield))
  <2>1. MoveTo(y, "ok") /\ Halt(ns, "ResumeFailed", reg)
    BY <1>2, <1>n DEF ReleaseNext
  <2> QED BY <1>0, <1>n, <2>1, PhaseNames, HaltDriven
<1> QED BY <1>1, <1>2

LEMMA DeliverDriven ==
  ASSUME ChainInv, StrandInv, WaitingHasDriver, NEW y \in YieldIds, Deliver(y)
  PROVE  WaitingHasDriver'
<1>l. LivePhases = {"waiting", "resumed", "gate", "target", "asserted_target",
                    "check", "resolve_ok", "resolve_err"}
  BY DEF LivePhases, ReleasedPhases
<1>0. ASSUME Phase(y) \in LivePhases
      PROVE  Live(y) /\ receipts[y] # None /\ Found(y) # None /\ Found(y).yield = y
  BY <1>0, LiveHasReceipt DEF ChainInv, LiveRegistered, Live, Phases
<1>1. CASE on_step_resumed(y)
  <2>0. Live(y) /\ receipts[y] # None /\ Found(y) # None
    BY <1>1, <1>l, <1>0 DEF on_step_resumed, on_step_resumed_ok, on_step_resumed_err
  <2>1. CASE on_step_resumed_ok(y) /\ Found(y).call.gated
    <3>1. PICK phase \in {"gate", "aborted"} : MoveTo(y, phase)
      BY <2>1 DEF on_step_resumed_ok
    <3>2. UNCHANGED <<registered_steps, sequence_queue, sequence_contexts>>
      BY <2>1 DEF on_step_resumed_ok, contractVars
    <3> QED BY <2>0, <3>1, <3>2, MoveDriven DEF ReleasedPhases
  <2>2. CASE on_step_resumed_ok(y) /\ ~Found(y).call.gated
    BY <2>0, <2>2, DispatchDriven DEF on_step_resumed_ok
  <2>3. CASE on_step_resumed_err(y)
    BY <2>0, <2>3, PhaseNames, HaltDriven DEF on_step_resumed_err
  <2>4. CASE WakesUpLate(y)
    BY <2>0, <2>4 DEF WakesUpLate
  <2> QED BY <1>1, <2>1, <2>2, <2>3, <2>4 DEF on_step_resumed
<1>2. CASE on_pre_gate_checked(y)
  <2>0. /\ Live(y) /\ receipts[y] # None /\ Found(y) # None /\ Found(y).yield = y
        /\ Phase(y) = "gate"
    BY <1>2, <1>l, <1>0 DEF on_pre_gate_checked
  <2>1. CASE WakesUpLate(y)
    BY <2>0, <2>1 DEF WakesUpLate
  <2>2. CASE on_pre_gate_checked_ungated(y)
    <3>1. Key(y) \in Keys /\ receipts[y].phase = "gate"
      BY <2>0, KeyType DEF ChainInv
    <3>2. Found(y).call.gated
      BY <2>0, <3>1 DEF StrandInv, StrandIn, Found
    <3> QED BY <2>2, <3>2 DEF on_pre_gate_checked_ungated
  <2>3. CASE on_pre_gate_checked_in_range(y)
    BY <2>0, <2>3, DispatchDriven DEF on_pre_gate_checked_in_range
  <2>4. CASE halt_sequence_on_pre_gate_failure(y)
    BY <2>0, <2>4, PhaseNames, HaltDriven DEF halt_sequence_on_pre_gate_failure
  <2> QED BY <1>2, <2>1, <2>2, <2>3, <2>4 DEF on_pre_gate_checked
<1>3. ASSUME NEW ok \in BOOLEAN,
             \/ TargetReturns(y, ok)
             \/ on_asserted_run_postcheck(y, ok)
             \/ on_asserted_evaluate_postcheck(y, ok)
      PROVE  WaitingHasDriver'
  <2>1. Live(y) /\ receipts[y] # None
    BY <1>3, <1>l, <1>0 DEF TargetReturns, on_asserted_run_postcheck,
                            on_asserted_evaluate_postcheck
  <2>2. PICK phase \in {"resolve_ok", "resolve_err", "check"} : MoveTo(y, phase)
    BY <1>3 DEF TargetReturns, on_asserted_run_postcheck, on_asserted_evaluate_postcheck
  <2>3. UNCHANGED <<registered_steps, sequence_queue, sequence_contexts>>
    BY <1>3 DEF TargetReturns, on_asserted_run_postcheck,
                on_asserted_evaluate_postcheck, contractVars
  <2> QED BY <2>1, <2>2, <2>3, MoveDriven DEF ReleasedPhases
<1>4. CASE on_step_resolved_ok(y)
  <2>0. Live(y) /\ receipts[y] # None /\ Phase(y) = "resolve_ok"
    BY <1>4, <1>l, <1>0 DEF on_step_resolved_ok
  <2>1. CASE ReleaseNext(y)
    BY <2>0, <2>1, ReleaseDriven
  <2>2. CASE CompleteSequence(y)
    <3>1. registered_steps' = Without(Key(y)) /\ MoveTo(y, "ok")
      BY <2>0, <2>2, ManualFinish DEF CompleteSequence
    <3>2. receipts[y].ns \in Namespaces /\ TypeOK
      BY <2>0, KeyType DEF ChainInv
    <3>3. /\ \A m \in Namespaces : m # receipts[y].ns =>
               sequence_queue'[m] = sequence_queue[m]
                 /\ sequence_contexts'[m] = sequence_contexts[m]
          /\ sequence_queue'[receipts[y].ns] = <<>>
          /\ sequence_contexts'[receipts[y].ns] = NoContext
      BY <2>2, <3>2 DEF CompleteSequence, TypeOK
    <3> QED BY <2>0, <3>1, <3>3, PhaseNames, EndDriven
  <2> QED BY <1>4, <2>1, <2>2 DEF on_step_resolved_ok
<1>5. CASE on_step_resolved_err(y)
  BY <1>5, <1>0, <1>l, PhaseNames, HaltDriven DEF on_step_resolved_err
<1> QED BY <1>1, <1>2, <1>3, <1>4, <1>5 DEF Deliver

\* Registering takes free keys and fresh yields only.
LEMMA RegisterDriven ==
  ASSUME TypeOK, StrandInv, NEW ns \in Namespaces, NEW plan \in Seq(Steps),
         CanRegister(ns, plan), NEW m, DrivenIn(m, registered_steps, receipts)
  PROVE  DrivenIn(m, Registered(ns, plan), Yielded(ns, plan))
<1>1. PICK z \in YieldIds : Drives(z, m, registered_steps, receipts)
  BY DEF DrivenIn
<1>2. z < next_yield /\ Key(z) \in Keys /\ receipts[z] # None
  BY <1>1, KeyType DEF Drives, StrandInv, StrandIn
<1>3. Yielded(ns, plan)[z] = receipts[z]
  BY <1>2 DEF Yielded, YieldIds, TypeOK
<1>4. registered_steps[Key(z)] # None
  BY <1>1 DEF Drives, Key
<1>5. ~(Key(z)[1] = ns /\ \E i \in DOMAIN plan : plan[i].id = Key(z)[2])
  <2> SUFFICES ASSUME Key(z)[1] = ns, NEW i \in DOMAIN plan, plan[i].id = Key(z)[2]
               PROVE  FALSE
    OBVIOUS
  <2>1. Key(z) = <<ns, plan[i].id>>
    BY DEF Key
  <2> QED BY <1>4, <2>1 DEF CanRegister
<1>6. Registered(ns, plan)[Key(z)] = registered_steps[Key(z)]
  BY <1>2, <1>5 DEF Registered
<1> QED BY <1>1, <1>3, <1>6 DEF DrivenIn, Drives, Key

\* A release that starts is driven by its head; a chain that drove a namespace
\* still does.
LEMMA StartDriven ==
  ASSUME NEW ns \in Namespaces, NEW order \in Seq(StepIds), NEW next,
         NEW reg \in [Keys -> RegisteredStep \union {None}],
         NEW rcpts \in [YieldIds -> Receipt \union {None}],
         StrandIn(reg, rcpts, next), StartRelease(ns, order, reg, rcpts),
         sequence_queue \in [Namespaces -> Seq(StepIds)],
         \A m \in Namespaces :
           sequence_queue[m] # <<>> \/ sequence_contexts[m] # NoContext
             => DrivenIn(m, reg, rcpts),
         UNCHANGED sequence_contexts
  PROVE  WaitingHasDriver'
<1> DEFINE h == reg[<<ns, Head(order)>>].yield
<1>1. /\ registered_steps' = reg
      /\ receipts' = [rcpts EXCEPT ![h].phase = "resumed"]
      /\ rcpts[h] # None /\ order # <<>>
      /\ sequence_queue' = [sequence_queue EXCEPT ![ns] = Tail(order)]
      /\ \A i \in DOMAIN order : reg[<<ns, order[i]>>] # None
  BY DEF StartRelease, CanResume
<1>2. Head(order) \in StepIds /\ \E i \in DOMAIN order : order[i] = Head(order)
  BY <1>1
<1>3. <<ns, Head(order)>> \in Keys /\ reg[<<ns, Head(order)>>] # None
  BY <1>1, <1>2 DEF Keys
<1>4. h \in YieldIds /\ <<rcpts[h].ns, rcpts[h].id>> = <<ns, Head(order)>>
  BY <1>3 DEF StrandIn, RegisteredStep
<1>5. reg[<<ns, Head(order)>>].yield = h
  OBVIOUS
<1> HIDE DEF h
<1>6. /\ receipts'[h] # None /\ receipts'[h].phase = "resumed"
      /\ receipts'[h].ns = rcpts[h].ns /\ receipts'[h].id = rcpts[h].id
  <2>1. rcpts[h] \in Receipt /\ receipts'[h] = [rcpts[h] EXCEPT !.phase = "resumed"]
    BY <1>1, <1>4
  <2>2. [rcpts[h] EXCEPT !.phase = "resumed"] \in Receipt
    BY <2>1, PhaseNames DEF Receipt
  <2> QED BY <2>1, <2>2, NoneAssumption DEF Receipt
<1>7. Drives(h, ns, registered_steps', receipts')
  BY <1>1, <1>3, <1>4, <1>5, <1>6 DEF Drives, ReleasedPhases
<1>8. ASSUME NEW m \in Namespaces, m # ns, DrivenIn(m, reg, rcpts)
      PROVE  DrivenIn(m, registered_steps', receipts')
  <2>1. PICK z \in YieldIds : Drives(z, m, reg, rcpts)
    BY <1>8 DEF DrivenIn
  <2>2. z # h
    BY <1>4, <1>8, <2>1 DEF Drives
  <2>3. receipts'[z] = rcpts[z]
    BY <1>1, <2>2
  <2>4. Drives(z, m, registered_steps', receipts')
    BY <1>1, <2>1, <2>3 DEF Drives
  <2> QED BY <2>4 DEF DrivenIn
<1> SUFFICES ASSUME NEW m \in Namespaces,
                    sequence_queue'[m] # <<>> \/ sequence_contexts'[m] # NoContext
             PROVE  DrivenIn(m, registered_steps', receipts')
  BY DrivenMeans DEF WaitingHasDriver
<1>9. CASE m = ns
  BY <1>4, <1>7, <1>9 DEF DrivenIn
<1>10. CASE m # ns
  BY <1>1, <1>8, <1>10
<1> QED BY <1>9, <1>10

DriverInv == ChainInv /\ StrandInv /\ WaitingHasDriver

LEMMA DriverStep == DriverInv /\ [Next]_vars => WaitingHasDriver'
<1> SUFFICES ASSUME DriverInv, [Next]_vars PROVE WaitingHasDriver'
  OBVIOUS
<1>0. TypeOK /\ ChainInv /\ StrandInv /\ WaitingHasDriver
  BY DEF DriverInv, ChainInv
<1>w. \A m \in Namespaces :
        sequence_queue[m] # <<>> \/ sequence_contexts[m] # NoContext
          => DrivenIn(m, registered_steps, receipts)
  BY <1>0, DrivenMeans DEF WaitingHasDriver
<1>a. ASSUME UNCHANGED <<registered_steps, receipts, sequence_queue, sequence_contexts>>
      PROVE  WaitingHasDriver'
  <2> SUFFICES ASSUME NEW m \in Namespaces,
                      sequence_queue'[m] # <<>> \/ sequence_contexts'[m] # NoContext
               PROVE  DrivenIn(m, registered_steps', receipts')
    BY DrivenMeans DEF WaitingHasDriver
  <2> QED BY <1>a, <1>w
<1>1. ASSUME NEW account \in Delegates \union {None}, set_authorized_executor(account)
      PROVE  WaitingHasDriver'
  BY <1>1, <1>a DEF set_authorized_executor, contractVars
<1>2. ASSUME NEW caller \in Callers, NEW step \in Steps, register_step(caller, step)
      PROVE  WaitingHasDriver'
  <2>1. PICK ns \in Namespaces : ns = manual_namespace(caller)
    BY DEF Namespaces, ManualNamespaces
  <2>2. /\ <<step>> \in Seq(Steps) /\ CanRegister(ns, <<step>>)
        /\ registered_steps' = Registered(ns, <<step>>)
        /\ receipts' = Yielded(ns, <<step>>)
        /\ UNCHANGED <<sequence_queue, sequence_contexts>>
    BY <1>2, <2>1 DEF register_step
  <2>3. SUFFICES ASSUME NEW m \in Namespaces,
                        sequence_queue'[m] # <<>> \/ sequence_contexts'[m] # NoContext
                 PROVE  DrivenIn(m, registered_steps', receipts')
    BY DrivenMeans DEF WaitingHasDriver
  <2>4. DrivenIn(m, registered_steps, receipts)
    BY <1>w, <2>2, <2>3
  <2>5. DrivenIn(m, Registered(ns, <<step>>), Yielded(ns, <<step>>))
    BY <1>0, <2>2, <2>4, RegisterDriven
  <2> QED BY <2>2, <2>5
<1>3. ASSUME NEW caller \in Callers, NEW plan \in Plans, execute_steps(caller, plan)
      PROVE  WaitingHasDriver'
  <2>1. PICK ns \in Namespaces : ns = manual_namespace(caller)
    BY DEF Namespaces, ManualNamespaces
  <2>2. plan \in Seq(Steps) /\ IdsOf(plan) \in Seq(StepIds)
    BY PlanFacts, IdsOfType
  <2> DEFINE R == Registered(ns, plan)
             Y == Yielded(ns, plan)
  <2>3. CanRegister(ns, plan) /\ StartRelease(ns, IdsOf(plan), R, Y)
        /\ UNCHANGED sequence_contexts
    BY <1>3, <2>1 DEF execute_steps
  <2>4. /\ R \in [Keys -> RegisteredStep \union {None}]
        /\ Y \in [YieldIds -> Receipt \union {None}]
        /\ StrandIn(R, Y, next_yield + Len(plan))
    BY <1>0, <2>2, <2>3, RegisterType, RegisterStrand
  <2>5. ASSUME NEW m \in Namespaces,
               sequence_queue[m] # <<>> \/ sequence_contexts[m] # NoContext
        PROVE  DrivenIn(m, R, Y)
    BY <1>0, <1>w, <2>2, <2>3, <2>5, RegisterDriven
  <2> HIDE DEF R, Y
  <2>6. sequence_queue \in [Namespaces -> Seq(StepIds)]
    BY <1>0 DEF TypeOK
  <2> QED BY <2>2, <2>3, <2>4, <2>5, <2>6, StartDriven
<1>4. ASSUME NEW who \in Accounts, NEW caller \in Callers, NEW order \in Orders,
             run_sequence(who, caller, order)
      PROVE  WaitingHasDriver'
  <2>1. PICK ns \in Namespaces : ns = manual_namespace(caller)
    BY DEF Namespaces, ManualNamespaces
  <2>2. order \in Seq(StepIds)
    BY PlansAssumption
  <2>3. StartRelease(ns, order, registered_steps, receipts) /\ UNCHANGED sequence_contexts
    BY <1>4, <2>1 DEF run_sequence
  <2>4. /\ registered_steps \in [Keys -> RegisteredStep \union {None}]
        /\ receipts \in [YieldIds -> Receipt \union {None}]
        /\ StrandIn(registered_steps, receipts, next_yield)
        /\ sequence_queue \in [Namespaces -> Seq(StepIds)]
    BY <1>0 DEF TypeOK, StrandInv
  <2> QED BY <1>w, <2>2, <2>3, <2>4, StartDriven
<1>5. ASSUME NEW y \in YieldIds, Deliver(y) PROVE WaitingHasDriver'
  BY <1>0, <1>5, DeliverDriven
<1>6. ASSUME NEW amount \in 1..MaxBalance, Credit(amount) PROVE WaitingHasDriver'
  BY <1>6, <1>a DEF Credit, contractVars
<1>7. CASE UNCHANGED vars
  BY <1>7, <1>a DEF vars, contractVars
<1> QED BY <1>1, <1>2, <1>3, <1>4, <1>5, <1>6, <1>7 DEF Next, Manual, Runtime

\* In manual runs neither a queue nor a saved result is orphaned: while ids are
\* queued or results saved under a caller, some released chain of that caller will
\* find its registration and pop or drop them, or one panicked.
THEOREM DriverSafe == Spec => []WaitingHasDriver
<1>1. Init => WaitingHasDriver
  BY DEF Init, WaitingHasDriver
<1>2. TypeOK /\ StrandInv /\ [Next]_vars => StrandInv'
  BY StrandStep
<1>3. ChainInv => TypeOK
  BY DEF ChainInv
<1>4. ChainInv /\ StrandInv /\ WaitingHasDriver /\ [Next]_vars => WaitingHasDriver'
  BY DriverStep DEF DriverInv
<1>5. Init => StrandInv
  BY StrandInit
<1> QED BY <1>1, <1>2, <1>3, <1>4, <1>5, ChainInvariant, PTL DEF Spec

----------------------------------------------------------------------------
(* The first manual run keeps its order.  Its order o is known from the    *)
(* places alone, and k is how far it has come: the chains placed before k  *)
(* resolved ok, that at k is the only one released, those after k wait for *)
(* the queue, which is the rest of o, or the queue has been dropped.       *)

\* Nothing of the chain has been released.
Staged(z) == Phase(z) \in {None, "waiting", "halted", "dropped"}

NotBegun ==
  /\ \A ns \in Namespaces : sequence_queue[ns] = <<>>
  /\ \A z \in YieldIds : Staged(z) /\ ordered[z].run = 0

\* The queue of ns, if there is one, is what follows place k of the order o.
QueueAfter(ns, o, k) ==
  /\ \A m \in Namespaces : sequence_queue[m] # <<>> => m = ns
  /\ sequence_queue[ns] # <<>> =>
       /\ Len(sequence_queue[ns]) = Len(o) - k
       /\ \A i \in 1..Len(sequence_queue[ns]) : sequence_queue[ns][i] = o[k + i]

\* One chain at most is released, in ns.
OneDriver(ns) ==
  /\ \A z \in YieldIds : Released(z) => receipts[z].ns = ns
  /\ \A y, z \in YieldIds : Released(y) /\ Released(z) => y = z

\* A chain of the run has the first place of its id in o, and has come as far as
\* the run.
InPlace(z, ns, o) ==
  /\ receipts[z] # None /\ receipts[z].ns = ns
  /\ ordered[z].pos \in 1..Len(o) /\ o[ordered[z].pos] = receipts[z].id
  /\ \A j \in 1..(ordered[z].pos - 1) : o[j] # receipts[z].id

AsFar(z, ns, k) ==
  /\ ordered[z].pos < k => Phase(z) = "ok"
  /\ ordered[z].pos = k => \A y \in YieldIds : Released(y) => y = z
  /\ ordered[z].pos > k => Staged(z) /\ (sequence_queue[ns] # <<>> => Phase(z) = "waiting")

FirstRunAt(ns, o, k) ==
  /\ ns \in Namespaces /\ o \in Seq(StepIds) /\ k \in 1..Len(o)
  /\ QueueAfter(ns, o, k) /\ OneDriver(ns)
  /\ \A z \in YieldIds : ordered[z].run # 0 => InPlace(z, ns, o) /\ AsFar(z, ns, k)

FirstRunInv ==
  /\ releases = 0 => NotBegun
  /\ releases = 1 => \E ns, o, k : FirstRunAt(ns, o, k)

LEMMA StagedIsNot ==
  ASSUME NEW z, Staged(z)
  PROVE  ~Released(z) /\ Phase(z) \notin SentPhases /\ Phase(z) # "ok"
  BY NoneAssumption DEF Staged, Released, ReleasedPhases, SentPhases, Phases, LivePhases,
                        EndPhases

LEMMA FirstRunMeans == TypeOK /\ FirstRunInv => FirstRunOrdered
<1> SUFFICES ASSUME TypeOK, FirstRunInv, releases = 1, NEW y \in YieldIds, NEW z \in YieldIds,
                    ordered[z].run # 0, ordered[y].run = ordered[z].run,
                    ordered[y].pos + 1 = ordered[z].pos, Phase(z) \in SentPhases
             PROVE  Phase(y) = "ok"
  BY DEF FirstRunOrdered, OrderedIn
<1>1. PICK ns, o, k : FirstRunAt(ns, o, k)
  BY DEF FirstRunInv
<1>2. AsFar(y, ns, k) /\ AsFar(z, ns, k) /\ k \in 1..Len(o) /\ Len(o) \in Nat
  BY <1>1 DEF FirstRunAt
<1>3. ~Staged(z)
  BY StagedIsNot
<1>4. ordered[y].pos \in Nat /\ ordered[z].pos \in Nat
  BY DEF TypeOK, Place
<1>5. ordered[y].pos < k
  BY <1>2, <1>3, <1>4 DEF AsFar
<1> QED BY <1>2, <1>5 DEF AsFar

\* Steps that neither release nor end a chain; a registration may yield new ones.
LEMMA CalmKeepsFirst ==
  ASSUME TypeOK, FirstRunInv, UNCHANGED <<sequence_queue, ordered, releases>>,
         \A z \in YieldIds : \/ receipts'[z] = receipts[z]
                             \/ receipts[z] = None /\ Phase(z)' = "waiting"
  PROVE  FirstRunInv'
<1>1. ASSUME NEW z \in YieldIds
      PROVE  /\ Staged(z) => Staged(z)'
             /\ Released(z)' <=> Released(z)
             /\ receipts[z] # None => receipts'[z] = receipts[z] /\ Phase(z)' = Phase(z)
             /\ Phase(z) # None => receipts'[z] = receipts[z]
  BY <1>1, NoneAssumption
     DEF Staged, Released, Phase, ReleasedPhases, Phases, LivePhases, EndPhases
<1>2. NotBegun => NotBegun'
  BY <1>1 DEF NotBegun
<1>3. ASSUME NEW ns, NEW o, NEW k, FirstRunAt(ns, o, k)
      PROVE  FirstRunAt(ns, o, k)'
  <2>1. QueueAfter(ns, o, k)'
    BY <1>3 DEF FirstRunAt, QueueAfter
  <2>2. OneDriver(ns)'
    <3>1. ASSUME NEW z \in YieldIds, Released(z) PROVE receipts'[z] = receipts[z]
      BY <1>1, <3>1, NoneAssumption DEF Released, ReleasedPhases, Phases, LivePhases
    <3> QED BY <1>1, <1>3, <3>1 DEF FirstRunAt, OneDriver
  <2>3. ASSUME NEW z \in YieldIds, ordered'[z].run # 0
        PROVE  InPlace(z, ns, o)' /\ AsFar(z, ns, k)'
    <3>1. InPlace(z, ns, o) /\ AsFar(z, ns, k)
      BY <1>3, <2>3 DEF FirstRunAt
    <3>2. receipts'[z] = receipts[z] /\ Phase(z)' = Phase(z)
      BY <1>1, <3>1 DEF InPlace
    <3>3. InPlace(z, ns, o)'
      BY <3>1, <3>2 DEF InPlace
    <3>4. AsFar(z, ns, k)'
      BY <1>1, <3>1, <3>2 DEF AsFar, Staged
    <3> QED BY <3>3, <3>4
  <2> QED BY <1>3, <2>1, <2>2, <2>3 DEF FirstRunAt
<1> QED BY <1>2, <1>3 DEF FirstRunInv

\* A callback moves its own chain: a released one within the run, or one that ends
\* and drops the queue.
LEMMA MoveKeepsFirst ==
  ASSUME TypeOK, FirstRunInv, NEW y \in YieldIds, receipts[y] # None,
         Live(y), NEW phase \in Phases, MoveTo(y, phase),
         Released(y) \/ phase = "halted",
         UNCHANGED <<ordered, releases>>,
         \/ Released(y) /\ UNCHANGED sequence_queue
         \/ phase \notin ReleasedPhases
              /\ sequence_queue' = [sequence_queue EXCEPT ![receipts[y].ns] = <<>>]
  PROVE  FirstRunInv'
<1>1. /\ Phase(y)' = phase
      /\ \A z \in YieldIds : z # y => Phase(z)' = Phase(z)
      /\ \A z \in YieldIds : receipts[z] # None =>
           receipts'[z] # None /\ receipts'[z].ns = receipts[z].ns
             /\ receipts'[z].id = receipts[z].id
  <2>1. \A z \in YieldIds : receipts[z] # None =>
          Key(z)' = Key(z) /\ receipts'[z].ns = receipts[z].ns
    BY MoveFacts
  <2>2. receipts'[y] # None /\ \A z \in YieldIds : z # y => receipts'[z] = receipts[z]
    BY MoveFacts DEF MoveTo, TypeOK
  <2> QED BY <2>1, <2>2, MoveFacts DEF Key
<1>2. \A m \in Namespaces : \/ sequence_queue'[m] = <<>>
                            \/ /\ sequence_queue'[m] = sequence_queue[m]
                               /\ Released(y) \/ m # receipts[y].ns
  BY KeyType DEF TypeOK
<1>3. \A z \in YieldIds : Released(z)' => Released(z)
  BY <1>1 DEF Released, ReleasedPhases
<1>4. NotBegun => NotBegun'
  <2> SUFFICES ASSUME NotBegun PROVE NotBegun'
    OBVIOUS
  <2>1. \A z \in YieldIds : ~Released(z) /\ Staged(z)
    BY StagedIsNot DEF NotBegun
  <2>2. phase = "halted"
    BY <2>1
  <2>3. \A z \in YieldIds : Staged(z)'
    BY <1>1, <2>1, <2>2 DEF Staged
  <2> QED BY <1>2, <2>3 DEF NotBegun
<1>5. ASSUME NEW ns, NEW o, NEW k, FirstRunAt(ns, o, k)
      PROVE  FirstRunAt(ns, o, k)'
  <2>1. ns \in Namespaces /\ QueueAfter(ns, o, k) /\ OneDriver(ns)
    BY <1>5 DEF FirstRunAt
  <2>2. QueueAfter(ns, o, k)'
    BY <1>2, <2>1 DEF QueueAfter
  <2>3. OneDriver(ns)'
    <3>1. \A z \in YieldIds : Released(z) => receipts[z] # None
      BY LiveHasReceipt DEF Released, Phases, LivePhases
    <3> QED BY <1>1, <1>3, <2>1, <3>1 DEF OneDriver
  <2>4. ASSUME NEW z \in YieldIds, ordered'[z].run # 0
        PROVE  InPlace(z, ns, o)' /\ AsFar(z, ns, k)'
    <3>1. InPlace(z, ns, o) /\ AsFar(z, ns, k)
      BY <1>5, <2>4 DEF FirstRunAt
    <3>2. InPlace(z, ns, o)'
      BY <1>1, <3>1 DEF InPlace
    <3>3. ordered'[z].pos < k => Phase(z)' = "ok"
      <4> SUFFICES ASSUME ordered[z].pos < k PROVE Phase(z)' = "ok"
        OBVIOUS
      <4>1. Phase(z) = "ok"
        BY <3>1 DEF AsFar
      <4>2. z # y
        BY <4>1 DEF Live, LivePhases, ReleasedPhases
      <4> QED BY <1>1, <4>1, <4>2
    <3>4. ordered'[z].pos = k => \A w \in YieldIds : Released(w)' => w = z
      BY <1>3, <3>1 DEF AsFar
    <3>5. ordered'[z].pos > k => Staged(z)' /\ (sequence_queue'[ns] # <<>> => Phase(z)' = "waiting")
      <4> SUFFICES ASSUME ordered[z].pos > k
                   PROVE  Staged(z)' /\ (sequence_queue'[ns] # <<>> => Phase(z)' = "waiting")
        OBVIOUS
      <4>1. Staged(z) /\ (sequence_queue[ns] # <<>> => Phase(z) = "waiting") /\ ~Released(z)
        BY <3>1, StagedIsNot DEF AsFar
      <4>2. CASE z = y
        BY <1>1, <1>2, <2>1, <3>1, <4>1, <4>2 DEF Staged, InPlace
      <4>3. CASE z # y
        BY <1>1, <1>2, <2>1, <4>1, <4>3 DEF Staged
      <4> QED BY <4>2, <4>3
    <3> QED BY <3>2, <3>3, <3>4, <3>5 DEF AsFar
  <2> QED BY <1>5, <2>2, <2>3, <2>4 DEF FirstRunAt
<1> QED BY <1>4, <1>5 DEF FirstRunInv

\* A successful resolution releases the head of the queue: the run is one place
\* further.
LEMMA AdvanceKeepsFirst ==
  ASSUME ChainInv, NEW y \in YieldIds, Phase(y) = "resolve_ok", receipts[y] # None,
         NEW h \in YieldIds, receipts[h] # None, Phase(h) \in {"waiting", "resumed"},
         NEW ns, NEW o, NEW k, FirstRunAt(ns, o, k), sequence_queue[ns] # <<>>,
         Key(h) = <<ns, Head(sequence_queue[ns])>>,
         receipts' = [receipts EXCEPT ![y].phase = "ok", ![h].phase = "resumed"],
         sequence_queue' = [sequence_queue EXCEPT ![ns] = Tail(@)],
         UNCHANGED <<ordered, releases>>
  PROVE  FirstRunAt(ns, o, k + 1)'
<1>1. /\ TypeOK /\ ns \in Namespaces /\ o \in Seq(StepIds) /\ k \in 1..Len(o) /\ k \in Nat
      /\ Len(o) \in Nat /\ QueueAfter(ns, o, k) /\ OneDriver(ns) /\ sequence_queue[ns] \in Seq(StepIds)
  BY DEF ChainInv, TypeOK, FirstRunAt
<1>2. PICK q \in Seq(StepIds) : q = sequence_queue[ns]
  BY <1>1
<1>3. /\ q # <<>> /\ Len(q) = Len(o) - k /\ \A i \in 1..Len(q) : q[i] = o[k + i]
      /\ Len(q) \in Nat /\ Len(q) > 0
  BY <1>1, <1>2 DEF QueueAfter
<1>4. k + 1 \in 1..Len(o) /\ Head(q) = o[k + 1]
  BY <1>1, <1>3
<1>5. /\ receipts[y] \in Receipt /\ receipts[h] \in Receipt /\ h # y
      /\ receipts[h].ns = ns /\ receipts[h].id = o[k + 1]
      /\ receipts[y].phase = "resolve_ok"
  <2>1. receipts[y] \in Receipt /\ receipts[h] \in Receipt /\ Phase(y) = receipts[y].phase
    BY <1>1, KeyType
  <2>2. h # y
    OBVIOUS
  <2> QED BY <1>2, <1>4, <2>1, <2>2 DEF Key
<1>6. /\ receipts'[y] = [receipts[y] EXCEPT !.phase = "ok"]
      /\ receipts'[h] = [receipts[h] EXCEPT !.phase = "resumed"]
      /\ \A z \in YieldIds : z # y /\ z # h => receipts'[z] = receipts[z]
  BY <1>1, <1>5 DEF TypeOK
<1>7. /\ receipts'[y] \in Receipt /\ receipts'[y].phase = "ok"
      /\ receipts'[h] \in Receipt /\ receipts'[h].phase = "resumed"
      /\ receipts'[y].ns = receipts[y].ns /\ receipts'[y].id = receipts[y].id
      /\ receipts'[h].ns = receipts[h].ns /\ receipts'[h].id = receipts[h].id
  BY <1>5, <1>6, PhaseNames DEF Receipt
<1>8. /\ Phase(y)' = "ok" /\ Phase(h)' = "resumed"
      /\ \A z \in YieldIds : z # y /\ z # h => Phase(z)' = Phase(z)
  <2>1. receipts'[y] # None /\ receipts'[h] # None
    BY <1>7, NoneAssumption
  <2>2. Phase(y)' = "ok" /\ Phase(h)' = "resumed"
    BY ONLY <1>7, <2>1 DEF Phase
  <2>3. \A z \in YieldIds : z # y /\ z # h => Phase(z)' = Phase(z)
    BY ONLY <1>6 DEF Phase
  <2> QED BY <2>2, <2>3
<1>9. /\ Released(y) /\ \A z \in YieldIds : Released(z) => z = y
      /\ \A z \in YieldIds : Released(z)' => z = h
  <2>1. Released(y)
    BY DEF Released, ReleasedPhases
  <2>2. \A z \in YieldIds : Released(z) => z = y
    BY <1>1, <2>1 DEF OneDriver
  <2> QED BY <1>8, <2>1, <2>2 DEF Released, ReleasedPhases
<1>10. QueueAfter(ns, o, k + 1)'
  <2>1. PICK r \in Seq(StepIds) : r = Tail(q)
    <3>1. Tail(q) \in Seq(StepIds)
      BY ONLY q \in Seq(StepIds), <1>3
    <3> QED BY <3>1
  <2>2. Len(r) = Len(q) - 1 /\ \A i \in 1..Len(r) : r[i] = q[i + 1]
    BY <1>2, <1>3, <2>1
  <2>3. sequence_queue'[ns] = r /\ \A m \in Namespaces : m # ns => sequence_queue'[m] = <<>>
    BY <1>1, <1>2, <2>1 DEF TypeOK, QueueAfter
  <2>4. ASSUME NEW i \in 1..Len(r) PROVE r[i] = o[(k + 1) + i]
    <3>1. i \in 1..Len(r) /\ Len(r) = Len(q) - 1 /\ Len(q) \in Nat /\ k \in Nat
      BY <1>1, <1>3, <2>2
    <3>2. i + 1 \in 1..Len(q) /\ k + (i + 1) = (k + 1) + i
      BY ONLY <3>1
    <3> QED BY <1>3, <2>2, <3>2
  <2>5. Len(r) = Len(o) - (k + 1)
    BY <1>1, <1>3, <2>2
  <2> QED BY <2>3, <2>4, <2>5 DEF QueueAfter
<1>11. OneDriver(ns)'
  BY <1>5, <1>7, <1>9 DEF OneDriver
<1>12. ASSUME NEW z \in YieldIds, ordered'[z].run # 0
       PROVE  InPlace(z, ns, o)' /\ AsFar(z, ns, k + 1)'
  <2>1. InPlace(z, ns, o) /\ AsFar(z, ns, k)
    BY <1>12 DEF FirstRunAt
  <2>2. /\ ordered[z].pos \in Nat /\ ordered' = ordered
    BY <1>1 DEF TypeOK, Place
  <2>3. receipts'[z] # None /\ receipts'[z].ns = receipts[z].ns /\ receipts'[z].id = receipts[z].id
    <3>1. CASE z = y
      BY ONLY <1>7, <3>1, NoneAssumption
    <3>2. CASE z = h
      BY ONLY <1>7, <3>2, NoneAssumption
    <3>3. CASE z # y /\ z # h
      <4>1. receipts'[z] = receipts[z] /\ receipts[z] # None
        BY <1>6, <2>1, <3>3 DEF InPlace
      <4> QED BY ONLY <4>1
    <3> QED BY <3>1, <3>2, <3>3
  <2>4. InPlace(z, ns, o)'
    BY <2>1, <2>3 DEF InPlace
  <2>5. CASE ordered[z].pos < k
    <3>1. z # y /\ z # h
      BY <2>1, <2>5 DEF AsFar
    <3> QED BY <1>1, <1>8, <2>1, <2>2, <2>4, <2>5, <3>1 DEF AsFar
  <2>6. CASE ordered[z].pos = k
    <3>1. z = y
      BY <1>9, <2>1, <2>6 DEF AsFar
    <3> QED BY <1>1, <1>8, <2>2, <2>4, <2>6, <3>1 DEF AsFar
  <2>7. CASE ordered[z].pos > k
    <3>1. Staged(z) /\ Phase(z) = "waiting" /\ z # y
      BY <1>9, <2>1, <2>7, StagedIsNot DEF AsFar
    <3>2. CASE ordered[z].pos = k + 1
      <4>1. Key(z) = Key(h)
        BY <1>2, <1>4, <2>1, <3>2 DEF InPlace, Key
      <4>2. Found(z).yield = z /\ Found(h).yield = h
        BY <3>1 DEF ChainInv, LiveRegistered, Live, LivePhases, ReleasedPhases
      <4>3. z = h
        BY <4>1, <4>2 DEF Found
      <4> QED BY <1>1, <1>9, <2>2, <2>4, <3>2, <4>3 DEF AsFar
    <3>3. CASE ordered[z].pos > k + 1
      <4>1. k + 1 \in 1..(ordered[z].pos - 1)
        BY <1>1, <2>2, <3>3
      <4>2. z # h
        BY <1>5, <2>1, <4>1 DEF InPlace
      <4>3. Phase(z)' = "waiting" /\ Staged(z)'
        BY <1>8, <3>1, <4>2 DEF Staged
      <4> QED BY <1>1, <2>2, <2>4, <3>3, <4>3 DEF AsFar
    <3> QED BY <1>1, <2>2, <2>7, <3>2, <3>3
  <2> QED BY <1>1, <2>2, <2>5, <2>6, <2>7
<1> QED BY <1>1, <1>4, <1>10, <1>11, <1>12 DEF FirstRunAt

LEMMA ReleaseKeepsFirst ==
  ASSUME ChainInv, StrandInv, FirstRunInv, NEW y \in YieldIds, Phase(y) = "resolve_ok",
         ReleaseNext(y), UNCHANGED <<ordered, releases>>
  PROVE  FirstRunInv'
<1>0. /\ TypeOK /\ receipts[y] # None /\ receipts[y].ns \in Namespaces
      /\ receipts[y].phase = "resolve_ok" /\ Released(y) /\ Live(y)
  BY PhaseNames, LiveHasReceipt, KeyType
     DEF ChainInv, Released, Live, LivePhases, ReleasedPhases
<1>n. PICK ns \in Namespaces : ns = receipts[y].ns
  BY <1>0
<1> DEFINE reg == Without(Key(y))
           next == Head(sequence_queue[ns])
           entry == reg[<<ns, next>>]
<1>1. CASE entry # None /\ CanResume(receipts, entry.yield)
  <2>1. /\ sequence_queue[ns] # <<>>
        /\ receipts' = [receipts EXCEPT ![y].phase = "ok", ![entry.yield].phase = "resumed"]
        /\ receipts[entry.yield] # None
        /\ receipts[entry.yield].phase \in {"waiting", "resumed"}
        /\ sequence_queue' = [sequence_queue EXCEPT ![ns] = Tail(@)]
    BY <1>1, <1>n DEF ReleaseNext, CanResume
  <2>2. <<ns, next>> \in Keys
    BY <1>0, <2>1 DEF TypeOK, Keys
  <2>3. entry = registered_steps[<<ns, next>>]
    BY <1>0, <1>1, <1>n, <2>2 DEF Without, TypeOK
  <2>4. entry.yield \in YieldIds /\ Key(entry.yield) = <<ns, next>>
    BY <1>0, <1>1, <2>2, <2>3 DEF StrandInv, StrandIn, TypeOK, RegisteredStep, Key
  <2>5. PICK h \in YieldIds : h = entry.yield
    BY <2>4
  <2> HIDE DEF entry, reg
  <2>6. Phase(h) \in {"waiting", "resumed"}
    BY <2>1, <2>5 DEF Phase
  <2>7. releases' = 1 => releases = 1
    OBVIOUS
  <2>8. releases' = 0 => NotBegun'
    BY <1>0, StagedIsNot DEF FirstRunInv, NotBegun
  <2>9. ASSUME NEW ms, NEW o, NEW k, FirstRunAt(ms, o, k)
        PROVE  FirstRunAt(ms, o, k + 1)'
    <3>1. ms = ns
      BY <1>0, <1>n, <2>9 DEF FirstRunAt, OneDriver
    <3>2. /\ receipts[h] # None /\ Key(h) = <<ns, Head(sequence_queue[ns])>>
          /\ receipts' = [receipts EXCEPT ![y].phase = "ok", ![h].phase = "resumed"]
      BY <2>1, <2>4, <2>5
    <3> QED BY <1>0, <2>1, <2>6, <2>9, <3>1, <3>2, AdvanceKeepsFirst
  <2>10. releases' = 1 => \E ms, o, k : FirstRunAt(ms, o, k)'
    <3> SUFFICES ASSUME releases = 1 PROVE \E ms, o, k : FirstRunAt(ms, o, k)'
      BY <2>7
    <3>1. PICK ms, o, k : FirstRunAt(ms, o, k)
      BY DEF FirstRunInv
    <3>2. FirstRunAt(ms, o, k + 1)'
      BY <2>9, <3>1
    <3> QED BY <3>2
  <2> QED BY <2>8, <2>10 DEF FirstRunInv
<1>2. CASE ~(entry # None /\ CanResume(receipts, entry.yield))
  <2>1. MoveTo(y, "ok") /\ sequence_queue' = [sequence_queue EXCEPT ![receipts[y].ns] = <<>>]
    BY <1>2, <1>n DEF ReleaseNext, Halt
  <2> QED BY <1>0, <2>1, PhaseNames, MoveKeepsFirst DEF ReleasedPhases
<1> QED BY <1>1, <1>2

LEMMA DispatchKeepsFirst ==
  ASSUME TypeOK, FirstRunInv, NEW y \in YieldIds, Released(y), receipts[y] # None,
         halt_on_materialize_failure(y) \/ dispatch_promise_for_call(y),
         UNCHANGED <<ordered, releases>>
  PROVE  FirstRunInv'
<1>0. Live(y)
  BY DEF Released, Live, LivePhases
<1>1. CASE halt_on_materialize_failure(y)
  BY <1>0, <1>1, PhaseNames, MoveKeepsFirst
     DEF halt_on_materialize_failure, Halt, ReleasedPhases
<1>2. CASE dispatch_promise_for_call(y)
  <2>1. PICK phase \in {"asserted_target", "target", "aborted"} : MoveTo(y, phase)
    BY <1>2 DEF dispatch_promise_for_call
  <2>2. UNCHANGED sequence_queue
    BY <1>2 DEF dispatch_promise_for_call, contractVars
  <2> QED BY <1>0, <2>1, <2>2, PhaseNames, MoveKeepsFirst
<1> QED BY <1>1, <1>2

LEMMA DeliverKeepsFirst ==
  ASSUME ChainInv, StrandInv, FirstRunInv, NEW y \in YieldIds, Deliver(y)
  PROVE  FirstRunInv'
<1>l. /\ LivePhases = {"waiting", "resumed", "gate", "target", "asserted_target",
                       "check", "resolve_ok", "resolve_err"}
      /\ ReleasedPhases = LivePhases \ {"waiting"}
  BY DEF LivePhases, ReleasedPhases
<1>0. ASSUME Phase(y) \in LivePhases
      PROVE  Live(y) /\ receipts[y] # None /\ Found(y) # None /\ Found(y).yield = y
  BY <1>0, LiveHasReceipt DEF ChainInv, LiveRegistered, Live, Phases
<1>u. TypeOK /\ UNCHANGED <<ordered, releases>>
  BY DEF Deliver, historyVars, ChainInv
<1>1. CASE on_step_resumed(y)
  <2>0. Live(y) /\ receipts[y] # None /\ Found(y) # None
    BY <1>1, <1>l, <1>0 DEF on_step_resumed, on_step_resumed_ok, on_step_resumed_err
  <2>1. CASE on_step_resumed_ok(y) /\ Found(y).call.gated
    <3>1. PICK phase \in {"gate", "aborted"} : MoveTo(y, phase)
      BY <2>1 DEF on_step_resumed_ok
    <3>2. UNCHANGED sequence_queue /\ Released(y)
      BY <1>l, <2>1 DEF on_step_resumed_ok, contractVars, Released
    <3> QED BY <1>u, <2>0, <3>1, <3>2, PhaseNames, MoveKeepsFirst
  <2>2. CASE on_step_resumed_ok(y) /\ ~Found(y).call.gated
    <3>1. Released(y)
      BY <1>l, <2>2 DEF on_step_resumed_ok, Released
    <3> QED BY <1>u, <2>0, <2>2, <3>1, DispatchKeepsFirst DEF on_step_resumed_ok
  <2>3. CASE on_step_resumed_err(y)
    <3>1. /\ MoveTo(y, "halted")
          /\ sequence_queue' = [sequence_queue EXCEPT ![receipts[y].ns] = <<>>]
      BY <2>3 DEF on_step_resumed_err, Halt
    <3> QED BY <1>u, <1>l, <2>0, <3>1, PhaseNames, MoveKeepsFirst
  <2>4. CASE WakesUpLate(y)
    BY <2>0, <2>4 DEF WakesUpLate
  <2> QED BY <1>1, <2>1, <2>2, <2>3, <2>4 DEF on_step_resumed
<1>2. CASE on_pre_gate_checked(y)
  <2>0. /\ Live(y) /\ receipts[y] # None /\ Found(y) # None /\ Found(y).yield = y
        /\ Phase(y) = "gate" /\ Released(y)
    BY <1>2, <1>l, <1>0 DEF on_pre_gate_checked, Released
  <2>1. CASE WakesUpLate(y)
    BY <2>0, <2>1 DEF WakesUpLate
  <2>2. CASE on_pre_gate_checked_ungated(y)
    <3>1. Key(y) \in Keys /\ receipts[y].phase = "gate"
      BY <2>0, KeyType DEF ChainInv
    <3>2. Found(y).call.gated
      BY <2>0, <3>1 DEF StrandInv, StrandIn, Found
    <3> QED BY <2>2, <3>2 DEF on_pre_gate_checked_ungated
  <2>3. CASE on_pre_gate_checked_in_range(y)
    BY <1>u, <2>0, <2>3, DispatchKeepsFirst DEF on_pre_gate_checked_in_range
  <2>4. CASE halt_sequence_on_pre_gate_failure(y)
    <3>1. /\ MoveTo(y, "halted")
          /\ sequence_queue' = [sequence_queue EXCEPT ![receipts[y].ns] = <<>>]
      BY <2>4 DEF halt_sequence_on_pre_gate_failure, Halt
    <3> QED BY <1>u, <1>l, <2>0, <3>1, PhaseNames, MoveKeepsFirst
  <2> QED BY <1>2, <2>1, <2>2, <2>3, <2>4 DEF on_pre_gate_checked
<1>3. ASSUME NEW ok \in BOOLEAN,
             \/ TargetReturns(y, ok)
             \/ on_asserted_run_postcheck(y, ok)
             \/ on_asserted_evaluate_postcheck(y, ok)
      PROVE  FirstRunInv'
  <2>1. Live(y) /\ receipts[y] # None /\ Released(y)
    BY <1>3, <1>l, <1>0 DEF TargetReturns, on_asserted_run_postcheck,
                            on_asserted_evaluate_postcheck, Released
  <2>2. PICK phase \in {"resolve_ok", "resolve_err", "check"} : MoveTo(y, phase)
    BY <1>3 DEF TargetReturns, on_asserted_run_postcheck, on_asserted_evaluate_postcheck
  <2>3. UNCHANGED sequence_queue
    BY <1>3 DEF TargetReturns, on_asserted_run_postcheck,
                on_asserted_evaluate_postcheck, contractVars
  <2> QED BY <1>u, <2>1, <2>2, <2>3, PhaseNames, MoveKeepsFirst
<1>4. CASE on_step_resolved_ok(y)
  <2>0. Live(y) /\ receipts[y] # None /\ Phase(y) = "resolve_ok" /\ Released(y)
    BY <1>4, <1>l, <1>0 DEF on_step_resolved_ok, Released
  <2>1. CASE ReleaseNext(y)
    BY <1>u, <2>0, <2>1, ReleaseKeepsFirst
  <2>2. CASE CompleteSequence(y)
    BY <1>u, <2>0, <2>2, PhaseNames, MoveKeepsFirst DEF CompleteSequence
  <2> QED BY <1>4, <2>1, <2>2 DEF on_step_resolved_ok
<1>5. CASE on_step_resolved_err(y)
  <2>1. /\ Live(y) /\ receipts[y] # None /\ Released(y) /\ MoveTo(y, "err")
        /\ sequence_queue' = [sequence_queue EXCEPT ![receipts[y].ns] = <<>>]
    BY <1>5, <1>l, <1>0 DEF on_step_resolved_err, Halt, Released
  <2> QED BY <1>u, <1>l, <2>1, PhaseNames, MoveKeepsFirst
<1> QED BY <1>1, <1>2, <1>3, <1>4, <1>5 DEF Deliver

\* The first release of the account: nothing has been released before it.
LEMMA StartIsFirst ==
  ASSUME NEW ns \in Namespaces, NEW order \in Seq(StepIds), NEW next,
         NEW reg \in [Keys -> RegisteredStep \union {None}],
         NEW rcpts \in [YieldIds -> Receipt \union {None}],
         StrandIn(reg, rcpts, next), StartRelease(ns, order, reg, rcpts),
         sequence_queue \in [Namespaces -> Seq(StepIds)],
         releases = 0, NotBegun,
         \A z \in YieldIds : rcpts[z] # None => rcpts[z].phase \in {"waiting", "halted", "dropped"}
  PROVE  FirstRunAt(ns, order, 1)'
<1> DEFINE h == reg[<<ns, Head(order)>>].yield
<1>1. /\ registered_steps' = reg
      /\ receipts' = [rcpts EXCEPT ![h].phase = "resumed"]
      /\ rcpts[h] # None /\ order # <<>>
      /\ sequence_queue' = [sequence_queue EXCEPT ![ns] = Tail(order)]
      /\ \A i \in DOMAIN order : reg[<<ns, order[i]>>] # None
      /\ ordered' =
           [y \in YieldIds |->
              IF \E i \in DOMAIN order : reg[<<ns, order[i]>>].yield = y
              THEN [run |-> releases + 1, pos |-> FirstPlace(ns, order, reg, y)]
              ELSE ordered[y]]
  BY DEF StartRelease, CanResume, FirstPlace
<1>2. /\ Len(order) \in Nat /\ Len(order) > 0 /\ DOMAIN order = 1..Len(order)
      /\ Head(order) = order[1] /\ 1 \in DOMAIN order
      /\ \A i \in DOMAIN order : order[i] \in StepIds
  BY <1>1
<1>3. ASSUME NEW i \in DOMAIN order
      PROVE  LET z == reg[<<ns, order[i]>>].yield
             IN  /\ z \in YieldIds /\ rcpts[z] # None /\ rcpts[z].ns = ns
                 /\ rcpts[z].id = order[i] /\ rcpts[z].phase = "waiting"
  <2> DEFINE key == <<ns, order[i]>>
             z == reg[key].yield
  <2>1. key \in Keys /\ reg[key] # None
    BY <1>1, <1>2 DEF Keys
  <2>2. z \in YieldIds
    BY <2>1 DEF RegisteredStep
  <2>3. /\ rcpts[z] # None /\ <<rcpts[z].ns, rcpts[z].id>> = key
        /\ rcpts[z].phase \in LivePhases \union {"aborted"}
    BY <2>1 DEF StrandIn
  <2>4. rcpts[z].phase \in {"waiting", "halted", "dropped"}
    BY <2>2, <2>3
  <2>5. rcpts[z].phase = "waiting"
    BY <2>3, <2>4 DEF LivePhases, ReleasedPhases
  <2> QED BY <2>2, <2>3, <2>5
<1>4. h \in YieldIds /\ rcpts[h].ns = ns /\ rcpts[h].id = order[1]
  BY <1>2, <1>3
<1>5. reg[<<ns, order[1]>>].yield = h
  BY <1>2
<1> HIDE DEF h
<1>6. /\ receipts'[h] # None /\ receipts'[h].phase = "resumed"
      /\ receipts'[h].ns = rcpts[h].ns /\ receipts'[h].id = rcpts[h].id
      /\ \A z \in YieldIds : z # h => receipts'[z] = rcpts[z]
  <2>1. rcpts[h] \in Receipt /\ receipts'[h] = [rcpts[h] EXCEPT !.phase = "resumed"]
    BY <1>1, <1>4
  <2>2. [rcpts[h] EXCEPT !.phase = "resumed"] \in Receipt
    BY <2>1, PhaseNames DEF Receipt
  <2>3. \A z \in YieldIds : z # h => receipts'[z] = rcpts[z]
    BY <1>1
  <2> QED BY <2>1, <2>2, <2>3, NoneAssumption DEF Receipt
<1>7. /\ \A z \in YieldIds : z # h => Staged(z)'
      /\ \A z \in YieldIds : Released(z)' => z = h
  <2>1. \A z \in YieldIds : z # h => Staged(z)'
    BY <1>6 DEF Staged, Phase
  <2>2. ASSUME NEW z \in YieldIds, z # h PROVE ~Released(z)'
    <3>1. Phase(z)' \in {None, "waiting", "halted", "dropped"}
      BY <2>1, <2>2 DEF Staged
    <3> QED BY <3>1, NoneAssumption DEF Released, ReleasedPhases, Phases, LivePhases
  <2> QED BY <2>1, <2>2
<1>8. QueueAfter(ns, order, 1)'
  <2>0. Tail(order) \in Seq(StepIds)
    <3>1. order \in Seq(StepIds) /\ order # <<>>
      BY <1>1
    <3> QED BY ONLY <3>1
  <2>1. PICK q \in Seq(StepIds) : q = Tail(order)
    BY <2>0
  <2>2. Len(q) = Len(order) - 1 /\ \A i \in 1..Len(q) : q[i] = order[i + 1]
    BY <1>2, <2>1
  <2>3. Len(q) \in Nat /\ \A i \in 1..Len(q) : i + 1 = 1 + i
    OBVIOUS
  <2>4. sequence_queue'[ns] = q /\ \A m \in Namespaces : m # ns => sequence_queue'[m] = <<>>
    BY <1>1, <2>1 DEF NotBegun
  <2> QED BY <2>2, <2>3, <2>4 DEF QueueAfter
<1>9. OneDriver(ns)'
  BY <1>4, <1>6, <1>7 DEF OneDriver
<1>10. ASSUME NEW z \in YieldIds, ordered'[z].run # 0
       PROVE  InPlace(z, ns, order)' /\ AsFar(z, ns, 1)'
  <2>1. \E i \in DOMAIN order : reg[<<ns, order[i]>>].yield = z
    BY <1>1, <1>10 DEF NotBegun
  <2>2. PICK p : p = FirstPlace(ns, order, reg, z)
    OBVIOUS
  <2>3. /\ p \in DOMAIN order /\ p \in Nat /\ reg[<<ns, order[p]>>].yield = z
        /\ \A j \in 1..(p - 1) : reg[<<ns, order[j]>>].yield # z
    <3>1. IsFirst(ns, order, reg, z, p)
      BY <2>1, <2>2, FirstPlaceFacts
    <3> QED BY <3>1 DEF IsFirst
  <2>4. ordered'[z].pos = p
    BY <1>1, <2>1, <2>2
  <2>5. rcpts[z] # None /\ rcpts[z].ns = ns /\ rcpts[z].id = order[p] /\ rcpts[z].phase = "waiting"
    BY <1>3, <2>3
  <2>6. receipts'[z] # None /\ receipts'[z].ns = ns /\ receipts'[z].id = order[p]
    BY <1>6, <2>5
  <2>7. InPlace(z, ns, order)'
    BY <1>2, <2>3, <2>4, <2>6 DEF InPlace
  <2>8. p = 1 => z = h
    BY <1>5, <2>3
  <2>9. p > 1 => Staged(z)' /\ Phase(z)' = "waiting"
    <3> SUFFICES ASSUME p > 1 PROVE Staged(z)' /\ Phase(z)' = "waiting"
      OBVIOUS
    <3>1. 1 \in 1..(p - 1)
      BY <2>3
    <3>2. z # h
      BY <1>5, <2>3, <3>1
    <3> QED BY <1>6, <1>7, <2>5, <3>2 DEF Phase
  <2> QED BY <1>2, <1>7, <2>3, <2>4, <2>7, <2>8, <2>9 DEF AsFar
<1> QED BY <1>2, <1>8, <1>9, <1>10 DEF FirstRunAt

\* A start is the first one, or a later one, of which nothing is said.
LEMMA StartKeepsFirst ==
  ASSUME TypeOK, FirstRunInv, NEW ns \in Namespaces, NEW order \in Seq(StepIds), NEW next,
         NEW reg \in [Keys -> RegisteredStep \union {None}],
         NEW rcpts \in [YieldIds -> Receipt \union {None}],
         StrandIn(reg, rcpts, next), StartRelease(ns, order, reg, rcpts),
         \A z \in YieldIds : \/ rcpts[z] = receipts[z]
                             \/ rcpts[z] # None /\ rcpts[z].phase = "waiting"
  PROVE  FirstRunInv'
<1>1. releases' = releases + 1 /\ releases \in Nat
  BY DEF StartRelease, TypeOK
<1>2. CASE releases # 0
  BY <1>1, <1>2 DEF FirstRunInv
<1>3. CASE releases = 0
  <2>1. NotBegun
    BY <1>3 DEF FirstRunInv
  <2>2. ASSUME NEW z \in YieldIds, rcpts[z] # None
        PROVE  rcpts[z].phase \in {"waiting", "halted", "dropped"}
    <3>1. CASE rcpts[z] = receipts[z]
      <4>1. Phase(z) = receipts[z].phase /\ receipts[z].phase \in Phases
        BY <2>2, <3>1, KeyType DEF Receipt
      <4>2. Staged(z)
        BY <2>1 DEF NotBegun
      <4> QED BY <3>1, <4>1, <4>2, NoneAssumption DEF Staged
    <3>2. CASE rcpts[z].phase = "waiting"
      BY <3>2
    <3> QED BY <3>1, <3>2
  <2>3. sequence_queue \in [Namespaces -> Seq(StepIds)]
    BY DEF TypeOK
  <2>4. FirstRunAt(ns, order, 1)'
    BY <1>3, <2>1, <2>2, <2>3, StartIsFirst
  <2> QED BY <1>1, <1>3, <2>4 DEF FirstRunInv
<1> QED BY <1>2, <1>3

LEMMA FirstRunStep == ChainInv /\ StrandInv /\ FirstRunInv /\ [Next]_vars => FirstRunInv'
<1> SUFFICES ASSUME ChainInv, StrandInv, FirstRunInv, [Next]_vars PROVE FirstRunInv'
  OBVIOUS
<1>0. TypeOK
  BY DEF ChainInv
<1>a. ASSUME UNCHANGED <<receipts, sequence_queue, ordered, releases>>
      PROVE  FirstRunInv'
  BY <1>0, <1>a, CalmKeepsFirst
<1>f. ASSUME NEW ns \in Namespaces, NEW plan \in Seq(Steps), CanRegister(ns, plan),
             NEW z \in YieldIds
      PROVE  \/ Yielded(ns, plan)[z] = receipts[z]
             \/ /\ receipts[z] = None /\ Yielded(ns, plan)[z] # None
                /\ Yielded(ns, plan)[z].phase = "waiting"
  <2>1. CASE z \in next_yield..(next_yield + Len(plan) - 1)
    <3>1. receipts[z] = None
      <4>1. receipts[z] # None => z < next_yield
        BY DEF StrandInv, StrandIn
      <4>2. next_yield \in Nat /\ Len(plan) \in Nat
        BY <1>0, BoundsAssumption DEF TypeOK
      <4> QED BY <2>1, <4>1, <4>2
    <3>2. Yielded(ns, plan)[z] \in Receipt \union {None}
      BY <1>0, <1>f, RegisterType
    <3>3. Yielded(ns, plan)[z] = [ns |-> ns, id |-> plan[z - next_yield + 1].id, phase |-> "waiting"]
      BY <2>1 DEF Yielded
    <3>4. Yielded(ns, plan)[z] # None
      <4>1. /\ z - next_yield + 1 \in DOMAIN plan
        BY <1>0, <2>1, BoundsAssumption DEF TypeOK, YieldIds
      <4>2. plan[z - next_yield + 1].id \in StepIds
        BY <4>1, StepFields
      <4> QED BY <3>3, <4>2, NoneAssumption, PhaseNames DEF Receipt
    <3> QED BY <3>1, <3>3, <3>4
  <2>2. CASE z \notin next_yield..(next_yield + Len(plan) - 1)
    BY <2>2 DEF Yielded
  <2> QED BY <2>1, <2>2
<1>1. ASSUME NEW account \in Delegates \union {None}, set_authorized_executor(account)
      PROVE  FirstRunInv'
  BY <1>1, <1>a DEF set_authorized_executor, contractVars, historyVars
<1>2. ASSUME NEW caller \in Callers, NEW step \in Steps, register_step(caller, step)
      PROVE  FirstRunInv'
  <2>1. PICK ns \in Namespaces : ns = manual_namespace(caller)
    BY DEF Namespaces, ManualNamespaces
  <2>2. /\ <<step>> \in Seq(Steps) /\ CanRegister(ns, <<step>>)
        /\ receipts' = Yielded(ns, <<step>>)
        /\ UNCHANGED <<sequence_queue, ordered, releases>>
    BY <1>2, <2>1 DEF register_step, historyVars
  <2>3. ASSUME NEW z \in YieldIds
        PROVE  \/ receipts'[z] = receipts[z]
               \/ receipts[z] = None /\ Phase(z)' = "waiting"
    BY <1>f, <2>2 DEF Phase
  <2> QED BY <1>0, <2>2, <2>3, CalmKeepsFirst
<1>3. ASSUME NEW caller \in Callers, NEW plan \in Plans, execute_steps(caller, plan)
      PROVE  FirstRunInv'
  <2>1. PICK ns \in Namespaces : ns = manual_namespace(caller)
    BY DEF Namespaces, ManualNamespaces
  <2>2. plan \in Seq(Steps) /\ IdsOf(plan) \in Seq(StepIds)
    BY PlanFacts, IdsOfType
  <2> DEFINE R == Registered(ns, plan)
             Y == Yielded(ns, plan)
  <2>3. CanRegister(ns, plan) /\ StartRelease(ns, IdsOf(plan), R, Y)
    BY <1>3, <2>1 DEF execute_steps
  <2>4. /\ R \in [Keys -> RegisteredStep \union {None}]
        /\ Y \in [YieldIds -> Receipt \union {None}]
        /\ StrandIn(R, Y, next_yield + Len(plan))
    BY <1>0, <2>2, <2>3, RegisterType, RegisterStrand
  <2>5. \A z \in YieldIds : \/ Y[z] = receipts[z]
                            \/ Y[z] # None /\ Y[z].phase = "waiting"
    BY <1>f, <2>2, <2>3
  <2> HIDE DEF R, Y
  <2> QED BY <1>0, <2>2, <2>3, <2>4, <2>5, StartKeepsFirst
<1>4. ASSUME NEW who \in Accounts, NEW caller \in Callers, NEW order \in Orders,
             run_sequence(who, caller, order)
      PROVE  FirstRunInv'
  <2>1. PICK ns \in Namespaces : ns = manual_namespace(caller)
    BY DEF Namespaces, ManualNamespaces
  <2>2. order \in Seq(StepIds)
    BY PlansAssumption
  <2>3. StartRelease(ns, order, registered_steps, receipts)
    BY <1>4, <2>1 DEF run_sequence
  <2>4. /\ registered_steps \in [Keys -> RegisteredStep \union {None}]
        /\ receipts \in [YieldIds -> Receipt \union {None}]
        /\ StrandIn(registered_steps, receipts, next_yield)
    BY <1>0 DEF TypeOK, StrandInv
  <2> QED BY <1>0, <2>2, <2>3, <2>4, StartKeepsFirst
<1>5. ASSUME NEW y \in YieldIds, Deliver(y) PROVE FirstRunInv'
  BY <1>5, DeliverKeepsFirst
<1>6. ASSUME NEW amount \in 1..MaxBalance, Credit(amount) PROVE FirstRunInv'
  BY <1>6, <1>a DEF Credit, contractVars, historyVars
<1>7. CASE UNCHANGED vars
  BY <1>7, <1>a DEF vars, contractVars, historyVars
<1> QED BY <1>1, <1>2, <1>3, <1>4, <1>5, <1>6, <1>7 DEF Next, Manual, Runtime

\* The first run that callers order by hand keeps its order: the target of a step is
\* called only after the step before it has resolved ok, whatever is staged, times
\* out, is registered again or fails meanwhile.
THEOREM FirstRunSafe == Spec => []FirstRunOrdered
<1>1. Init => FirstRunInv
  BY DEF Init, FirstRunInv, NotBegun, Staged, Phase
<1>2. TypeOK /\ StrandInv /\ [Next]_vars => StrandInv'
  BY StrandStep
<1>3. ChainInv => TypeOK
  BY DEF ChainInv
<1>4. ChainInv /\ StrandInv /\ FirstRunInv /\ [Next]_vars => FirstRunInv'
  BY FirstRunStep
<1>5. Init => StrandInv
  BY StrandInit
<1>6. TypeOK /\ FirstRunInv => FirstRunOrdered
  BY FirstRunMeans
<1> QED BY <1>1, <1>2, <1>3, <1>4, <1>5, <1>6, ChainInvariant, PTL DEF Spec

=============================================================================
