-------------------------- MODULE AutomationProofs -------------------------
(***************************************************************************)
(* Proofs about Automation, for every set of triggers, templates, steps,   *)
(* sessions and every bound: types, the agreement of triggers and run      *)
(* rows, the templates of triggers, and what a finished run leaves.        *)
(***************************************************************************)
EXTENDS Automation, SequencerProofs

----------------------------------------------------------------------------
(* What a callback does to the contract's state.                           *)

Ended == RunStatus \ {"InFlight"}

\* A successful resolution releases the next step.
Pops(y) ==
  LET ns == receipts[y].ns IN
  /\ sequence_queue[ns] # <<>>
  /\ sequence_queue' = [sequence_queue EXCEPT ![ns] = Tail(@)]
  /\ sequence_contexts' = ContextAfter(y)
  /\ registered_steps' = Without(Key(y))
  /\ UNCHANGED <<automation_runs, balance_triggers>>

\* A callback leaves the contract's state alone, halts its namespace, releases
\* the next step of it, or completes it.
LEMMA CallbackOutcomes ==
  ASSUME TypeOK, NEW y \in YieldIds, Deliver(y)
  PROVE  /\ receipts[y] # None
         /\ \/ UNCHANGED contractVars
            \/ \E status \in Ended : Halt(receipts[y].ns, status, Without(Key(y)))
            \/ Pops(y)
            \/ CompleteSequence(y)
<1> DEFINE Outcome == \/ UNCHANGED contractVars
                      \/ \E status \in Ended :
                           Halt(receipts[y].ns, status, Without(Key(y)))
                      \/ Pops(y)
                      \/ CompleteSequence(y)
<1>0. Phase(y) \in Phases => receipts[y] # None
  BY LiveHasReceipt
<1>e. "DownstreamFailed" \in Ended /\ "ResumeFailed" \in Ended
  BY DEF Ended, RunStatus
<1>d. ASSUME halt_on_materialize_failure(y) \/ dispatch_promise_for_call(y)
      PROVE  Outcome
  BY <1>d, <1>e DEF halt_on_materialize_failure, dispatch_promise_for_call
<1>1. CASE on_step_resumed(y)
  <2>1. Phase(y) \in {"waiting", "resumed"}
    BY <1>1 DEF on_step_resumed, on_step_resumed_ok, on_step_resumed_err
  <2>2. Outcome
    BY <1>1, <1>d, <1>e DEF on_step_resumed, on_step_resumed_ok, on_step_resumed_err,
       WakesUpLate
  <2> QED BY <1>0, <2>1, <2>2, PhaseNames
<1>2. CASE on_pre_gate_checked(y)
  <2>1. Outcome
    BY <1>2, <1>d, <1>e DEF on_pre_gate_checked, WakesUpLate, on_pre_gate_checked_ungated,
       on_pre_gate_checked_in_range, halt_sequence_on_pre_gate_failure
  <2> QED BY <1>0, <1>2, <2>1, PhaseNames DEF on_pre_gate_checked
<1>3. ASSUME NEW ok \in BOOLEAN,
             \/ TargetReturns(y, ok)
             \/ on_asserted_run_postcheck(y, ok)
             \/ on_asserted_evaluate_postcheck(y, ok)
      PROVE  receipts[y] # None /\ Outcome
  BY <1>0, <1>3, PhaseNames DEF TargetReturns, on_asserted_run_postcheck,
     on_asserted_evaluate_postcheck
<1>4. CASE on_step_resolved_ok(y)
  <2>1. ASSUME ReleaseNext(y) PROVE Outcome
    <3> DEFINE ns == receipts[y].ns
               entry == Without(Key(y))[<<ns, Head(sequence_queue[ns])>>]
    <3>1. CASE entry # None /\ CanResume(receipts, entry.yield)
      <4>1. Pops(y)
        BY <2>1, <3>1 DEF ReleaseNext, Pops
      <4> QED BY <4>1
    <3>2. CASE ~(entry # None /\ CanResume(receipts, entry.yield))
      <4>1. Halt(ns, "ResumeFailed", Without(Key(y)))
        BY <2>1, <3>2 DEF ReleaseNext
      <4> QED BY <4>1, <1>e
    <3> QED BY <3>1, <3>2
  <2>2. Outcome
    BY <1>4, <2>1 DEF on_step_resolved_ok
  <2> QED BY <1>0, <1>4, <2>2, PhaseNames DEF on_step_resolved_ok
<1>5. CASE on_step_resolved_err(y)
  BY <1>0, <1>5, <1>e, PhaseNames DEF on_step_resolved_err
<1> QED BY <1>1, <1>2, <1>3, <1>4, <1>5 DEF Deliver

\* What a step of the engine does to triggers and run rows: nothing, or it ends
\* one run in flight and frees its trigger.
RunEnds(ns, status) ==
  /\ automation_runs[ns] = "InFlight"
  /\ automation_runs' = [automation_runs EXCEPT ![ns] = status]
  /\ balance_triggers' =
       [t \in Triggers |->
          IF t = ns.name /\ balance_triggers[t] # None
          THEN [balance_triggers[t] EXCEPT !.in_flight = FALSE, !.last_outcome = status]
          ELSE balance_triggers[t]]

LEMMA EngineOnlyEndsRuns ==
  ASSUME TypeOK, [Next]_vars
  PROVE  \/ UNCHANGED <<automation_runs, balance_triggers>>
         \/ \E ns \in Namespaces, status \in Ended : RunEnds(ns, status)
<1>1. CASE Manual
  BY <1>1 DEF Manual, set_authorized_executor, register_step, execute_steps,
              run_sequence, contractVars
<1>2. ASSUME NEW y \in YieldIds, Deliver(y)
      PROVE  \/ UNCHANGED <<automation_runs, balance_triggers>>
             \/ \E ns \in Namespaces, status \in Ended : RunEnds(ns, status)
  <2>0. receipts[y].ns \in Namespaces
    BY <1>2, CallbackOutcomes, KeyType
  <2>1. ASSUME NEW status \in Ended, NEW reg,
               finish_automation_run(receipts[y].ns, status, reg)
        PROVE  \/ UNCHANGED <<automation_runs, balance_triggers>>
               \/ \E ns \in Namespaces, s \in Ended : RunEnds(ns, s)
    <3>1. CASE automation_runs[receipts[y].ns] = "InFlight"
      <4>1. RunEnds(receipts[y].ns, status)
        BY <2>1, <3>1 DEF finish_automation_run, RunEnds
      <4> QED BY <2>0, <4>1
    <3>2. CASE automation_runs[receipts[y].ns] # "InFlight"
      BY <2>1, <3>2 DEF finish_automation_run
    <3> QED BY <3>1, <3>2
  <2>2. "Succeeded" \in Ended
    BY DEF Ended, RunStatus
  <2>3. CASE UNCHANGED contractVars \/ Pops(y)
    BY <2>3 DEF contractVars, Pops
  <2>4. ASSUME NEW status \in Ended, Halt(receipts[y].ns, status, Without(Key(y)))
        PROVE  \/ UNCHANGED <<automation_runs, balance_triggers>>
               \/ \E ns \in Namespaces, s \in Ended : RunEnds(ns, s)
    BY <2>1, <2>4 DEF Halt
  <2>5. CASE CompleteSequence(y)
    BY <2>1, <2>2, <2>5 DEF CompleteSequence
  <2> QED BY <1>2, <2>3, <2>4, <2>5, CallbackOutcomes
<1>3. ASSUME NEW amount \in 1..MaxBalance, Credit(amount)
      PROVE  UNCHANGED <<automation_runs, balance_triggers>>
  BY <1>3 DEF Credit, contractVars
<1>4. CASE UNCHANGED vars
  BY <1>4 DEF vars, contractVars
<1> QED BY <1>1, <1>2, <1>3, <1>4 DEF Next, Runtime

----------------------------------------------------------------------------
(* Types.                                                                  *)

LEMMA AutoNamespaceFacts ==
  ASSUME NEW ns \in AutoNamespaces
  PROVE  /\ ns \in Namespaces /\ ns \notin ManualNamespaces
         /\ ns.name \in Triggers /\ ns.kind = "auto"
  BY DEF AutoNamespaces, Namespaces, ManualNamespaces, automation_namespace,
         manual_namespace

LEMMA ExecuteFacts ==
  ASSUME AutomationTypeOK, NEW who, NEW pk, NEW t \in Triggers,
         execute_trigger(who, pk, t)
  PROVE  LET trigger == balance_triggers[t]
             plan == sequence_templates[trigger.sequence]
             ns == automation_namespace(t, trigger.runs_started + 1)
         IN  /\ trigger \in BalanceTrigger /\ ~trigger.in_flight
             /\ trigger.runs_started + 1 \in 1..MaxNonce
             /\ ns \in AutoNamespaces /\ ns.name = t
             /\ plan \in Plans /\ automation_runs[ns] = None
<1>1. balance_triggers[t] \in BalanceTrigger /\ balance_triggers[t] # None
  BY DEF execute_trigger, AutomationTypeOK, TypeOK
<1>2. balance_triggers[t].runs_started + 1 \in 1..MaxNonce
  BY <1>1, BoundsAssumption DEF execute_trigger, BalanceTrigger
<1>3. sequence_templates[balance_triggers[t].sequence] \in Plans
  BY <1>1 DEF execute_trigger, AutomationTypeOK, BalanceTrigger
<1> QED BY <1>1, <1>2, <1>3 DEF execute_trigger, AutoNamespaces, automation_namespace

LEMMA ExecuteType ==
  ASSUME AutomationTypeOK, NEW who, NEW pk, NEW t \in Triggers,
         execute_trigger(who, pk, t)
  PROVE  AutomationTypeOK'
<1> DEFINE trigger == balance_triggers[t]
           plan == sequence_templates[trigger.sequence]
           ns == automation_namespace(t, trigger.runs_started + 1)
<1>1. /\ trigger \in BalanceTrigger /\ trigger.runs_started + 1 \in 1..MaxNonce
      /\ ns \in AutoNamespaces /\ plan \in Plans /\ TypeOK
  BY ExecuteFacts DEF AutomationTypeOK
<1>2. /\ ns \in Namespaces /\ ns \notin ManualNamespaces /\ plan \in Seq(Steps)
      /\ Len(plan) \in Nat /\ Len(plan) > 0 /\ IdsOf(plan) \in Seq(StepIds)
  BY <1>1, AutoNamespaceFacts, PlanFacts, IdsOfType
<1>3. /\ CanRegister(ns, plan) /\ next_yield' = next_yield + Len(plan)
      /\ StartRelease(ns, IdsOf(plan), Registered(ns, plan), Yielded(ns, plan))
  BY DEF execute_trigger
<1>4. /\ balance_triggers' =
           [balance_triggers EXCEPT ![t].runs_started = trigger.runs_started + 1,
                                    ![t].in_flight = TRUE,
                                    ![t].last_run = ns,
                                    ![t].last_outcome = "InFlight"]
      /\ automation_runs' = [automation_runs EXCEPT ![ns] = "InFlight"]
      /\ UNCHANGED <<authorized_executor, sequence_contexts, balance, templateVars>>
  BY DEF execute_trigger
<1> HIDE DEF ns, plan
<1>5. next_yield' \in 1..(MaxYields + 1)
  BY <1>1, <1>2, <1>3, BoundsAssumption DEF CanRegister, TypeOK
<1>6. /\ registered_steps' \in [Keys -> RegisteredStep \union {None}]
      /\ receipts' \in [YieldIds -> Receipt \union {None}]
      /\ sequence_queue' \in [Namespaces -> Seq(StepIds)]
      /\ ordered' \in [YieldIds -> Place]
      /\ releases' \in 0..MaxReleases
  BY <1>1, <1>2, <1>3, RegisterType, StartReleaseType
<1>7. /\ automation_runs' \in [Namespaces -> RunStatus \union {None}]
      /\ \A m \in ManualNamespaces : automation_runs'[m] = None
  BY <1>1, <1>2, <1>4, PhaseNames DEF TypeOK, Namespaces
<1>8. balance_triggers' \in [Triggers -> BalanceTrigger \union {None}]
  <2>1. [trigger EXCEPT !.runs_started = trigger.runs_started + 1, !.in_flight = TRUE,
                        !.last_run = ns, !.last_outcome = "InFlight"] \in BalanceTrigger
    <3>1. /\ trigger.runs_started + 1 \in 0..MaxNonce /\ "InFlight" \in RunStatus
          /\ ns \in AutoNamespaces
      BY <1>1, BoundsAssumption DEF RunStatus
    <3> DEFINE n == trigger.runs_started + 1
    <3> HIDE DEF trigger, n
    <3>2. ASSUME trigger \in BalanceTrigger, n \in 0..MaxNonce
          PROVE  [trigger EXCEPT !.runs_started = n, !.in_flight = TRUE,
                        !.last_run = ns, !.last_outcome = "InFlight"] \in BalanceTrigger
      BY <3>1, <3>2 DEF BalanceTrigger
    <3> QED BY <1>1, <3>1, <3>2 DEF n
  <2>2. balance_triggers' = [balance_triggers EXCEPT ![t] =
          [trigger EXCEPT !.runs_started = trigger.runs_started + 1, !.in_flight = TRUE,
                          !.last_run = ns, !.last_outcome = "InFlight"]]
    BY <1>1, <1>4 DEF TypeOK
  <2> HIDE DEF trigger
  <2> QED BY <1>1, <2>1, <2>2 DEF TypeOK
<1>9. TypeOK'
  BY <1>1, <1>4, <1>5, <1>6, <1>7, <1>8 DEF TypeOK
<1> QED BY <1>4, <1>9 DEF AutomationTypeOK, templateVars

LEMMA AutomationInitType == AutomationInit => AutomationTypeOK
  BY InitType, MinimaAssumption DEF AutomationInit, AutomationTypeOK

LEMMA AutomationTypeStep ==
  AutomationTypeOK /\ [SmartAccountNext]_automationVars => AutomationTypeOK'
<1> SUFFICES ASSUME AutomationTypeOK, [SmartAccountNext]_automationVars
             PROVE  AutomationTypeOK'
  OBVIOUS
<1>0. TypeOK
  BY DEF AutomationTypeOK
<1>s. ASSUME UNCHANGED sequencerVars
      PROVE  TypeOK'
  BY <1>0, <1>s, TypeStep DEF sequencerVars
<1>1. ASSUME NEW q \in SequenceIds, NEW plan \in Plans, save_sequence_template(q, plan)
      PROVE  AutomationTypeOK'
  BY <1>1, <1>s DEF save_sequence_template, AutomationTypeOK
<1>2. ASSUME NEW q \in SequenceIds, delete_sequence_template(q)
      PROVE  AutomationTypeOK'
  BY <1>2, <1>s DEF delete_sequence_template, AutomationTypeOK
<1>3. ASSUME NEW t \in Triggers, NEW q \in SequenceIds, NEW min \in Minima,
             NEW max \in 0..MaxNonce, create_balance_trigger(t, q, min, max)
      PROVE  AutomationTypeOK'
  <2>1. [sequence |-> q, min_balance |-> min, max_runs |-> max, runs_started |-> 0,
         in_flight |-> FALSE, last_run |-> None, last_outcome |-> None] \in BalanceTrigger
    BY <1>3, MinimaAssumption, BoundsAssumption DEF create_balance_trigger, BalanceTrigger
  <2>2. balance_triggers' \in [Triggers -> BalanceTrigger \union {None}]
    BY <1>0, <1>3, <2>1 DEF create_balance_trigger, TypeOK
  <2>3. creations' \in [Triggers -> 0..MaxCreations]
    BY <1>3, MinimaAssumption DEF create_balance_trigger, AutomationTypeOK
  <2> QED BY <1>3, <2>2, <2>3 DEF create_balance_trigger, UNCHANGED_BUT_TRIGGERS,
             AutomationTypeOK, TypeOK, historyVars
<1>4. ASSUME NEW t \in Triggers, delete_balance_trigger(t)
      PROVE  AutomationTypeOK'
  BY <1>4 DEF delete_balance_trigger, UNCHANGED_BUT_TRIGGERS, AutomationTypeOK,
              TypeOK, historyVars
<1>5. ASSUME NEW who, NEW pk, NEW t \in Triggers, execute_trigger(who, pk, t)
      PROVE  AutomationTypeOK'
  BY <1>5, ExecuteType
<1>6. CASE prune_finished_automation_runs
  <2>1. /\ automation_runs' \in [Namespaces -> RunStatus \union {None}]
        /\ \A m \in ManualNamespaces : automation_runs'[m] = None
    BY <1>0, <1>6, PhaseNames, NoneAssumption
       DEF prune_finished_automation_runs, TypeOK, Namespaces
  <2> QED BY <1>6, <2>1 DEF prune_finished_automation_runs, UNCHANGED_BUT_TRIGGERS,
             AutomationTypeOK, TypeOK, historyVars
<1>7. CASE SequencerNext
  BY <1>0, <1>7, TypeStep DEF SequencerNext, AutomationTypeOK, templateVars
<1>8. CASE SessionNext \/ UNCHANGED automationVars
  BY <1>8, <1>s DEF SessionNext, automationVars, AutomationTypeOK, templateVars
<1> QED BY <1>1, <1>2, <1>3, <1>4, <1>5, <1>6, <1>7, <1>8
        DEF SmartAccountNext, AutomationNext

\* Triggers, templates and run rows keep their types; max_runs and run_nonce stay
\* within their bound, so every run has a namespace of its trigger.
THEOREM AutomationTypeCorrect == SmartAccountSpec => []AutomationTypeOK
  BY AutomationInitType, AutomationTypeStep, PTL DEF SmartAccountSpec

----------------------------------------------------------------------------
(* Triggers and run rows agree.                                            *)

LEMMA AgreementInit == AutomationInit => InFlightAgreement
  BY NoneAssumption, AutoNamespaceFacts
     DEF AutomationInit, Init, InFlightAgreement, InFlightRuns, RunStatus

\* A run starts: its row is the only one of its trigger in flight.
LEMMA ExecuteAgreement ==
  ASSUME AutomationTypeOK, InFlightAgreement, NEW who, NEW pk, NEW t \in Triggers,
         execute_trigger(who, pk, t)
  PROVE  InFlightAgreement'
<1> DEFINE ns == automation_namespace(t, balance_triggers[t].runs_started + 1)
<1>1. /\ balance_triggers[t] \in BalanceTrigger /\ ~balance_triggers[t].in_flight
      /\ ns \in AutoNamespaces /\ ns.name = t /\ ns \in Namespaces
  BY ExecuteFacts, AutoNamespaceFacts
<1>2. /\ balance_triggers' \in [Triggers -> BalanceTrigger \union {None}]
      /\ balance_triggers'[t] \in BalanceTrigger
      /\ balance_triggers'[t].in_flight /\ balance_triggers'[t].last_run = ns
      /\ \A u \in Triggers : u # t => balance_triggers'[u] = balance_triggers[u]
  BY <1>1 DEF execute_trigger, AutomationTypeOK, TypeOK, BalanceTrigger
<1>3. /\ automation_runs'[ns] = "InFlight"
      /\ \A m \in AutoNamespaces : m # ns => automation_runs'[m] = automation_runs[m]
  BY <1>1, AutoNamespaceFacts DEF execute_trigger, AutomationTypeOK, TypeOK
<1> HIDE DEF ns
<1>4. InFlightRuns(t) = {}
  BY <1>1 DEF InFlightAgreement
<1>5. InFlightRuns(t)' = {ns}
  BY <1>1, <1>3, <1>4 DEF InFlightRuns
<1>6. ASSUME NEW u \in Triggers, u # t
      PROVE  InFlightRuns(u)' = InFlightRuns(u)
  BY <1>1, <1>3, <1>6 DEF InFlightRuns
<1>7. balance_triggers'[t] # None
  BY <1>2, NoneAssumption
<1>8. ASSUME NEW u \in Triggers
      PROVE  InFlightRuns(u)' =
               IF balance_triggers'[u] # None /\ balance_triggers'[u].in_flight
               THEN {balance_triggers'[u].last_run} ELSE {}
  <2>1. CASE u = t
    BY <1>2, <1>5, <1>7, <2>1
  <2>2. CASE u # t
    BY <1>2, <1>6, <2>2 DEF InFlightAgreement
  <2> QED BY <2>1, <2>2
<1> QED BY <1>8 DEF InFlightAgreement

\* A run ends: no row of its trigger is in flight any more.
LEMMA EndAgreement ==
  ASSUME TypeOK, InFlightAgreement, NEW ns \in Namespaces, NEW status \in Ended,
         RunEnds(ns, status)
  PROVE  InFlightAgreement'
<1>1. ns \in AutoNamespaces /\ ns.name \in Triggers
  BY NoneAssumption, AutoNamespaceFacts DEF RunEnds, TypeOK, Namespaces, RunStatus
<1> DEFINE t == ns.name
<1>2. /\ automation_runs'[ns] # "InFlight"
      /\ \A m \in AutoNamespaces : m # ns => automation_runs'[m] = automation_runs[m]
  BY <1>1, AutoNamespaceFacts DEF RunEnds, TypeOK, Ended
<1>3. /\ balance_triggers[t] # None /\ InFlightRuns(t) = {ns}
  <2>1. ns \in InFlightRuns(t)
    BY <1>1 DEF InFlightRuns, RunEnds
  <2>2. InFlightRuns(t) = IF balance_triggers[t] # None /\ balance_triggers[t].in_flight
                          THEN {balance_triggers[t].last_run} ELSE {}
    BY <1>1 DEF InFlightAgreement
  <2> HIDE DEF t
  <2> QED BY ONLY <2>1, <2>2
<1>4. ~balance_triggers'[t].in_flight
  <2>1. balance_triggers[t] \in BalanceTrigger
    BY <1>1, <1>3 DEF TypeOK
  <2> QED BY <1>1, <1>3, <2>1 DEF RunEnds, BalanceTrigger
<1>5. \A u \in Triggers : u # t => balance_triggers'[u] = balance_triggers[u]
  BY DEF RunEnds
<1>6. InFlightRuns(t)' = {}
  BY <1>1, <1>2, <1>3 DEF InFlightRuns
<1>7. ASSUME NEW u \in Triggers, u # t
      PROVE  InFlightRuns(u)' = InFlightRuns(u)
  BY <1>1, <1>2, <1>7 DEF InFlightRuns
<1>8. ASSUME NEW u \in Triggers
      PROVE  InFlightRuns(u)' =
               IF balance_triggers'[u] # None /\ balance_triggers'[u].in_flight
               THEN {balance_triggers'[u].last_run} ELSE {}
  <2>1. CASE u = t
    BY <1>4, <1>6, <2>1
  <2>2. CASE u # t
    BY <1>5, <1>7, <2>2 DEF InFlightAgreement
  <2> QED BY <2>1, <2>2
<1> QED BY <1>8 DEF InFlightAgreement

LEMMA AgreementStep ==
  AutomationTypeOK /\ InFlightAgreement /\ [SmartAccountNext]_automationVars
    => InFlightAgreement'
<1> SUFFICES ASSUME AutomationTypeOK, InFlightAgreement,
                    [SmartAccountNext]_automationVars
             PROVE  InFlightAgreement'
  OBVIOUS
<1>0. TypeOK
  BY DEF AutomationTypeOK
<1>s. ASSUME UNCHANGED <<automation_runs, balance_triggers>>
      PROVE  InFlightAgreement'
  BY <1>s DEF InFlightAgreement, InFlightRuns
<1>1. ASSUME NEW q \in SequenceIds,
             (\E plan \in Plans : save_sequence_template(q, plan))
               \/ delete_sequence_template(q)
      PROVE  InFlightAgreement'
  BY <1>1, <1>s DEF save_sequence_template, delete_sequence_template, sequencerVars,
                    vars, contractVars
<1>2. ASSUME NEW t \in Triggers, NEW q \in SequenceIds, NEW min \in Minima,
             NEW max \in 0..MaxNonce, create_balance_trigger(t, q, min, max)
      PROVE  InFlightAgreement'
  <2>1. /\ balance_triggers[t] = None /\ automation_runs' = automation_runs
        /\ ~balance_triggers'[t].in_flight
        /\ \A u \in Triggers : u # t => balance_triggers'[u] = balance_triggers[u]
    BY <1>0, <1>2 DEF create_balance_trigger, TypeOK
  <2> QED BY <2>1 DEF InFlightAgreement, InFlightRuns
<1>3. ASSUME NEW t \in Triggers, delete_balance_trigger(t)
      PROVE  InFlightAgreement'
  <2>1. /\ ~balance_triggers[t].in_flight /\ automation_runs' = automation_runs
        /\ balance_triggers'[t] = None
        /\ \A u \in Triggers : u # t => balance_triggers'[u] = balance_triggers[u]
    BY <1>0, <1>3 DEF delete_balance_trigger, TypeOK
  <2> QED BY <2>1 DEF InFlightAgreement, InFlightRuns
<1>4. ASSUME NEW who, NEW pk, NEW t \in Triggers, execute_trigger(who, pk, t)
      PROVE  InFlightAgreement'
  BY <1>4, ExecuteAgreement
<1>5. CASE prune_finished_automation_runs
  <2>1. \A ns \in AutoNamespaces :
          automation_runs'[ns] = "InFlight" <=> automation_runs[ns] = "InFlight"
    BY <1>5, NoneAssumption, AutoNamespaceFacts
       DEF prune_finished_automation_runs, RunStatus
  <2>2. balance_triggers' = balance_triggers
    BY <1>5 DEF prune_finished_automation_runs
  <2> QED BY <2>1, <2>2 DEF InFlightAgreement, InFlightRuns
<1>6. CASE SequencerNext
  BY <1>0, <1>6, <1>s, EngineOnlyEndsRuns, EndAgreement DEF SequencerNext
<1>7. CASE SessionNext \/ UNCHANGED automationVars
  BY <1>7, <1>s DEF SessionNext, automationVars, sequencerVars, vars, contractVars
<1> QED BY <1>1, <1>2, <1>3, <1>4, <1>5, <1>6, <1>7 DEF SmartAccountNext, AutomationNext

\* The flag in_flight and the run rows always agree: a trigger blocks a new run
\* exactly while the row of its last run is in flight, and deleting, creating,
\* pruning and finishing keep it so.
THEOREM AgreementSafe == SmartAccountSpec => []InFlightAgreement
<1>1. AutomationInit => AutomationTypeOK /\ InFlightAgreement
  BY AutomationInitType, AgreementInit
<1>2. AutomationTypeOK /\ InFlightAgreement /\ [SmartAccountNext]_automationVars
        => (AutomationTypeOK /\ InFlightAgreement)'
  BY AutomationTypeStep, AgreementStep
<1> QED BY <1>1, <1>2, PTL DEF SmartAccountSpec

----------------------------------------------------------------------------
(* A run row changes status once.                                          *)

LEMMA EndsOnceStep ==
  ASSUME AutomationTypeOK, [SmartAccountNext]_automationVars,
         NEW ns \in AutoNamespaces, automation_runs[ns] \notin {None, "InFlight"}
  PROVE  automation_runs'[ns] \in {automation_runs[ns], None}
<1>0. TypeOK /\ ns \in Namespaces
  BY AutoNamespaceFacts DEF AutomationTypeOK
<1>s. ASSUME UNCHANGED <<automation_runs, balance_triggers>>
      PROVE  automation_runs'[ns] \in {automation_runs[ns], None}
  BY <1>s
<1>1. ASSUME NEW t \in Triggers, NEW q \in SequenceIds, NEW min \in Minima,
             NEW max \in 0..MaxNonce, create_balance_trigger(t, q, min, max)
      PROVE  automation_runs' = automation_runs
  BY <1>1 DEF create_balance_trigger
<1>2. ASSUME NEW who, NEW pk, NEW t \in Triggers, execute_trigger(who, pk, t)
      PROVE  automation_runs'[ns] = automation_runs[ns]
  <2> DEFINE new == automation_namespace(t, balance_triggers[t].runs_started + 1)
  <2>1. automation_runs[new] = None
    BY <1>2, ExecuteFacts
  <2>2. automation_runs' = [automation_runs EXCEPT ![new] = "InFlight"]
    BY <1>2 DEF execute_trigger
  <2> HIDE DEF new
  <2> QED BY <1>0, <2>1, <2>2 DEF TypeOK
<1>3. CASE prune_finished_automation_runs
  BY <1>0, <1>3 DEF prune_finished_automation_runs
<1>4. CASE SequencerNext
  <2>1. ASSUME NEW m \in Namespaces, NEW status \in Ended, RunEnds(m, status)
        PROVE  automation_runs'[ns] = automation_runs[ns]
    BY <1>0, <2>1 DEF RunEnds, TypeOK
  <2> QED BY <1>0, <1>4, <1>s, <2>1, EngineOnlyEndsRuns DEF SequencerNext
<1>5. CASE SessionNext \/ UNCHANGED automationVars
  BY <1>5, <1>s DEF SessionNext, automationVars, sequencerVars, vars, contractVars
<1>6. ASSUME NEW q \in SequenceIds,
             (\E plan \in Plans : save_sequence_template(q, plan))
               \/ delete_sequence_template(q)
      PROVE  automation_runs' = automation_runs
  BY <1>6 DEF save_sequence_template, delete_sequence_template, sequencerVars, vars,
              contractVars
<1>7. ASSUME NEW t \in Triggers, delete_balance_trigger(t)
      PROVE  automation_runs' = automation_runs
  BY <1>7 DEF delete_balance_trigger
<1> QED BY <1>1, <1>2, <1>3, <1>4, <1>5, <1>6, <1>7 DEF SmartAccountNext, AutomationNext

\* The outcome of a run is final: no late callback, timeout or retry rewrites the
\* status of a finished row; only pruning removes it.
THEOREM OutcomeFinal == SmartAccountSpec => RunEndsOnce
<1>1. AutomationTypeOK /\ [SmartAccountNext]_automationVars
        => [\A ns \in AutoNamespaces :
              automation_runs[ns] \notin {None, "InFlight"}
                => automation_runs'[ns] \in {automation_runs[ns], None}]_automationVars
  BY EndsOnceStep
<1> QED BY <1>1, AutomationTypeCorrect, PTL DEF SmartAccountSpec, RunEndsOnce

----------------------------------------------------------------------------
(* A finished run leaves nothing in its namespace.                         *)

\* Nothing is kept for a namespace.
Empty(ns) ==
  /\ \A id \in StepIds : registered_steps[<<ns, id>>] = None
  /\ sequence_queue[ns] = <<>>
  /\ sequence_contexts[ns] = NoContext

\* The contract's state of one namespace stays as it is.
Untouched(ns) ==
  /\ \A id \in StepIds : registered_steps'[<<ns, id>>] = registered_steps[<<ns, id>>]
  /\ sequence_queue'[ns] = sequence_queue[ns]
  /\ sequence_contexts'[ns] = sequence_contexts[ns]

LEMMA UntouchedStaysEmpty ==
  ASSUME NEW ns, Empty(ns), Untouched(ns)
  PROVE  Empty(ns)'
  BY DEF Empty, Untouched

\* Ending a run empties its namespace; in a namespace without a run in flight it
\* removes at most the registration of the callback's own key.
LEMMA FinishEffect ==
  ASSUME TypeOK, NEW ns \in Namespaces, NEW status \in Ended, NEW key \in Keys,
         key[1] = ns, finish_automation_run(ns, status, Without(key)),
         NEW m \in Namespaces
  PROVE  /\ m # ns => /\ \A id \in StepIds :
                           registered_steps'[<<m, id>>] = registered_steps[<<m, id>>]
                      /\ automation_runs'[m] = automation_runs[m]
         /\ automation_runs[ns] = "InFlight"
              => \A id \in StepIds : registered_steps'[<<ns, id>>] = None
         /\ automation_runs[ns] # "InFlight"
              => /\ automation_runs'[ns] # "InFlight"
                 /\ \A id \in StepIds : registered_steps[<<ns, id>>] = None
                                          => registered_steps'[<<ns, id>>] = None
<1>1. \A id \in StepIds : <<m, id>> \in Keys /\ <<ns, id>> \in Keys
  BY DEF Keys
<1>2. \A k \in Keys : Without(key)[k] = IF k = key THEN None ELSE registered_steps[k]
  BY DEF Without, TypeOK
<1>3. CASE automation_runs[ns] = "InFlight"
  <2>1. /\ registered_steps' = ClearedNamespace(ns, Without(key))
        /\ automation_runs' = [automation_runs EXCEPT ![ns] = status]
    BY <1>3 DEF finish_automation_run
  <2>2. \A id \in StepIds : registered_steps'[<<ns, id>>] = None
    BY <1>1, <2>1 DEF ClearedNamespace
  <2>3. ASSUME m # ns, NEW id \in StepIds
        PROVE  registered_steps'[<<m, id>>] = registered_steps[<<m, id>>]
    <3>1. registered_steps'[<<m, id>>] = Without(key)[<<m, id>>]
      BY <1>1, <2>1, <2>3 DEF ClearedNamespace
    <3>2. <<m, id>> # key
      BY <2>3
    <3> QED BY <1>1, <1>2, <3>1, <3>2
  <2>4. m # ns => automation_runs'[m] = automation_runs[m]
    BY <2>1 DEF TypeOK
  <2> QED BY <1>3, <2>2, <2>3, <2>4
<1>4. CASE automation_runs[ns] # "InFlight"
  <2>1. registered_steps' = Without(key) /\ automation_runs' = automation_runs
    BY <1>4 DEF finish_automation_run
  <2>2. ASSUME m # ns, NEW id \in StepIds
        PROVE  <<m, id>> # key
    BY <2>2
  <2> QED BY <1>1, <1>2, <1>4, <2>1, <2>2
<1> QED BY <1>3, <1>4

\* A callback touches its own namespace only, and empties it when it ends a run.
LEMMA DeliverFinished ==
  ASSUME TypeOK, FinishedRunLeavesNothing, NEW y \in YieldIds, Deliver(y),
         NEW m \in AutoNamespaces, automation_runs'[m] # "InFlight"
  PROVE  Empty(m)'
<1> DEFINE ns == receipts[y].ns
<1>0. /\ ns \in Namespaces /\ Key(y) \in Keys /\ Key(y)[1] = ns /\ m \in Namespaces
      /\ \A id \in StepIds : <<m, id>> \in Keys
      /\ automation_runs[m] # "InFlight" => Empty(m)
      /\ "Succeeded" \in Ended
  BY CallbackOutcomes, KeyType, AutoNamespaceFacts
     DEF Key, Keys, FinishedRunLeavesNothing, Empty, Ended, RunStatus
<1>1. CASE UNCHANGED contractVars
  BY <1>0, <1>1 DEF contractVars, Empty
<1>2. ASSUME NEW status \in Ended, finish_automation_run(ns, status, Without(Key(y))),
             sequence_queue'[ns] = <<>>, sequence_contexts'[ns] = NoContext,
             m # ns => /\ sequence_queue'[m] = sequence_queue[m]
                       /\ sequence_contexts'[m] = sequence_contexts[m]
      PROVE  Empty(m)'
  <2>1. CASE m = ns
    <3>1. \A id \in StepIds : registered_steps'[<<m, id>>] = None
      BY <1>0, <1>2, <2>1, FinishEffect DEF Empty
    <3> QED BY <1>2, <2>1, <3>1 DEF Empty, NoContext
  <2>2. CASE m # ns
    <3>1. automation_runs'[m] = automation_runs[m] /\ Untouched(m)
      BY <1>0, <1>2, <2>2, FinishEffect DEF Untouched
    <3> QED BY <1>0, <3>1, UntouchedStaysEmpty
  <2> QED BY <2>1, <2>2
<1>3. ASSUME NEW status \in Ended, Halt(ns, status, Without(Key(y)))
      PROVE  Empty(m)'
  <2>1. /\ sequence_queue'[ns] = <<>> /\ sequence_contexts'[ns] = NoContext
        /\ m # ns => /\ sequence_queue'[m] = sequence_queue[m]
                     /\ sequence_contexts'[m] = sequence_contexts[m]
    BY <1>0, <1>3 DEF Halt, TypeOK
  <2> QED BY <1>2, <1>3, <2>1 DEF Halt
<1>4. CASE Pops(y)
  <2>1. automation_runs'[m] = automation_runs[m] /\ Empty(m)
    BY <1>0, <1>4 DEF Pops
  <2>2. m # ns
    BY <1>4, <2>1 DEF Pops, Empty
  <2>3. Untouched(m)
    <3>1. sequence_queue'[m] = sequence_queue[m]
      BY <1>0, <1>4, <2>2 DEF Pops, TypeOK
    <3>2. sequence_contexts'[m] = sequence_contexts[m]
      BY <1>0, <1>4, <2>2 DEF Pops, ContextAfter, TypeOK
    <3>3. ASSUME NEW id \in StepIds
          PROVE  registered_steps'[<<m, id>>] = registered_steps[<<m, id>>]
      <4>1. <<m, id>> # Key(y)
        BY <1>0, <2>2
      <4> QED BY <1>0, <1>4, <4>1 DEF Pops, Without, TypeOK
    <3> QED BY <3>1, <3>2, <3>3 DEF Untouched
  <2> QED BY <2>1, <2>3, UntouchedStaysEmpty
<1>5. CASE CompleteSequence(y)
  <2>1. /\ finish_automation_run(ns, "Succeeded", Without(Key(y)))
        /\ sequence_queue'[ns] = <<>> /\ sequence_contexts'[ns] = NoContext
        /\ m # ns => /\ sequence_queue'[m] = sequence_queue[m]
                     /\ sequence_contexts'[m] = sequence_contexts[m]
    BY <1>0, <1>5 DEF CompleteSequence, TypeOK
  <2> QED BY <1>0, <1>2, <2>1
<1> QED BY <1>1, <1>3, <1>4, <1>5, CallbackOutcomes

\* Starting a release touches the namespace it is started in only.
LEMMA StartUntouched ==
  ASSUME TypeOK, NEW ns \in Namespaces, NEW order, NEW plan, NEW reg, NEW rcpts,
         reg = registered_steps \/ reg = Registered(ns, plan),
         StartRelease(ns, order, reg, rcpts), UNCHANGED sequence_contexts,
         NEW m \in Namespaces, m # ns
  PROVE  Untouched(m)
<1>1. sequence_queue'[m] = sequence_queue[m]
  BY DEF StartRelease, TypeOK
<1>2. ASSUME NEW id \in StepIds
      PROVE  registered_steps'[<<m, id>>] = registered_steps[<<m, id>>]
  <2>1. <<m, id>> \in Keys
    BY DEF Keys
  <2> QED BY <2>1 DEF StartRelease, Registered
<1> QED BY <1>1, <1>2 DEF Untouched

LEMMA ManualUntouched ==
  ASSUME TypeOK, Manual, NEW m \in AutoNamespaces
  PROVE  Untouched(m) /\ automation_runs' = automation_runs
<1>0. /\ m \in Namespaces /\ m \notin ManualNamespaces
      /\ \A caller \in Callers : /\ manual_namespace(caller) \in Namespaces
                                 /\ manual_namespace(caller) # m
  BY AutoNamespaceFacts DEF ManualNamespaces, Namespaces
<1>1. ASSUME NEW account, set_authorized_executor(account)
      PROVE  Untouched(m) /\ automation_runs' = automation_runs
  BY <1>1 DEF set_authorized_executor, contractVars, Untouched
<1>2. ASSUME NEW caller \in Callers, NEW step \in Steps, register_step(caller, step)
      PROVE  Untouched(m) /\ automation_runs' = automation_runs
  <2>1. ASSUME NEW id \in StepIds
        PROVE  registered_steps'[<<m, id>>] = registered_steps[<<m, id>>]
    <3>1. <<m, id>> \in Keys
      BY <1>0 DEF Keys
    <3> QED BY <1>0, <1>2, <3>1 DEF register_step, Registered
  <2> QED BY <1>2, <2>1 DEF register_step, Untouched
<1>3. ASSUME NEW caller \in Callers, NEW plan \in Plans, execute_steps(caller, plan)
      PROVE  Untouched(m) /\ automation_runs' = automation_runs
  BY <1>0, <1>3, StartUntouched DEF execute_steps
<1>4. ASSUME NEW who, NEW caller \in Callers, NEW order \in Orders,
             run_sequence(who, caller, order)
      PROVE  Untouched(m) /\ automation_runs' = automation_runs
  BY <1>0, <1>4, StartUntouched DEF run_sequence
<1> QED BY <1>1, <1>2, <1>3, <1>4 DEF Manual

LEMMA FinishedStep ==
  AutomationTypeOK /\ FinishedRunLeavesNothing /\ [SmartAccountNext]_automationVars
    => FinishedRunLeavesNothing'
<1> SUFFICES ASSUME AutomationTypeOK, FinishedRunLeavesNothing,
                    [SmartAccountNext]_automationVars,
                    NEW m \in AutoNamespaces, automation_runs'[m] # "InFlight"
             PROVE  Empty(m)'
  BY DEF FinishedRunLeavesNothing, Empty, NoContext
<1>0. /\ TypeOK /\ m \in Namespaces
      /\ automation_runs[m] # "InFlight" => Empty(m)
  BY AutoNamespaceFacts DEF AutomationTypeOK, FinishedRunLeavesNothing, Empty
<1>s. ASSUME UNCHANGED <<registered_steps, sequence_queue, sequence_contexts>>,
             automation_runs[m] # "InFlight"
      PROVE  Empty(m)'
  BY <1>0, <1>s, UntouchedStaysEmpty DEF Untouched
<1>1. ASSUME NEW q \in SequenceIds,
             (\E plan \in Plans : save_sequence_template(q, plan))
               \/ delete_sequence_template(q)
      PROVE  Empty(m)'
  BY <1>1, <1>s DEF save_sequence_template, delete_sequence_template, sequencerVars,
                    vars, contractVars
<1>2. ASSUME NEW t \in Triggers, NEW q \in SequenceIds, NEW min \in Minima,
             NEW max \in 0..MaxNonce, create_balance_trigger(t, q, min, max)
      PROVE  Empty(m)'
  BY <1>2, <1>s DEF create_balance_trigger, UNCHANGED_BUT_TRIGGERS
<1>3. ASSUME NEW t \in Triggers, delete_balance_trigger(t)
      PROVE  Empty(m)'
  BY <1>3, <1>s DEF delete_balance_trigger, UNCHANGED_BUT_TRIGGERS
<1>4. ASSUME NEW who, NEW pk, NEW t \in Triggers, execute_trigger(who, pk, t)
      PROVE  Empty(m)'
  <2> DEFINE ns == automation_namespace(t, balance_triggers[t].runs_started + 1)
             plan == sequence_templates[balance_triggers[t].sequence]
  <2>1. ns \in Namespaces
    BY <1>4, ExecuteFacts, AutoNamespaceFacts
  <2>2. /\ automation_runs' = [automation_runs EXCEPT ![ns] = "InFlight"]
        /\ StartRelease(ns, IdsOf(plan), Registered(ns, plan), Yielded(ns, plan))
        /\ UNCHANGED sequence_contexts
    BY <1>4 DEF execute_trigger
  <2> HIDE DEF ns, plan
  <2>3. m # ns
    BY <1>0, <2>2 DEF TypeOK
  <2>4. automation_runs[m] # "InFlight" /\ Untouched(m)
    BY <1>0, <2>1, <2>2, <2>3, StartUntouched DEF TypeOK
  <2> QED BY <1>0, <2>4, UntouchedStaysEmpty
<1>5. CASE prune_finished_automation_runs
  BY <1>0, <1>5, <1>s DEF prune_finished_automation_runs, UNCHANGED_BUT_TRIGGERS
<1>6. CASE SequencerNext
  <2>1. CASE Manual
    BY <1>0, <2>1, ManualUntouched, UntouchedStaysEmpty
  <2>2. ASSUME NEW y \in YieldIds, Deliver(y) PROVE Empty(m)'
    BY <1>0, <2>2, DeliverFinished
  <2>3. ASSUME NEW amount \in 1..MaxBalance, Credit(amount) PROVE Empty(m)'
    BY <2>3, <1>s DEF Credit, contractVars
  <2> QED BY <1>6, <2>1, <2>2, <2>3 DEF SequencerNext, Next, Runtime
<1>7. CASE SessionNext \/ UNCHANGED automationVars
  BY <1>7, <1>s DEF SessionNext, automationVars, sequencerVars, vars, contractVars
<1> QED BY <1>1, <1>2, <1>3, <1>4, <1>5, <1>6, <1>7 DEF SmartAccountNext, AutomationNext

\* Once a run's row has left InFlight, no registered step, queued id or saved
\* result of it exists, whatever callbacks of its chains still arrive.
THEOREM FinishedSafe == SmartAccountSpec => []FinishedRunLeavesNothing
<1>1. AutomationInit => AutomationTypeOK /\ FinishedRunLeavesNothing
  <2>1. AutomationInit => FinishedRunLeavesNothing
    BY AutoNamespaceFacts
       DEF AutomationInit, Init, FinishedRunLeavesNothing, Keys
  <2> QED BY <2>1, AutomationInitType
<1>2. AutomationTypeOK /\ FinishedRunLeavesNothing /\ [SmartAccountNext]_automationVars
        => (AutomationTypeOK /\ FinishedRunLeavesNothing)'
  BY AutomationTypeStep, FinishedStep
<1> QED BY <1>1, <1>2, PTL DEF SmartAccountSpec

----------------------------------------------------------------------------
(* A trigger's template stays.                                             *)

\* A template is never overwritten by the empty plan.
LEMMA PlansNotEmpty == <<>> \notin Plans
  BY PlansAssumption

LEMMA TemplateStep ==
  AutomationTypeOK /\ TriggerHasTemplate /\ [SmartAccountNext]_automationVars
    => TriggerHasTemplate'
<1> SUFFICES ASSUME AutomationTypeOK, TriggerHasTemplate,
                    [SmartAccountNext]_automationVars,
                    NEW u \in Triggers, balance_triggers'[u] # None
             PROVE  sequence_templates'[balance_triggers'[u].sequence] # <<>>
  BY DEF TriggerHasTemplate
<1>0. /\ TypeOK /\ balance_triggers[u] \in BalanceTrigger \union {None}
      /\ sequence_templates \in [SequenceIds -> Plans \union {<<>>}]
  BY DEF AutomationTypeOK, TypeOK
<1>s. ASSUME balance_triggers[u] # None, sequence_templates' = sequence_templates,
             balance_triggers'[u].sequence = balance_triggers[u].sequence
      PROVE  sequence_templates'[balance_triggers'[u].sequence] # <<>>
  BY <1>s DEF TriggerHasTemplate
<1>1. ASSUME NEW q \in SequenceIds, NEW plan \in Plans, save_sequence_template(q, plan)
      PROVE  sequence_templates'[balance_triggers'[u].sequence] # <<>>
  <2>1. balance_triggers' = balance_triggers
    BY <1>1 DEF save_sequence_template, sequencerVars, vars, contractVars
  <2>2. sequence_templates' = [sequence_templates EXCEPT ![q] = plan]
    BY <1>1 DEF save_sequence_template
  <2> QED BY <1>0, <2>1, <2>2, PlansNotEmpty DEF TriggerHasTemplate
<1>2. ASSUME NEW q \in SequenceIds, delete_sequence_template(q)
      PROVE  sequence_templates'[balance_triggers'[u].sequence] # <<>>
  <2>1. balance_triggers' = balance_triggers
    BY <1>2 DEF delete_sequence_template, sequencerVars, vars, contractVars
  <2>2. balance_triggers[u].sequence # q
    BY <1>2, <2>1 DEF delete_sequence_template, sequence_id_is_referenced
  <2> QED BY <1>0, <1>2, <2>1, <2>2 DEF delete_sequence_template, TriggerHasTemplate
<1>3. ASSUME NEW t \in Triggers, NEW q \in SequenceIds, NEW min \in Minima,
             NEW max \in 0..MaxNonce, create_balance_trigger(t, q, min, max)
      PROVE  sequence_templates'[balance_triggers'[u].sequence] # <<>>
  <2>1. /\ sequence_templates' = sequence_templates /\ sequence_templates[q] # <<>>
        /\ u = t => balance_triggers'[u].sequence = q
        /\ u # t => balance_triggers'[u] = balance_triggers[u]
    BY <1>0, <1>3 DEF create_balance_trigger, UNCHANGED_BUT_TRIGGERS, TypeOK
  <2> QED BY <1>s, <2>1
<1>4. ASSUME NEW t \in Triggers, delete_balance_trigger(t)
      PROVE  sequence_templates'[balance_triggers'[u].sequence] # <<>>
  <2>1. /\ sequence_templates' = sequence_templates
        /\ balance_triggers'[u] = balance_triggers[u]
    BY <1>0, <1>4 DEF delete_balance_trigger, UNCHANGED_BUT_TRIGGERS, TypeOK
  <2> QED BY <1>s, <2>1
<1>5. ASSUME NEW who, NEW pk, NEW t \in Triggers, execute_trigger(who, pk, t)
      PROVE  sequence_templates'[balance_triggers'[u].sequence] # <<>>
  <2>1. sequence_templates' = sequence_templates
    BY <1>5 DEF execute_trigger, templateVars
  <2>2. balance_triggers[t] \in BalanceTrigger
    BY <1>5, ExecuteFacts
  <2>3. /\ balance_triggers[u] # None
        /\ balance_triggers'[u].sequence = balance_triggers[u].sequence
    BY <1>0, <1>5, <2>2, NoneAssumption DEF execute_trigger, TypeOK, BalanceTrigger
  <2> QED BY <1>s, <2>1, <2>3
<1>6. CASE prune_finished_automation_runs
  <2>1. /\ sequence_templates' = sequence_templates
        /\ balance_triggers'[u] = balance_triggers[u]
    BY <1>6 DEF prune_finished_automation_runs, UNCHANGED_BUT_TRIGGERS
  <2> QED BY <1>s, <2>1
<1>7. CASE SequencerNext
  <2>1. sequence_templates' = sequence_templates
    BY <1>7 DEF SequencerNext, templateVars
  <2>2. ASSUME NEW ns \in Namespaces, NEW status \in Ended, RunEnds(ns, status)
        PROVE  /\ balance_triggers[u] # None
               /\ balance_triggers'[u].sequence = balance_triggers[u].sequence
    BY <1>0, <2>2 DEF RunEnds, BalanceTrigger
  <2> QED BY <1>0, <1>7, <1>s, <2>1, <2>2, EngineOnlyEndsRuns DEF SequencerNext
<1>8. CASE SessionNext \/ UNCHANGED automationVars
  <2>1. /\ sequence_templates' = sequence_templates
        /\ balance_triggers'[u] = balance_triggers[u]
    BY <1>8 DEF SessionNext, automationVars, sequencerVars, templateVars, vars, contractVars
  <2> QED BY <1>s, <2>1
<1> QED BY <1>1, <1>2, <1>3, <1>4, <1>5, <1>6, <1>7, <1>8
        DEF SmartAccountNext, AutomationNext

\* A trigger never outlives its template, whatever is overwritten, deleted and
\* created in between.
THEOREM TemplateSafe == SmartAccountSpec => []TriggerHasTemplate
<1>1. AutomationInit => AutomationTypeOK /\ TriggerHasTemplate
  BY AutomationInitType DEF AutomationInit, Init, TriggerHasTemplate
<1>2. AutomationTypeOK /\ TriggerHasTemplate /\ [SmartAccountNext]_automationVars
        => (AutomationTypeOK /\ TriggerHasTemplate)'
  BY AutomationTypeStep, TemplateStep
<1> QED BY <1>1, <1>2, PTL DEF SmartAccountSpec

----------------------------------------------------------------------------
(* Sessions and their fire counts.                                         *)

FireInv ==
  /\ session_grants \in [PublicKeys -> Sessions!SessionGrant \union {None}]
  /\ FireCapHolds

\* What a step does to the grants: nothing; one key gets a grant that has not
\* fired; some are taken away; or a session fires a trigger.
Fires(pk, t) ==
  /\ session_grants[pk] # None /\ Sessions!MayFire(pk, t)
  /\ session_grants' =
       [session_grants EXCEPT ![pk] = [session_grants[pk] EXCEPT !.fires = @ + 1]]

LEMMA GrantOutcomes ==
  ASSUME FireInv, [SmartAccountNext]_automationVars
  PROVE  \/ session_grants' = session_grants
         \/ \E pk \in PublicKeys, grant \in Sessions!SessionGrant :
              /\ grant.fires = 0
              /\ session_grants' = [session_grants EXCEPT ![pk] = grant]
         \/ \E gone \in SUBSET PublicKeys :
              session_grants' = [pk \in PublicKeys |->
                                   IF pk \in gone THEN None ELSE session_grants[pk]]
         \/ \E who \in Accounts, pk \in PublicKeys, t \in Triggers :
              execute_trigger(who, pk, t) /\ Fires(pk, t)
<1>0. session_grants \in [PublicKeys -> Sessions!SessionGrant \union {None}]
  BY DEF FireInv
<1>1. ASSUME NEW who \in Accounts, NEW pk \in PublicKeys \union {None}, NEW t \in Triggers,
             execute_trigger(who, pk, t)
      PROVE  session_grants' = session_grants \/ (pk \in PublicKeys /\ Fires(pk, t))
  <2>1. Authorized(who, pk, t)
    BY <1>1 DEF execute_trigger
  <2>2. CASE pk # None /\ session_grants[pk] # None
    <3>1. Sessions!MayFire(pk, t) /\ Sessions!BumpFireCount(pk) /\ pk \in PublicKeys
      BY <2>1, <2>2 DEF Authorized
    <3>2. session_grants' = [session_grants EXCEPT ![pk].fires = @ + 1]
      BY <3>1 DEF Sessions!BumpFireCount
    <3>3. session_grants' = [session_grants EXCEPT ![pk] =
                               [session_grants[pk] EXCEPT !.fires = @ + 1]]
      BY ONLY <1>0, <3>1, <3>2
    <3>4. Fires(pk, t)
      BY ONLY <2>2, <3>1, <3>3 DEF Fires
    <3> QED BY <3>1, <3>4
  <2>3. CASE ~(pk # None /\ session_grants[pk] # None)
    BY <2>1, <2>3 DEF Authorized
  <2> QED BY <2>2, <2>3
<1>2. CASE AutomationNext
  <2>1. CASE \E who \in Accounts, pk \in PublicKeys \union {None}, t \in Triggers :
               execute_trigger(who, pk, t)
    BY <1>1, <2>1
  <2>2. CASE session_grants' = session_grants
    BY <2>2
  <2> QED BY <1>2, <2>1, <2>2
          DEF AutomationNext, save_sequence_template, delete_sequence_template,
              create_balance_trigger, delete_balance_trigger,
              prune_finished_automation_runs, UNCHANGED_BUT_TRIGGERS, sessionVars
<1>3. CASE Sessions!Next
  <2>1. ASSUME NEW pk \in PublicKeys, NEW expires \in 1..MaxTime,
               NEW max_fire \in 1..MaxFires,
               NEW allowed \in (SUBSET Triggers) \union {None}, NEW sane \in BOOLEAN,
               Sessions!enroll_session(pk, expires, allowed, max_fire, sane)
        PROVE  \E grant \in Sessions!SessionGrant :
                 /\ grant.fires = 0
                 /\ session_grants' = [session_grants EXCEPT ![pk] = grant]
    <3> DEFINE grant == [expires_at |-> expires, allowed |-> allowed,
                         max_fire |-> max_fire, fires |-> 0]
    <3>1. grant \in Sessions!SessionGrant /\ grant.fires = 0
      BY SessionConstants DEF Sessions!SessionGrant
    <3>2. session_grants' = [session_grants EXCEPT ![pk] = grant]
      BY <2>1 DEF Sessions!enroll_session
    <3> HIDE DEF grant
    <3> QED BY <3>1, <3>2
  <2>2. ASSUME NEW pk \in PublicKeys, Sessions!revoke_session(pk)
        PROVE  session_grants' = [key \in PublicKeys |->
                                    IF key \in {pk} THEN None ELSE session_grants[key]]
    BY <1>0, <2>2 DEF Sessions!revoke_session
  <2>3. ASSUME NEW by_root, Sessions!revoke_expired_sessions(by_root)
        PROVE  /\ Sessions!Pruned \in SUBSET PublicKeys
               /\ session_grants' = [key \in PublicKeys |->
                    IF key \in Sessions!Pruned THEN None ELSE session_grants[key]]
    BY <2>3 DEF Sessions!revoke_expired_sessions, Sessions!Pruned
  <2>4. CASE session_grants' = session_grants
    BY <2>4
  <2>5. CASE Sessions!AuthorizerNext \/ Sessions!RuntimeNext
    BY <2>5, <2>4 DEF Sessions!AuthorizerNext, Sessions!RuntimeNext, Sessions!add_extension,
       Sessions!remove_extension, Sessions!KeyReceiptRuns, Sessions!Tick
  <2>6. ASSUME NEW mode, Sessions!set_authorizer(mode)
        PROVE  session_grants' = session_grants
    BY <2>6 DEF Sessions!set_authorizer
  <2>7. \A pk \in PublicKeys : {pk} \in SUBSET PublicKeys
    OBVIOUS
  <2>8. CASE \E pk \in PublicKeys, expires \in 1..MaxTime, max_fire \in 1..MaxFires,
                allowed \in (SUBSET Triggers) \union {None}, sane \in BOOLEAN :
               Sessions!enroll_session(pk, expires, allowed, max_fire, sane)
    BY <2>1, <2>8
  <2>9. CASE \E pk \in PublicKeys : Sessions!revoke_session(pk)
    BY <2>2, <2>7, <2>9
  <2> QED BY <1>3, <2>3, <2>5, <2>6, <2>8, <2>9
          DEF Sessions!Next, Sessions!ContractNext
<1>4. CASE SequencerNext \/ UNCHANGED automationVars
  BY <1>4 DEF SequencerNext, automationVars, sessionVars
<1> QED BY <1>2, <1>3, <1>4 DEF SmartAccountNext, SessionNext

LEMMA FireInit == AutomationInit => FireInv
  BY DEF AutomationInit, Sessions!Init, FireInv, FireCapHolds

\* A fire the grant still admits stays within its cap.
LEMMA BumpedGrant ==
  ASSUME NEW grant \in Sessions!SessionGrant, grant.fires < grant.max_fire
  PROVE  LET after == [grant EXCEPT !.fires = @ + 1]
         IN  after \in Sessions!SessionGrant /\ after.fires <= after.max_fire
  BY SessionConstants DEF Sessions!SessionGrant

LEMMA FireStep == FireInv /\ [SmartAccountNext]_automationVars => FireInv'
<1> SUFFICES ASSUME FireInv, [SmartAccountNext]_automationVars PROVE FireInv'
  OBVIOUS
<1>0. session_grants \in [PublicKeys -> Sessions!SessionGrant \union {None}]
  BY DEF FireInv
<1>1. CASE session_grants' = session_grants
  BY <1>1 DEF FireInv, FireCapHolds
<1>2. ASSUME NEW pk \in PublicKeys, NEW grant \in Sessions!SessionGrant,
             grant.fires <= grant.max_fire,
             session_grants' = [session_grants EXCEPT ![pk] = grant]
      PROVE  FireInv'
  BY <1>2 DEF FireInv, FireCapHolds
<1>3. ASSUME NEW grant \in Sessions!SessionGrant, grant.fires = 0
      PROVE  grant.fires <= grant.max_fire
  BY <1>3, SessionConstants DEF Sessions!SessionGrant
<1>4. ASSUME NEW gone \in SUBSET PublicKeys,
             session_grants' = [pk \in PublicKeys |->
                                  IF pk \in gone THEN None ELSE session_grants[pk]]
      PROVE  FireInv'
  BY <1>4 DEF FireInv, FireCapHolds
<1>5. ASSUME NEW pk \in PublicKeys, NEW t, Fires(pk, t)
      PROVE  FireInv'
  <2>1. session_grants[pk] \in Sessions!SessionGrant
    BY <1>0, <1>5 DEF Fires
  <2>2. session_grants[pk].fires < session_grants[pk].max_fire
    BY <1>5 DEF Fires, Sessions!MayFire, Sessions!Usable
  <2> QED BY <1>2, <1>5, <2>1, <2>2, BumpedGrant DEF Fires
<1> QED BY <1>1, <1>2, <1>3, <1>4, <1>5, GrantOutcomes

\* No session fires more often than the owner allowed when enrolling its key, in
\* any order of enrolments, revocations, prunings and calls of execute_trigger.
THEOREM FireCapSafe == SmartAccountSpec => []FireCapHolds
<1>1. FireInv => FireCapHolds
  BY DEF FireInv
<1> QED BY <1>1, FireInit, FireStep, PTL DEF SmartAccountSpec

\* A session's count grows only in a call of execute_trigger that starts a run.
LEMMA FireIsRun ==
  ASSUME AutomationTypeOK, FireInv, [SmartAccountNext]_automationVars,
         NEW pk \in PublicKeys, session_grants[pk] # None, session_grants'[pk] # None,
         session_grants'[pk].fires > session_grants[pk].fires
  PROVE  \E who \in Accounts, t \in Triggers :
           execute_trigger(who, pk, t) /\ Fires(pk, t)
<1>0. /\ session_grants \in [PublicKeys -> Sessions!SessionGrant \union {None}]
      /\ session_grants[pk].fires \in Nat
  BY DEF FireInv, Sessions!SessionGrant
<1>1. ASSUME NEW key \in PublicKeys, NEW grant \in Sessions!SessionGrant, grant.fires = 0,
             session_grants' = [session_grants EXCEPT ![key] = grant]
      PROVE  FALSE
  BY <1>0, <1>1
<1>2. ASSUME NEW gone \in SUBSET PublicKeys,
             session_grants' = [key \in PublicKeys |->
                                  IF key \in gone THEN None ELSE session_grants[key]]
      PROVE  FALSE
  BY <1>0, <1>2
<1>3. ASSUME NEW who \in Accounts, NEW key \in PublicKeys, NEW t \in Triggers,
             execute_trigger(who, key, t) /\ Fires(key, t)
      PROVE  key = pk
  BY <1>0, <1>3 DEF Fires
<1>4. CASE session_grants' = session_grants
  BY <1>0, <1>4
<1> QED BY <1>1, <1>2, <1>3, <1>4, GrantOutcomes

\* A fire is counted exactly when a run starts by it: the step that bumps a count
\* starts one run, of a trigger the grant allows, before the grant expires.  No
\* other call, callback or receipt adds to a count.
THEOREM FireIsOneRun == SmartAccountSpec => FireStartsOneRun
<1> DEFINE Started == {ns \in AutoNamespaces :
                         automation_runs[ns] = None /\ automation_runs'[ns] = "InFlight"}
           Counted(pk) ==
             /\ session_grants[pk] # None /\ session_grants'[pk] # None
             /\ session_grants'[pk].fires > session_grants[pk].fires
           OneRun(pk) ==
             /\ \E ns \in Started :
                  /\ Started = {ns}
                  /\ session_grants[pk].allowed # None
                       => ns.name \in session_grants[pk].allowed
             /\ now <= session_grants[pk].expires_at
<1>1. ASSUME AutomationTypeOK, FireInv, [SmartAccountNext]_automationVars,
             NEW pk \in PublicKeys, Counted(pk)
      PROVE  OneRun(pk)
  <2>1. PICK who \in Accounts, t \in Triggers : execute_trigger(who, pk, t) /\ Fires(pk, t)
    BY <1>1, FireIsRun
  <2> DEFINE ns == automation_namespace(t, balance_triggers[t].runs_started + 1)
  <2>2. ns \in AutoNamespaces /\ ns.name = t /\ automation_runs[ns] = None
    BY <1>1, <2>1, ExecuteFacts
  <2>3. automation_runs' = [automation_runs EXCEPT ![ns] = "InFlight"]
    BY <2>1 DEF execute_trigger
  <2> HIDE DEF ns
  <2>4. Started = {ns}
    <3>1. automation_runs \in [Namespaces -> RunStatus \union {None}]
      BY <1>1 DEF AutomationTypeOK, TypeOK
    <3>2. None # "InFlight"
      BY NoneAssumption DEF RunStatus
    <3> QED BY <2>2, <2>3, <3>1, <3>2, AutoNamespaceFacts
  <2>5. Sessions!MayFire(pk, t)
    BY <2>1 DEF Fires
  <2> QED BY <2>2, <2>4, <2>5 DEF Sessions!MayFire, Sessions!Usable
<1>2. AutomationTypeOK /\ FireInv /\ [SmartAccountNext]_automationVars
        => [\A pk \in PublicKeys : Counted(pk) => OneRun(pk)]_automationVars
  BY <1>1
<1>3. AutomationInit => AutomationTypeOK /\ FireInv
  BY AutomationInitType, FireInit
<1>4. AutomationTypeOK /\ FireInv /\ [SmartAccountNext]_automationVars
        => (AutomationTypeOK /\ FireInv)'
  BY AutomationTypeStep, FireStep
<1> QED BY <1>2, <1>3, <1>4, PTL DEF SmartAccountSpec, FireStartsOneRun
=============================================================================
