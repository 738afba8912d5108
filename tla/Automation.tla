---------------------------- MODULE Automation -----------------------------
(***************************************************************************)
(* Balance-trigger automation of contracts/smart-account on top of the     *)
(* release engine: durable sequence templates, triggers that start a run   *)
(* of a template in a namespace of its own, the run rows, their pruning,   *)
(* and the session keys that may fire a trigger.                           *)
(***************************************************************************)
EXTENDS Sequencer, Functions

CONSTANTS
  Minima,       \* values of min_balance_yocto
  MaxCreations, \* bound on how often one trigger_id is created
  PublicKeys, MaxTime, MaxFires, MaxKeyReceipts, AuthorizerModes

VARIABLES
  sequence_templates, \* SequenceIds -> a plan; <<>>: no template
  creations,          \* history: how often each trigger_id was created
  session_grants, authorizer_id, armed, access_keys, key_receipts, now,
  refused, moved

Sessions == INSTANCE SessionKeys

sessionVars == <<session_grants, authorizer_id, armed, access_keys, key_receipts, now,
                 refused, moved>>
templateVars == <<sequence_templates, creations>>
sequencerVars == vars
automationVars == <<sequencerVars, templateVars, sessionVars>>

ASSUME MinimaAssumption == Minima \subseteq Nat /\ MaxCreations \in Nat

\* What SessionKeys assumes of the constants it is given.
ASSUME SessionConstants ==
  /\ MaxTime \in Nat /\ MaxFires \in Nat /\ MaxKeyReceipts \in Nat
  /\ AuthorizerModes \subseteq Sessions!Holders

AutomationTypeOK ==
  /\ TypeOK
  /\ sequence_templates \in [SequenceIds -> Plans \union {<<>>}]
  /\ creations \in [Triggers -> 0..MaxCreations]

AutomationInit ==
  /\ Init
  /\ sequence_templates = [q \in SequenceIds |-> <<>>]
  /\ creations = [t \in Triggers |-> 0]
  /\ Sessions!Init

----------------------------------------------------------------------------
(* Templates and triggers, all owner-only.                                 *)

\* Overwrites a template of the same id, whether or not a trigger uses it or a
\* run of it is in flight.
save_sequence_template(q, plan) ==
  /\ sequence_templates' = [sequence_templates EXCEPT ![q] = plan]
  /\ UNCHANGED <<sequencerVars, creations, sessionVars>>

sequence_id_is_referenced(q) ==
  \E t \in Triggers : balance_triggers[t] # None /\ balance_triggers[t].sequence = q

Bad_delete_referenced_template(q) ==
  /\ sequence_templates[q] # <<>>
  /\ sequence_templates' = [sequence_templates EXCEPT ![q] = <<>>]
  /\ UNCHANGED <<sequencerVars, creations, sessionVars>>

delete_sequence_template(q) ==
  /\ sequence_templates[q] # <<>>
  /\ ~sequence_id_is_referenced(q)
  /\ sequence_templates' = [sequence_templates EXCEPT ![q] = <<>>]
  /\ UNCHANGED <<sequencerVars, creations, sessionVars>>

\* Frame of the actions that change triggers or run rows only.
UNCHANGED_BUT_TRIGGERS ==
  UNCHANGED <<authorized_executor, registered_steps, sequence_queue,
              sequence_contexts, balance, receipts, next_yield, historyVars,
              sequence_templates, sessionVars>>

Bad_create_without_runs(t, q, min_balance, max_runs) ==
  /\ balance_triggers[t] = None
  /\ sequence_templates[q] # <<>>
  /\ balance_triggers' = [balance_triggers EXCEPT ![t] =
       [sequence |-> q, min_balance |-> min_balance, max_runs |-> max_runs,
        runs_started |-> 0, in_flight |-> FALSE, last_run |-> None,
        last_outcome |-> None]]
  /\ creations[t] < MaxCreations
  /\ creations' = [creations EXCEPT ![t] = @ + 1]
  /\ UNCHANGED automation_runs
  /\ UNCHANGED_BUT_TRIGGERS

create_balance_trigger(t, q, min_balance, max_runs) ==
  /\ max_runs > 0
  /\ balance_triggers[t] = None
  /\ sequence_templates[q] # <<>>
  /\ balance_triggers' = [balance_triggers EXCEPT ![t] =
       [sequence |-> q, min_balance |-> min_balance, max_runs |-> max_runs,
        runs_started |-> 0, in_flight |-> FALSE, last_run |-> None,
        last_outcome |-> None]]
  /\ creations[t] < MaxCreations
  /\ creations' = [creations EXCEPT ![t] = @ + 1]
  /\ UNCHANGED automation_runs
  /\ UNCHANGED_BUT_TRIGGERS

delete_balance_trigger(t) ==
  /\ balance_triggers[t] # None
  /\ ~balance_triggers[t].in_flight
  /\ balance_triggers' = [balance_triggers EXCEPT ![t] = None]
  /\ UNCHANGED <<automation_runs, creations>>
  /\ UNCHANGED_BUT_TRIGGERS

----------------------------------------------------------------------------
(* Runs.                                                                   *)

total_attached_deposit(plan) == SumFunction([i \in DOMAIN plan |-> plan[i].deposit])

\* The transaction that calls execute_trigger: who sends it, and the session
\* key that signed it, or None for any other key.  The runtime refuses a
\* signature by a key that is on neither account, or pinned to another method.
CanSign(pk) ==
  pk # None => \E h \in Sessions!Holders : access_keys[h][pk] = "execute_trigger"

\* A key with a grant is held to the grant; anyone else must be an executor.
Authorized(who, pk, t) ==
  IF pk # None /\ session_grants[pk] # None
  THEN Sessions!MayFire(pk, t) /\ Sessions!BumpFireCount(pk)
  ELSE IsExecutor(who) /\ UNCHANGED session_grants

execute_trigger(who, pk, t) ==
  LET trigger == balance_triggers[t]
      plan == sequence_templates[trigger.sequence]
      run_nonce == trigger.runs_started + 1
      ns == automation_namespace(t, run_nonce)
  IN
  /\ CanSign(pk)
  /\ Authorized(who, pk, t)
  /\ trigger # None
  /\ plan # <<>>
  /\ ~trigger.in_flight
  /\ trigger.runs_started < trigger.max_runs
  /\ balance >= trigger.min_balance
  /\ balance >= total_attached_deposit(plan)
  /\ automation_runs[ns] = None
  /\ CanRegister(ns, plan)
  /\ StartRelease(ns, IdsOf(plan), Registered(ns, plan), Yielded(ns, plan))
  /\ next_yield' = next_yield + Len(plan)
  /\ balance_triggers' =
       [balance_triggers EXCEPT ![t].runs_started = run_nonce,
                                ![t].in_flight = TRUE,
                                ![t].last_run = ns,
                                ![t].last_outcome = "InFlight"]
  /\ automation_runs' = [automation_runs EXCEPT ![ns] = "InFlight"]
  /\ UNCHANGED <<authorized_executor, sequence_contexts, balance, templateVars,
                 authorizer_id, armed, access_keys, key_receipts, now, refused,
                 moved>>

Bad_prune_every_run ==
  /\ \E ns \in Namespaces : automation_runs[ns] # None
  /\ automation_runs' = [ns \in Namespaces |-> None]
  /\ UNCHANGED <<balance_triggers, creations>>
  /\ UNCHANGED_BUT_TRIGGERS

\* Anyone may call this.
prune_finished_automation_runs ==
  /\ \E ns \in Namespaces : automation_runs[ns] \notin {None, "InFlight"}
  /\ automation_runs' = [ns \in Namespaces |->
       IF automation_runs[ns] = "InFlight" THEN "InFlight" ELSE None]
  /\ UNCHANGED <<balance_triggers, creations>>
  /\ UNCHANGED_BUT_TRIGGERS

AutomationNext ==
  \/ \E q \in SequenceIds, plan \in Plans : save_sequence_template(q, plan)
  \/ \E q \in SequenceIds : delete_sequence_template(q)
  \/ \E t \in Triggers, q \in SequenceIds, min \in Minima, max \in 0..MaxNonce :
       create_balance_trigger(t, q, min, max)
  \/ \E t \in Triggers : delete_balance_trigger(t)
  \/ \E who \in Accounts, pk \in PublicKeys \union {None}, t \in Triggers :
       execute_trigger(who, pk, t)
  \/ prune_finished_automation_runs

SequencerNext == Next /\ UNCHANGED <<templateVars, sessionVars>>
SessionNext == Sessions!Next /\ UNCHANGED <<sequencerVars, templateVars>>

SmartAccountNext == AutomationNext \/ SequencerNext \/ SessionNext

SmartAccountSpec == AutomationInit /\ [][SmartAccountNext]_automationVars

FairSmartAccount ==
  SmartAccountSpec /\ \A y \in YieldIds :
    WF_automationVars(Deliver(y) /\ UNCHANGED <<templateVars, sessionVars>>)

----------------------------------------------------------------------------
(* Properties.                                                             *)

InFlightRuns(t) ==
  {ns \in AutoNamespaces : ns.name = t /\ automation_runs[ns] = "InFlight"}

\* What an automation run looks like to its caller: the chains of its namespace at
\* their places in the run, those whose target has been called, and how many of
\* these calls were answered with success.
ChainsOf(ns) == {y \in YieldIds : receipts[y] # None /\ receipts[y].ns = ns}
IdAt(ns, i) == receipts[CHOOSE y \in ChainsOf(ns) : ordered[y].pos = i].id
IdsAtPlaces(ns, chains) == [i \in {ordered[y].pos : y \in chains} |-> IdAt(ns, i)]
Called(ns) == {y \in ChainsOf(ns) : Phase(y) \in SentPhases}
Answered(ns) == {y \in ChainsOf(ns) : Phase(y) = "ok"}
OrderOf(ns) == IdsAtPlaces(ns, ChainsOf(ns))
CallsOf(ns) == IdsAtPlaces(ns, Called(ns))
AnswersOf(ns) == Cardinality(Answered(ns))

\* An automation run calls its targets one at a time, in the order of its plan,
\* each after the call before it was answered with success, and never one again,
\* whatever manual runs, other triggers, timeouts, panics and late callbacks come
\* between, unless its trigger_id has been created twice.
AccountPromise == INSTANCE OrderedRun WITH
  Runs <- AutoNamespaces, StepIds <- StepIds,
  order <- [ns \in AutoNamespaces |-> OrderOf(ns)],
  calls <- [ns \in AutoNamespaces |-> CallsOf(ns)],
  answers <- [ns \in AutoNamespaces |-> AnswersOf(ns)],
  shared <- {ns \in AutoNamespaces : creations[ns.name] > 1}
KeepsPromise == AccountPromise!Spec

\* The flag in_flight of a trigger and the run rows tell the same story: the
\* trigger is in flight exactly when its last run's row is InFlight, no other
\* row of it is, and no row is in flight for a trigger that does not exist.
InFlightAgreement ==
  \A t \in Triggers :
    InFlightRuns(t) =
      IF balance_triggers[t] # None /\ balance_triggers[t].in_flight
      THEN {balance_triggers[t].last_run} ELSE {}

\* A trigger's template cannot vanish under it, so execute_trigger never fails
\* for an unknown template.
TriggerHasTemplate ==
  \A t \in Triggers : balance_triggers[t] # None =>
    sequence_templates[balance_triggers[t].sequence] # <<>>

\* A row that reports success is telling the truth: every step registered in
\* its namespace resolved ok.
SucceededMeansEveryStepOk ==
  \A ns \in AutoNamespaces : automation_runs[ns] = "Succeeded" =>
    \A y \in YieldIds : receipts[y] # None /\ receipts[y].ns = ns => Phase(y) = "ok"

\* A finished run leaves nothing behind in its namespace: no registered step, no
\* queue, no saved result, whatever callbacks of it still arrive.
FinishedRunLeavesNothing ==
  \A ns \in AutoNamespaces : automation_runs[ns] # "InFlight" =>
    /\ \A id \in StepIds : registered_steps[<<ns, id>>] = None
    /\ sequence_queue[ns] = <<>>
    /\ sequence_contexts[ns] = NoContext

\* A run in flight is being driven: a step of it has been released and its next
\* callback will find its registration.
InFlightHasDriver ==
  \A ns \in AutoNamespaces : automation_runs[ns] = "InFlight" =>
    \E y \in YieldIds : Released(y) /\ receipts[y].ns = ns /\ Found(y) # None

\* A run row changes status once: from in flight to how it ended.
RunEndsOnce ==
  [][\A ns \in AutoNamespaces :
       automation_runs[ns] \notin {None, "InFlight"}
         => automation_runs'[ns] \in {automation_runs[ns], None}]_automationVars

\* A session never fires more often than its grant allows.
FireCapHolds ==
  \A pk \in PublicKeys : session_grants[pk] # None =>
    session_grants[pk].fires <= session_grants[pk].max_fire

\* A fire is counted exactly when a run starts by it: the step that bumps a
\* session's count starts one run, of a trigger the session allows, while the
\* session has not expired.
FireStartsOneRun ==
  [][\A pk \in PublicKeys :
       /\ session_grants[pk] # None /\ session_grants'[pk] # None
       /\ session_grants'[pk].fires > session_grants[pk].fires
       => LET started == {ns \in AutoNamespaces :
                            automation_runs[ns] = None /\ automation_runs'[ns] = "InFlight"}
          IN  /\ \E ns \in started :
                   /\ started = {ns}
                   /\ session_grants[pk].allowed # None
                        => ns.name \in session_grants[pk].allowed
              /\ now <= session_grants[pk].expires_at]_automationVars

\* Every run ends: a trigger that is in flight becomes free again.
RunsFinish ==
  \A ns \in AutoNamespaces :
    automation_runs[ns] = "InFlight" ~> automation_runs[ns] # "InFlight"
=============================================================================
