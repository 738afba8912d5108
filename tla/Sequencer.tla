----------------------------- MODULE Sequencer -----------------------------
(***************************************************************************)
(* The release engine of contracts/smart-account: steps registered as      *)
(* yielded receipts, an ordered queue per namespace, and the chain of      *)
(* callbacks that takes one step from its yield to its resolution.         *)
(*                                                                         *)
(* A contract call that does not fail runs atomically, so each entry point *)
(* and each callback is one action; a call that panics is rolled back, so  *)
(* an entry point that would panic is not enabled, while a callback that   *)
(* panics consumes its receipt and changes nothing else ("aborted").       *)
(* Between two calls the runtime holds the receipts that are still to run: *)
(* that is the variable receipts, one entry per yield ever created, which  *)
(* follows the whole chain of that yield.                                  *)
(***************************************************************************)
EXTENDS Naturals, Sequences, FiniteSets

CONSTANTS
  Accounts,     \* accounts that call the contract
  Owner,        \* owner_id
  Delegates,    \* accounts the owner may name authorized_executor
  Callers,      \* accounts that stage steps in their manual namespace
  StepIds,      \* step_id values
  Names,        \* save_result.as_name values
  Steps,        \* the steps that callers and templates submit
  Plans,        \* the plans given to execute_steps and to templates
  Orders,       \* the orders given to run_sequence
  Triggers,     \* trigger_id values
  SequenceIds,  \* sequence_id values of the durable templates
  GateGas,      \* whether registering calls leave their yields the gas that a
                \* gate call needs beyond the static budget
  MaxNonce,     \* bound on max_runs, u32::MAX in the code
  MaxYields,    \* bound on the yields ever created
  MaxReleases,  \* bound on the runs ever started
  MaxBalance,   \* bound on the account balance
  None          \* "not there"

ASSUME BoundsAssumption ==
  /\ MaxNonce \in Nat /\ MaxYields \in Nat
  /\ MaxReleases \in Nat /\ MaxBalance \in Nat

ASSUME GateGasAssumption == GateGas \subseteq BOOLEAN

ASSUME AccountsAssumption ==
  /\ Owner \in Accounts /\ None \notin Accounts
  /\ Delegates \subseteq Accounts /\ Callers \subseteq Accounts

Policies == {"direct", "adapter", "asserted"}

\* One saved name and one referenced name stand for save_result and for the
\* substitutions of args_template; the target, its method and its bytes are
\* left out.
StepType == [id: StepIds, gated: BOOLEAN, policy: Policies,
             save: Names \union {None}, uses: Names \union {None},
             deposit: Nat]

\* validate_sequence_template_inputs and execute_steps both refuse an empty
\* plan and a repeated step_id; run_sequence refuses only the empty order.
DistinctIds(plan) ==
  \A i, j \in DOMAIN plan : plan[i].id = plan[j].id => i = j

ASSUME StepsAssumption == Steps \subseteq StepType /\ None \notin Names

ASSUME PlansAssumption ==
  /\ \A plan \in Plans :
       plan \in Seq(Steps) /\ plan # <<>> /\ DistinctIds(plan)
  /\ \A order \in Orders : order \in Seq(StepIds) /\ order # <<>>

ASSUME TriggersAssumption == None \notin Triggers /\ None \notin SequenceIds

\* Mutants: an operator named Bad_... is another one as a plausible bug would have
\* it.  No action uses them; each property is refuted when one takes its place.

manual_namespace(caller) == [kind |-> "manual", name |-> caller, nonce |-> 0]
Bad_namespace_without_nonce(t, n) == [kind |-> "auto", name |-> t, nonce |-> 1]
automation_namespace(t, n) == [kind |-> "auto", name |-> t, nonce |-> n]

ManualNamespaces == {manual_namespace(a) : a \in Callers}
AutoNamespaces == {automation_namespace(t, n) : t \in Triggers, n \in 1..MaxNonce}
Namespaces == ManualNamespaces \union AutoNamespaces

\* registered_step_key: the map registered_steps is indexed by namespace and id.
Keys == Namespaces \X StepIds

YieldIds == 1..MaxYields

RegisteredStep == [yield: YieldIds, call: Steps]

RunStatus == {"InFlight", "Succeeded", "DownstreamFailed", "ResumeFailed"}

BalanceTrigger == [sequence: SequenceIds, min_balance: Nat, max_runs: 1..MaxNonce,
                   runs_started: 0..MaxNonce, in_flight: BOOLEAN,
                   last_run: AutoNamespaces \union {None},
                   last_outcome: RunStatus \union {None}]

----------------------------------------------------------------------------
(* State.                                                                  *)

VARIABLES
  authorized_executor, \* the account besides the owner that may start runs
  registered_steps,    \* Keys -> RegisteredStep, or None
  sequence_queue,      \* the ids still to be released; <<>>: no entry
  sequence_contexts,   \* per namespace and name, the yield whose result is saved
  automation_runs,     \* status of the run row of a namespace, or None
  balance_triggers,    \* Triggers -> BalanceTrigger, or None
  balance,             \* the account's balance
  receipts,            \* runtime: where the chain of each yield stands
  next_yield,          \* runtime: the next yield id
  ordered,             \* history: the run, and the place in it, of each yield
  releases             \* history: runs started so far

contractVars == <<registered_steps, sequence_queue, sequence_contexts,
                  automation_runs, balance_triggers>>
historyVars == <<ordered, releases>>
vars == <<authorized_executor, contractVars, balance, receipts, next_yield,
          historyVars>>

\* How far the chain of a yield is.  "waiting": yielded; "resumed": resume was
\* called, on_step_resumed is on its way; "gate": the gate call runs;
\* "target": the target or adapter call runs; "asserted_target", "check": the
\* target, then the postcheck, of an Asserted step runs; "resolve_ok",
\* "resolve_err": on_step_resolved is on its way with that result.
ReleasedPhases == {"resumed", "gate", "target", "asserted_target", "check",
                   "resolve_ok", "resolve_err"}
LivePhases == {"waiting"} \union ReleasedPhases
\* How a chain ended.  "ok", "err": on_step_resolved ran; "halted": the step
\* ended before its target call; "dropped": a callback found nothing to do;
\* "aborted": a callback panicked.
EndPhases == {"ok", "err", "halted", "dropped", "aborted"}
Phases == LivePhases \union EndPhases
\* The target call of the chain has been sent.
SentPhases == {"target", "asserted_target", "check", "resolve_ok", "resolve_err",
               "ok", "err"}

Receipt == [ns: Namespaces, id: StepIds, phase: Phases]

ASSUME NoneAssumption ==
  /\ None \notin RegisteredStep /\ None \notin Receipt
  /\ None \notin Phases /\ None \notin RunStatus /\ None \notin BalanceTrigger

Place == [run: 0..MaxReleases, pos: Nat]

NoContext == [x \in Names |-> None]

TypeOK ==
  /\ authorized_executor \in Delegates \union {None}
  /\ registered_steps \in [Keys -> RegisteredStep \union {None}]
  /\ sequence_queue \in [Namespaces -> Seq(StepIds)]
  /\ sequence_contexts \in [Namespaces -> [Names -> YieldIds \union {None}]]
  /\ automation_runs \in [Namespaces -> RunStatus \union {None}]
  /\ \A ns \in ManualNamespaces : automation_runs[ns] = None
  /\ balance_triggers \in [Triggers -> BalanceTrigger \union {None}]
  /\ balance \in 0..MaxBalance
  /\ receipts \in [YieldIds -> Receipt \union {None}]
  /\ next_yield \in 1..(MaxYields + 1)
  /\ ordered \in [YieldIds -> Place]
  /\ releases \in 0..MaxReleases

Init ==
  /\ authorized_executor = None
  /\ registered_steps = [k \in Keys |-> None]
  /\ sequence_queue = [ns \in Namespaces |-> <<>>]
  /\ sequence_contexts = [ns \in Namespaces |-> NoContext]
  /\ automation_runs = [ns \in Namespaces |-> None]
  /\ balance_triggers = [t \in Triggers |-> None]
  /\ balance = MaxBalance
  /\ receipts = [y \in YieldIds |-> None]
  /\ next_yield = 1
  /\ ordered = [y \in YieldIds |-> [run |-> 0, pos |-> 0]]
  /\ releases = 0

Phase(y) == IF receipts[y] = None THEN None ELSE receipts[y].phase
Key(y) == <<receipts[y].ns, receipts[y].id>>
\* The registration a callback of the chain of y finds under its key.
Found(y) == registered_steps[Key(y)]

----------------------------------------------------------------------------
(* Registration and the start of a release, shared by the entry points.    *)

\* register_step_in_namespace for every call of a plan: the map and the
\* runtime's receipts after it, as values.
Bad_CanRegister_taken(ns, plan) == next_yield + Len(plan) - 1 <= MaxYields

CanRegister(ns, plan) ==
  /\ next_yield + Len(plan) - 1 <= MaxYields
  /\ \A i \in DOMAIN plan : registered_steps[<<ns, plan[i].id>>] = None

Registered(ns, plan) ==
  [k \in Keys |->
     IF k[1] = ns /\ \E i \in DOMAIN plan : plan[i].id = k[2]
     THEN LET i == CHOOSE i \in DOMAIN plan : plan[i].id = k[2]
          IN  [yield |-> next_yield + i - 1, call |-> plan[i]]
     ELSE registered_steps[k]]

Yielded(ns, plan) ==
  [y \in YieldIds |->
     IF y \in next_yield..(next_yield + Len(plan) - 1)
     THEN [ns |-> ns, id |-> plan[y - next_yield + 1].id, phase |-> "waiting"]
     ELSE receipts[y]]

\* resume() succeeds while the runtime holds the yield; it is not consumed
\* before on_step_resumed runs.
CanResume(rcpts, y) == rcpts[y] # None /\ rcpts[y].phase \in {"waiting", "resumed"}

\* start_sequence_release_in_namespace over a map reg and receipts rcpts: queue
\* the tail of the order, resume its head.
StartRelease(ns, order, reg, rcpts) ==
  /\ order # <<>>
  /\ sequence_queue[ns] = <<>>
  /\ \A i \in DOMAIN order : reg[<<ns, order[i]>>] # None
  /\ CanResume(rcpts, reg[<<ns, Head(order)>>].yield)
  /\ sequence_queue' = [sequence_queue EXCEPT ![ns] = Tail(order)]
  /\ receipts' = [rcpts EXCEPT ![reg[<<ns, Head(order)>>].yield].phase = "resumed"]
  /\ registered_steps' = reg
  /\ releases < MaxReleases
  /\ releases' = releases + 1
  /\ ordered' =
       [y \in YieldIds |->
          IF \E i \in DOMAIN order : reg[<<ns, order[i]>>].yield = y
          THEN [run |-> releases + 1,
                pos |-> CHOOSE i \in DOMAIN order :
                          /\ reg[<<ns, order[i]>>].yield = y
                          /\ \A j \in 1..(i - 1) : reg[<<ns, order[j]>>].yield # y]
          ELSE ordered[y]]

----------------------------------------------------------------------------
(* The entry points of manual runs.                                        *)

\* assert_executor
IsExecutor(who) == who = Owner \/ who = authorized_executor

\* Owner-only.
set_authorized_executor(account) ==
  /\ authorized_executor' = account
  /\ UNCHANGED <<contractVars, balance, receipts, next_yield, historyVars>>

\* Any account may stage steps under its own manual namespace.
register_step(caller, step) ==
  LET ns == manual_namespace(caller) IN
  /\ CanRegister(ns, <<step>>)
  /\ registered_steps' = Registered(ns, <<step>>)
  /\ receipts' = Yielded(ns, <<step>>)
  /\ next_yield' = next_yield + 1
  /\ UNCHANGED <<authorized_executor, sequence_queue, sequence_contexts,
                 automation_runs, balance_triggers, balance, historyVars>>

IdsOf(plan) == [i \in DOMAIN plan |-> plan[i].id]

execute_steps(caller, plan) ==
  LET ns == manual_namespace(caller) IN
  /\ IsExecutor(caller)
  /\ CanRegister(ns, plan)
  /\ StartRelease(ns, IdsOf(plan), Registered(ns, plan), Yielded(ns, plan))
  /\ next_yield' = next_yield + Len(plan)
  /\ UNCHANGED <<authorized_executor, sequence_contexts, automation_runs,
                 balance_triggers, balance>>

run_sequence(who, caller, order) ==
  /\ IsExecutor(who)
  /\ StartRelease(manual_namespace(caller), order, registered_steps, receipts)
  /\ UNCHANGED <<authorized_executor, sequence_contexts, automation_runs,
                 balance_triggers, balance, next_yield>>

----------------------------------------------------------------------------
(* How a run ends.                                                         *)

Without(key) == [registered_steps EXCEPT ![key] = None]

\* clear_registered_namespace
ClearedNamespace(ns, reg) ==
  [k \in Keys |-> IF k[1] = ns THEN None ELSE reg[k]]

Bad_finish_any_row(ns, status, reg) ==
  /\ automation_runs' = [automation_runs EXCEPT ![ns] = status]
  /\ registered_steps' = ClearedNamespace(ns, reg)
  /\ UNCHANGED balance_triggers

Bad_finish_keeps_steps(ns, status, reg) ==
  /\ IF automation_runs[ns] = "InFlight"
     THEN automation_runs' = [automation_runs EXCEPT ![ns] = status]
     ELSE UNCHANGED automation_runs
  /\ registered_steps' = reg
  /\ UNCHANGED balance_triggers

\* finish_automation_run, given the map of registered steps its caller leaves.
\* Its removal of the queue is its callers': none is left when it runs.
finish_automation_run(ns, status, reg) ==
  IF automation_runs[ns] = "InFlight"
  THEN /\ automation_runs' = [automation_runs EXCEPT ![ns] = status]
       /\ balance_triggers' =
            [t \in Triggers |->
               IF t = ns.name /\ balance_triggers[t] # None
               THEN [balance_triggers[t] EXCEPT !.in_flight = FALSE,
                                                !.last_outcome = status]
               ELSE balance_triggers[t]]
       /\ registered_steps' = ClearedNamespace(ns, reg)
  ELSE /\ registered_steps' = reg
       /\ UNCHANGED <<automation_runs, balance_triggers>>

Bad_Halt_keeps_queue(ns, status, reg) ==
  /\ sequence_contexts' = [sequence_contexts EXCEPT ![ns] = NoContext]
  /\ finish_automation_run(ns, status, reg)
  /\ UNCHANGED sequence_queue

Bad_Halt_without_finish(ns, status, reg) ==
  /\ sequence_queue' = [sequence_queue EXCEPT ![ns] = <<>>]
  /\ sequence_contexts' = [sequence_contexts EXCEPT ![ns] = NoContext]
  /\ registered_steps' = reg
  /\ UNCHANGED <<automation_runs, balance_triggers>>

\* The tail every failure path shares: drop the queue and the context, finish
\* the run.
Halt(ns, status, reg) ==
  /\ sequence_queue' = [sequence_queue EXCEPT ![ns] = <<>>]
  /\ sequence_contexts' = [sequence_contexts EXCEPT ![ns] = NoContext]
  /\ finish_automation_run(ns, status, reg)

MoveTo(y, phase) == receipts' = [receipts EXCEPT ![y].phase = phase]

----------------------------------------------------------------------------
(* The callbacks.                                                          *)

\* A callback that finds no registration under its key logs and returns.
WakesUpLate(y) ==
  /\ Found(y) = None
  /\ MoveTo(y, "dropped")
  /\ UNCHANGED <<contractVars, balance>>

\* halt_sequence_on_materialize_failure.  Only a step with an args_template can
\* fail: the name was never saved, or its bytes do not fit the operation.
halt_on_materialize_failure(y) ==
  /\ Found(y).call.uses # None
  /\ MoveTo(y, "halted")
  /\ Halt(receipts[y].ns, "DownstreamFailed", Without(Key(y)))
  /\ UNCHANGED balance

Materializes(y) ==
  LET name == Found(y).call.uses
  IN  name # None => sequence_contexts[receipts[y].ns][name] # None

\* on_pre_gate_checked is given 25 + gas + 20 TGas, which pays for a Direct
\* target and on_step_resolved but for no adapter or postcheck overhead
\* (GateSendsOnlyDirect in GasBudget).
GasFits(call) == call.gated => call.policy = "direct"

\* dispatch_promise_for_call.  Creating the promise draws the deposit from the
\* balance and the gas from the callback; short of either the callback panics.
dispatch_promise_for_call(y) ==
  LET call == Found(y).call IN
  /\ Materializes(y)
  /\ IF balance >= call.deposit /\ GasFits(call)
     THEN /\ MoveTo(y, IF call.policy = "asserted" THEN "asserted_target" ELSE "target")
          /\ balance' = balance - call.deposit
     ELSE MoveTo(y, "aborted") /\ UNCHANGED balance
  /\ UNCHANGED contractVars

on_step_resumed_ok(y) ==
  /\ Phase(y) = "resumed"
  /\ Found(y) # None
  /\ IF Found(y).call.gated
     THEN /\ \E enough \in GateGas : MoveTo(y, IF enough THEN "gate" ELSE "aborted")
          /\ UNCHANGED <<contractVars, balance>>
     ELSE halt_on_materialize_failure(y) \/ dispatch_promise_for_call(y)

Bad_timeout_keeps_step(y) ==
  /\ Phase(y) \in {"waiting", "resumed"}
  /\ Found(y) # None
  /\ MoveTo(y, "halted")
  /\ Halt(receipts[y].ns, "ResumeFailed", registered_steps)
  /\ UNCHANGED balance

Bad_timeout_dispatches(y) ==
  /\ Phase(y) \in {"waiting", "resumed"}
  /\ Found(y) # None
  /\ halt_on_materialize_failure(y) \/ dispatch_promise_for_call(y)

\* The yield timed out.  The runtime's timeout may be on its way already when
\* resume is called, so a resumed chain can end like this too.
on_step_resumed_err(y) ==
  /\ Phase(y) \in {"waiting", "resumed"}
  /\ Found(y) # None
  /\ MoveTo(y, "halted")
  /\ Halt(receipts[y].ns, "ResumeFailed", Without(Key(y)))
  /\ UNCHANGED balance

on_step_resumed(y) ==
  \/ on_step_resumed_ok(y)
  \/ on_step_resumed_err(y)
  \/ Phase(y) \in {"waiting", "resumed"} /\ WakesUpLate(y)

on_pre_gate_checked_in_range(y) ==
  /\ Found(y) # None
  /\ Found(y).call.gated
  /\ halt_on_materialize_failure(y) \/ dispatch_promise_for_call(y)

\* The gate call failed, or its bytes are out of range.
halt_sequence_on_pre_gate_failure(y) ==
  /\ Found(y) # None
  /\ Found(y).call.gated
  /\ MoveTo(y, "halted")
  /\ Halt(receipts[y].ns, "DownstreamFailed", Without(Key(y)))
  /\ UNCHANGED balance

\* The defensive branch: the registration found declares no gate.
on_pre_gate_checked_ungated(y) ==
  /\ Found(y) # None
  /\ ~Found(y).call.gated
  /\ MoveTo(y, "dropped")
  /\ UNCHANGED <<contractVars, balance>>

on_pre_gate_checked(y) ==
  /\ Phase(y) = "gate"
  /\ \/ WakesUpLate(y)
     \/ on_pre_gate_checked_ungated(y)
     \/ on_pre_gate_checked_in_range(y)
     \/ halt_sequence_on_pre_gate_failure(y)

\* The target or adapter answered; an answer above MAX_CALLBACK_RESULT_BYTES is
\* an error for the callback.
TargetReturns(y, ok) ==
  /\ Phase(y) = "target"
  /\ MoveTo(y, IF ok THEN "resolve_ok" ELSE "resolve_err")
  /\ UNCHANGED <<contractVars, balance>>

\* Panics when the target failed, so that on_step_resolved sees an error.
on_asserted_run_postcheck(y, targetOk) ==
  /\ Phase(y) = "asserted_target"
  /\ MoveTo(y, IF targetOk THEN "check" ELSE "resolve_err")
  /\ UNCHANGED <<contractVars, balance>>

\* Panics unless the postcheck returned the expected bytes.
on_asserted_evaluate_postcheck(y, matched) ==
  /\ Phase(y) = "check"
  /\ MoveTo(y, IF matched THEN "resolve_ok" ELSE "resolve_err")
  /\ UNCHANGED <<contractVars, balance>>

Bad_ContextAfter_by_name(y) ==
  IF Found(y) # None /\ Found(y).call.save # None
  THEN [ns \in Namespaces |->
          IF ns.name = receipts[y].ns.name
          THEN [sequence_contexts[ns] EXCEPT ![Found(y).call.save] = y]
          ELSE sequence_contexts[ns]]
  ELSE sequence_contexts

\* save_step_result: the context after the resolution of y.
ContextAfter(y) ==
  IF Found(y) # None /\ Found(y).call.save # None
  THEN [sequence_contexts EXCEPT ![receipts[y].ns][Found(y).call.save] = y]
  ELSE sequence_contexts

\* take_next_queued_step and resume_registered_step.
ReleaseNext(y) ==
  LET ns == receipts[y].ns
      next == Head(sequence_queue[ns])
      reg == Without(Key(y))
      entry == reg[<<ns, next>>]
  IN
  /\ sequence_queue[ns] # <<>>
  /\ IF entry # None /\ CanResume(receipts, entry.yield)
     THEN /\ receipts' = [receipts EXCEPT ![y].phase = "ok",
                                          ![entry.yield].phase = "resumed"]
          /\ sequence_queue' = [sequence_queue EXCEPT ![ns] = Tail(@)]
          /\ sequence_contexts' = ContextAfter(y)
          /\ registered_steps' = reg
          /\ UNCHANGED <<automation_runs, balance_triggers>>
     ELSE /\ MoveTo(y, "ok")
          /\ Halt(ns, "ResumeFailed", reg)

Bad_CompleteSequence_early(y) ==
  LET ns == receipts[y].ns IN
  /\ MoveTo(y, "ok")
  /\ finish_automation_run(ns, "Succeeded", Without(Key(y)))
  /\ sequence_contexts' = [sequence_contexts EXCEPT ![ns] = NoContext]
  /\ UNCHANGED sequence_queue

\* Nothing is queued: sequence_completed is emitted.
CompleteSequence(y) ==
  LET ns == receipts[y].ns IN
  /\ sequence_queue[ns] = <<>>
  /\ MoveTo(y, "ok")
  /\ finish_automation_run(ns, "Succeeded", Without(Key(y)))
  /\ sequence_contexts' = [sequence_contexts EXCEPT ![ns] = NoContext]
  /\ UNCHANGED sequence_queue

on_step_resolved_ok(y) ==
  /\ Phase(y) = "resolve_ok"
  /\ ReleaseNext(y) \/ CompleteSequence(y)
  /\ UNCHANGED balance

Bad_failure_only_logged(y) ==
  /\ Phase(y) = "resolve_err"
  /\ MoveTo(y, "err")
  /\ UNCHANGED <<contractVars, balance>>

on_step_resolved_err(y) ==
  /\ Phase(y) = "resolve_err"
  /\ MoveTo(y, "err")
  /\ Halt(receipts[y].ns, "DownstreamFailed", Without(Key(y)))
  /\ UNCHANGED balance

\* Whatever the runtime can run next on the chain of y.
Deliver(y) ==
  /\ \/ on_step_resumed(y)
     \/ on_pre_gate_checked(y)
     \/ \E ok \in BOOLEAN :
          \/ TargetReturns(y, ok)
          \/ on_asserted_run_postcheck(y, ok)
          \/ on_asserted_evaluate_postcheck(y, ok)
     \/ on_step_resolved_ok(y)
     \/ on_step_resolved_err(y)
  /\ UNCHANGED <<authorized_executor, next_yield, historyVars>>

\* The account is credited: a transfer, a refund of a failed call, a top-up.
Credit(amount) ==
  /\ balance + amount <= MaxBalance
  /\ balance' = balance + amount
  /\ UNCHANGED <<authorized_executor, contractVars, receipts, next_yield, historyVars>>

Manual ==
  \/ \E account \in Delegates \union {None} : set_authorized_executor(account)
  \/ \E caller \in Callers, step \in Steps : register_step(caller, step)
  \/ \E caller \in Callers, plan \in Plans : execute_steps(caller, plan)
  \/ \E who \in Accounts, caller \in Callers, order \in Orders :
       run_sequence(who, caller, order)

Runtime ==
  \/ \E y \in YieldIds : Deliver(y)
  \/ \E amount \in 1..MaxBalance : Credit(amount)

Next == Manual \/ Runtime

Spec == Init /\ [][Next]_vars

\* The runtime runs every receipt it holds, and times out a yield that nobody
\* resumes.  Nobody has to call an entry point.
FairRuntime == \A y \in YieldIds : WF_vars(Deliver(y))

FairSpec == Spec /\ FairRuntime

----------------------------------------------------------------------------
(* Properties.                                                             *)

Live(y) == Phase(y) \in LivePhases
Released(y) == Phase(y) \in ReleasedPhases

\* A callback only ever meets the registration it was created with: while the
\* chain of a yield is alive and its key is taken, the key holds that yield.
\* on_step_resumed, on_pre_gate_checked and on_step_resolved look their step up
\* by namespace and id, never by yield_id.
CallbackFindsOwnStep ==
  \A y \in YieldIds :
    Live(y) /\ Found(y) # None => Found(y).yield = y

\* Only a callback that panicked leaves its step behind: every registered step
\* has a chain under its own key that is alive or was rolled back.
OnlyPanicsStrand ==
  \A k \in Keys : registered_steps[k] # None =>
    LET y == registered_steps[k].yield
    IN  Key(y) = k /\ (Live(y) \/ Phase(y) = "aborted")

\* Neither a queue nor a saved result waits for nobody: while ids are queued or
\* results are saved in a namespace, a released step of it is on its way to a
\* callback that finds its registration and pops or drops them, unless a callback
\* of the namespace panicked and left its step and all it held behind.
Driven(ns) ==
  \E y \in YieldIds :
    /\ receipts[y] # None /\ receipts[y].ns = ns
    /\ Released(y) \/ Phase(y) = "aborted"
    /\ Found(y) # None /\ Found(y).yield = y
WaitingHasDriver ==
  \A ns \in Namespaces :
    sequence_queue[ns] # <<>> \/ sequence_contexts[ns] # NoContext => Driven(ns)

\* Step N+1 of a run is sent only after step N of that run resolved successfully.
OrderedIn(namespaces) ==
  \A y, z \in YieldIds :
    /\ ordered[z].run # 0 /\ ordered[y].run = ordered[z].run
    /\ ordered[y].pos + 1 = ordered[z].pos
    /\ receipts[z] # None /\ receipts[z].ns \in namespaces
    /\ Phase(z) \in SentPhases
    => Phase(y) = "ok"

\* Every automation run keeps this promise.
OrderedRelease == OrderedIn(AutoNamespaces)

\* The first run of an account whose callers order their runs by hand keeps it.  A
\* later one may not: run_sequence looks at the queue and starts a run beside one
\* whose last step is still in flight.
FirstRunOrdered == releases = 1 => OrderedIn(ManualNamespaces)

\* sequence_completed means success: when a successful resolution finds nothing
\* queued and announces the end, every step of its run has resolved ok.
EmitsCompleted(y) ==
  /\ Phase(y) = "resolve_ok" /\ Phase(y)' = "ok"
  /\ sequence_queue[receipts[y].ns] = <<>>
CompletedMeansAllOk ==
  [][\A y \in YieldIds : EmitsCompleted(y) =>
       \A z \in YieldIds :
         ordered[z].run = ordered[y].run => Phase(z)' = "ok"]_vars

\* The arguments of a step of an automation run are built from results that its own
\* run saved.
Sends(y) == Phase(y) \in {"resumed", "gate"}
            /\ Phase(y)' \in {"target", "asserted_target"}
ReadsOwnRun ==
  [][\A y \in YieldIds :
       Sends(y) /\ receipts[y].ns \in AutoNamespaces /\ Found(y).call.uses # None =>
       LET saver == sequence_contexts[receipts[y].ns][Found(y).call.uses]
       IN  ordered[saver].run = ordered[y].run]_vars

\* Every registered step is eventually released and resolved, or removed; no
\* namespace keeps a step for ever.
StepsLeave ==
  \A k \in Keys, y \in YieldIds :
    (registered_steps[k] # None /\ registered_steps[k].yield = y)
      ~> (registered_steps[k] = None \/ registered_steps[k].yield # y)
=============================================================================
