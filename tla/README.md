# Verification of the smart account

TLA+ models of the smart account in `contracts/`, the TLC runs that check them
and the theorems TLAPS proves about them. Line numbers without a path are lines
of `contracts/smart-account/src/lib.rs`. `PROJECT.json` maps every definition to
the lines it models, and lists the hazards of the code with the properties that
watch them.

## The system

A smart account takes a *plan* of cross-contract calls ("steps") and runs them
one after the other. Each step is registered as a *yielded* receipt: the runtime
keeps it until the contract resumes it, or times it out after about 200 blocks.
A run resumes the first step and queues the others; each successful resolution
pops the queue and resumes the next; any failure drops the queue.

| Component | State it keeps | Operations | What makes it correct |
|---|---|---|---|
| **Sequencer** (smart-account) | `registered_steps`, `sequence_queue`, `sequence_contexts`, `authorized_executor` | `register_step`, `execute_steps`, `run_sequence`, callbacks `on_step_resumed`, `on_pre_gate_checked`, `on_asserted_run_postcheck`, `on_asserted_evaluate_postcheck`, `on_step_resolved` | step N+1 only after step N succeeded; a callback acts on its own step only; nothing stays queued, registered or saved with nobody to remove it |
| **Automation** (smart-account) | `sequence_templates`, `balance_triggers`, `automation_runs` | save / delete template, create / delete trigger, `execute_trigger`, `prune_finished_automation_runs` | one run in flight per trigger; the row tells how the run ended, once; every run ends; a trigger has its template |
| **Session keys** (smart-account, authorizer) | `session_grants`, `authorizer_id`; the account's access keys | `enroll_session`, `revoke_session`, `revoke_expired_sessions`, `set_authorizer`, the session branch of `execute_trigger` | the fire cap; a fire is a run; grants and keys agree once receipts have settled |
| **Proxy keys** (smart-account) | `proxy_grants`; the same access keys | `enroll_proxy_key`, `proxy_call`, `revoke_proxy_key`, `revoke_expired_proxy_keys` | a key spends no more than was enrolled; grants and keys agree, also where one public key holds both kinds |
| **Migration** (smart-account) | the layout of the stored state | `migrate` | grants survive; nothing is authorized that was not before |
| **Gas budgets** (smart-account) | none, static amounts | `validate_step`, the gas given to each promise | what was admitted can be paid for, callback by callback |
| **Authorizer** | `owner_id`, `extensions` | `set_owner`, `add_extension`, `remove_extension`, `dispatch`, `add_session_key`, `delete_session_key` | only an armed extension, in a transaction the root signed, acts as the root; the hop keeps no deposit |
| **types** | none | `evaluate_pre_gate`, `materialize_args` | bounds and substitution are what they say |
| **Adapters** (compat, demo) | none; they hold NEAR and wrapped tokens | `adapt_*` and their callbacks | a success is work done; nobody's deposit is lost; every call is answered within its budget |
| **Test targets** (echo, router, wild-router, pathological-router) | `last_finished`, `calls_completed` | the methods steps call | what an answer says of the work behind it |
| **Simple sequencer, recorder** | `registered_steps`, `sequence_queue`; `entries` | `register_step`, `execute_steps`, `run_sequence`, `on_step_resumed`, `on_step_resolved`; `record` | the order it promises |
| **Observer** | none; off-chain | the `trace` command | the pairing of data and callbacks, the outcome it reports |
| scripts, examples, web | off-chain | send transactions, draw | |

The components meet in four ways: calls within one contract call (Automation
calls the sequencer's registration and release; the sequencer's halt paths call
`finish_automation_run`), the runtime's receipts (every callback), shared state
indexed by a namespace string (`manual:<caller>`, `auto:<trigger>:<nonce>`), and
the account's balance, which all runs draw on.

What is hard here:

- *Order.* Between two callbacks of one run anything else may run: another
  run's callback, an owner call, a timeout. A callback looks its step up by
  namespace and id, not by yield.
- *Failure.* A target fails, a gate or postcheck disagrees, a saved name does
  not fit, a yield times out while an earlier step is in flight, a callback
  panics and its cleanup is rolled back with it.
- *Two ledgers.* A grant is contract state, its access key is runtime state, and
  the receipts between them may be refused or overtaken.
- *Time.* Expiry at the boundary instant; a timeout that races a resume.
- *Budgets.* Gas and deposits are fixed when a step is registered and spent
  several callbacks later.

## The models

| Module | What it is |
|---|---|
| `Sequencer` | the release engine of the smart account |
| `SessionKeys` | session grants, access keys, the receipts between them |
| `Automation` | EXTENDS `Sequencer`, INSTANCEs `SessionKeys`: the composed account |
| `ProxyKeys` | EXTENDS `SessionKeys` with proxy grants and `migrate` |
| `Authorizer` | the allowlist and the `dispatch` hop with its deposits |
| `GasBudget` | the static gas of one step |
| `StepValues` | gate comparison and argument substitution |
| `Targets` | the test contracts as environments of a step |
| `Adapters` | EXTENDS `Targets`: both adapters' callback chains |
| `OrderedRun` | abstract: what a sequencer promises the caller of a run; `Automation` and `SimpleSequencer` implement it |
| `SimpleSequencer` | the teaching version, INSTANCEs `OrderedRun` as its promise |
| `ObserverTrace` | the observer's reading of a transaction |
| `MC*` | the plans, values and offers of the runs |
| `*Proofs` | theorems about `Sequencer`, `Automation`, `ProxyKeys`, `SimpleSequencer`, `Adapters`; `AutomationRunProofs` follows whole automation runs; `StepChecksProofs` is about `GasBudget`, `StepValues`, `Authorizer` and `ObserverTrace` |
| `SumLemmas` | what a finite sum does when a summand comes, goes or changes |

Every contract call that does not fail runs atomically, so each entry point and
each callback is one action, the halt path it ends in included. An entry point
that would panic is not enabled. A callback that panics uses up its receipt and
changes nothing else.

### Sequencer

| Code | Model |
|---|---|
| `registered_steps["<ns>#<id>"]` | `registered_steps[<<ns, id>>]`, with the yield and the call |
| `sequence_queue[ns]` | `sequence_queue[ns]`; an entry is never empty, so `<<>>` is "no entry" |
| `sequence_contexts[ns].saved_results[name]` | `sequence_contexts[ns][name]`: the yield whose result was saved |
| the yield and the promises it leads to | `receipts[y]`: one record per yield ever created, with the *phase* its chain has reached |
| `env::account_balance()` | `balance`, drawn by a dispatch, credited by `Credit` |

A chain goes from `waiting` (yielded) to `resumed`, perhaps `gate`, then
`target` (Direct, Adapter) or `asserted_target` and `check` (Asserted), then
`resolve_ok` or `resolve_err`, and ends in `ok`, `err`, `halted`, `dropped` (its
registration was gone) or `aborted` (the callback panicked). `Deliver(y)` is
whatever the runtime may do next with the chain of `y`, a timeout of a yield that
waits included. A yield can time out although it was resumed in the same block:
`on_step_resumed_err` is enabled in both phases. `ordered` and `releases` are
history: which run a yield belongs to and its place in it.

What stands for what:

- A step has one `save` name and one `uses` name instead of lists of
  substitutions. `halt_on_materialize_failure` is possible whenever a name is
  used, since the saved bytes may not fit the operation; it is the only outcome
  when the name was never saved. `StepValues` looks at the bytes.
- The target, its method and bytes are left out. `TargetReturns` answers or
  fails; an answer above `MAX_CALLBACK_RESULT_BYTES` is a failure to the
  callback. The hop through the authorizer's `dispatch` is part of the target
  call: a refusal is a failure. `Authorizer` looks at the hop itself.
- A gate answers in range, or out of range or not at all
  (`halt_sequence_on_pre_gate_failure`).
- Gas: `GasFits` says that `on_pre_gate_checked` pays for a Direct target only,
  which `GasBudget` derives and `GateDirectOnly` proves. A gated
  `on_step_resumed` needs more than the static gas of its yield for a large
  enough call; whether the registering call left it enough is `GateGas`, either
  way where a run says `{TRUE, FALSE}`.
- Refunds of failed deposits are `Credit`, at any time.

### Automation

Templates are plans, overwritten at will while runs are in flight and deleted
only when no trigger names them. `execute_trigger` is one action with the
session branch, the checks, the registrations, the release and the writes to
trigger and row. `finish_automation_run` acts only on a row that is `InFlight`,
frees the trigger of that name if there is one, and clears the registrations of
the namespace. Left out: executor ids, timestamps and `failed_step_id`, which
views and events report and no decision reads.

### SessionKeys and ProxyKeys

`session_grants` and `proxy_grants` are the contract's maps; `access_keys[h][pk]`
is the method the access key `pk` on account `h` is pinned to (`execute_trigger`
or `proxy_call`), where `h` is the contract's own account (`self`) or the root
account (`root`). A call that enrols or revokes sends a receipt to the account
`authorizer_id` names then, and `KeyReceiptRuns` applies the receipts of an
account in order. Adding a key that exists and deleting one that does not fail
and change nothing; so when one public key is enrolled for both kinds the second
addition fails, and revoking either grant deletes the one key. On the root
account the authorizer refuses a receipt unless the extension is armed and the
root signed the transaction. `proxy_call` goes to its target directly, in
extension mode too. `refused`, `moved`, `uses` and `purse` are history: keys an
addition of which was refused, whether the mode ever changed, what a public key
was enrolled for, and what the enrolments of a proxy key still allow it to take
from the account.

`migrate` is the first thing that can happen to an account whose state has an
older layout: until it runs no other method can read the state. It keeps the
session grants, gives `authorizer_id` its default when the layout (V4) has none
and starts `proxy_grants` empty when the layout has none. Here the model takes
`env::state_read` as the code supposes it to behave, answering `None` for a
layout that does not fit. If it panics instead, as
`md-CLAUDE-chapters/22-state-break-investigation.md:30` reports of a state break
("Cannot deserialize the contract state"), the fallbacks are never reached and
the redeploy stays in the state before `migrate`.

### GasBudget

One call from its submission to its dispatch, in TGas: `validate_step` admits or
refuses it, registering sets aside `resume_callback_gas`, and `on_step_resumed`
and `on_pre_gate_checked` either pay for the promises they create or panic.
`BodyGas` is what a callback burns itself. The call of `on_asserted_run_postcheck`
to its own callback is not followed.

### StepValues

Bytes are one flat sequence of characters, as in the code: quotes, `$`, braces,
white space, signs and letters. A run of digits is one character that holds their
number, a run of white space is one, and so are bytes that are not UTF-8
(`Invalid`), which the number parsers refuse and `from_utf8_lossy` turns into
U+FFFD (`Replacement`), in the template and in a `Raw` result alike.
`evaluate_pre_gate` and `materialize_args` are operators over these, with the
widths `MaxU128` and `MaxI128` as parameters, and the walk evaluates them over
requests. A placeholder is searched in the string (`Starts`, `Matches`,
`Replaced`), so it is found wherever its characters stand side by side, whoever
put them there. A request gives its template in pieces, placeholders and what is
between them; `materialize_args` is given the pieces put together, and only
`MaterializeIsSimultaneous` looks at them one by one. `TakeShare` is a run whose
later steps each spend a `PercentU128` share of one saved number.

### Authorizer

`dispatch` with its deposit: refused (the deposit goes back to the caller),
forwarded to the target under the root's name, answered. When the target fails,
the runtime refunds the predecessor, which is the root account: the smart account
that attached the deposit does not get it back. `RootOnlyPassesThrough` says
exactly who holds what.

### Targets and Adapters

A *flow* is one call from a step, at a target or at an adapter. `Targets` has the
methods a step may call by what their answer says of the work: which echo calls
they wait for, which they detach, what they keep. `Adapters` has both adapters'
chains of callbacks: `demo-adapter` polls `wild-router` at most five times, with a gas
budget that shrinks by 25 TGas a poll; `compat-adapter` wraps a deposit and
forwards the tokens. The wrapped-token contract is the environment: each call of
it succeeds or fails.

### SimpleSequencer and OrderedRun

The teaching contract has no gates, policies, saved results or automation, and so
its model can be shown to implement a specification that says nothing of yields.
`OrderedRun` knows runs only: a run begins with an order, calls its targets one
at a time in that order, each after the answer `ok` of the one before. The
histories `order`, `calls` and `answers` of `SimpleSequencer` are its variables,
and `shared` the runs it exempts: the code judges whether a run is under way by
the queue alone (`simple-example/contracts/simple-sequencer/src/lib.rs:361`), so
a run may start while the last step of another is in flight, and then neither
keeps its order, whatever
`simple-example/contracts/simple-sequencer/src/lib.rs:6-8` promises.

### ObserverTrace

A transaction that releases a sequence is run hop by hop, each hop a callback
with the block its data arrived in, and the observer's reading of what the
explorer shows (rows sorted by block, action and data) is evaluated in each
state: `correlate_resumes`, the yield-resume flag, the latency and the outcome
banner. The histories say which data really was whose.

## The runs

| Run | Module | What it checks | Bounds |
|---|---|---|---|
| `manual_runs` | MCSequencer | `CallbackFindsOwnStep`, `OnlyPanicsStrand`, `WaitingHasDriver`, `FirstRunOrdered` | an owner and a changing delegate, 1 caller, 3 step ids, 4 yields, 3 runs, a deposit of 1 on a balance of 1, gated steps that may run out of gas |
| `automation_runs` | MCAutomation | `AutomationTypeOK`, `KeepsPromise` (refinement), `CallbackFindsOwnStep`, `InFlightAgreement`, `TriggerHasTemplate`, `SucceededMeansEveryStepOk`, `FinishedRunLeavesNothing`, `InFlightHasDriver`, `ReadsOwnRun`, `RunEndsOnce` | 1 trigger, 2 templates of 2 and 3 steps, 2 runs, 5 yields |
| `automation_liveness` | MCAutomation | `RunsFinish`, `StepsLeave` | 1 trigger created twice under one id, 2 templates |
| `session_fires` | MCAutomation | `FireCapHolds`, `FireStartsOneRun` | 1 key, caps 1 and 2, times 0 to 2, up to 3 fires |
| `session_keys` | MCSessionKeys | `ProxyTypeOK`, `SettledKeysMatchGrants`, `GrantHasKey`, `TollsWithinGrants` | 1 public key for both kinds, both authorizer modes, 3 state layouts, times 0 to 2, 2 key receipts in flight per account |
| `step_checks` | MCStepChecks | `UngatedNeverPanics`, `YieldFitsCeiling`, `GateSendsOnlyDirect`; `GateMeansRange`, `MaterializeIsSimultaneous`, `SplitsNeverOverspend`; `RootOnlyPassesThrough`; `PairingIsRight`, `BannerTellsEnd` | four walks, below |
| `simple_sequencer` | MCSimpleSequencer | `KeepsPromise` (refinement), `CallbackFindsOwnStep`, `RecordedInOrder`, `QueueDrains` | 1 caller, 3 step ids, 4 yields, 2 runs, dispatches that can and cannot be paid |
| `adapters` | Adapters | `PollSeesFreshEcho`, `BooksBalance`, `StepBudgetSuffices`, `CompletedIsWorkDone`, `AdaptersAnswer` | 2 flows, 2 numbers, deposits 1 and 3, extra gas 69, 94 and 320 |
| `manual_stale_timeout` | MCSequencer | `CompletedMeansAllOk`, violated | 3 yields, 1 run |
| `automation_unfunded` | MCAutomation | `RunsFinish`, violated | 2 triggers, balance 1, deposits of 1 |
| `automation_recreated` | MCAutomation | `CallbackFindsOwnStep`, violated | 1 trigger created twice |
| `session_keys_hop` | MCSessionKeys | `NoKeyWithoutGrant`, violated | 2 keys, extension mode |

The bounds are `MaxYields`, `MaxReleases`, `MaxRuns`, `MaxNonce` (`max_runs`,
`u32::MAX` in the code), `MaxCreations`, `MaxBalance`, `MaxTime`, `MaxFires`,
`MaxCalls`, `MaxToll`, `MaxPurse`, `MaxKeyReceipts`, `MaxDispatches`, `MaxHops`,
`MaxBlock`, `MaxQueued` and `MaxDelay`; each is a conjunct of the action it bounds.
They are enough for what each run asks:

- Overlap of two runs in a namespace needs one run with its last step in flight
  and another that starts: three yields; four let the second run reuse an id of
  the first, and the third run of `manual_runs` follows a run that failed. Two
  automation runs of three and two steps let the late callbacks of a failed run
  meet the next one.
- Operations on grants relate two keys only where both are pruned, so one public
  key is enough for `session_keys`; what matters is that it may hold both kinds of
  grant, be enrolled again, and have an addition and a deletion on their way.
- `adapters`: two flows are what it takes for one caller to reset or answer the
  other's poll. The gas values are one short of the first assertion (69), short of
  the second step (94) and what a step gives (320).

`step_checks` joins four walks that share no state; each behaviour takes one.
`GasBudget` takes each cap, one below and one above. `StepValues` takes every shape
of answer (quotes, white space, sign, letters or bytes that are not UTF-8) with
numbers at `MaxI128`, one above and one above `MaxU128` (the widths are 20000 and
40000, wide enough for basis points to overflow), byte strings up to two bytes,
templates of up to three pieces with up to two substitutions, and shares of small
numbers where rounding shows. Among the templates and saved results are those that
the hypotheses of `MaterializeIsSimultaneous` exclude: without any one of the
hypotheses on the template, on the saved results and on repeated names, TLC finds it
violated, as it does with the bytes in place of the decoded ones.
`Authorizer` has two dispatches of two parties. `ObserverTrace` has transactions of
four hops in seven blocks, with up to three registered steps.

Deadlock is not checked: with its yields used up a system that nobody calls does
stop, and so does a walk.

Two runs restrict their inputs so that the property is about something else than
a fault another run shows. `automation_runs` and `automation_liveness` use steps
whose callbacks cannot panic (no deposit, no gated Adapter or Asserted step);
`automation_unfunded` and `manual_runs` have those. `automation_runs` creates a
trigger id once; `automation_liveness` and `automation_recreated` create it twice.

`KeepsPromise` of `Automation` is about every automation run: it exempts those whose
`trigger_id` has been created twice. `FirstRunOrdered` is about the first run that
callers order by hand. A later manual run may share its namespace's queue
with the one before (see below), and then the order of one depends on the other.
`OrderedRun` makes the same exception with `shared`.

**Types.** `TypeOK` of `Sequencer` is a conjunct of `AutomationTypeOK` and proved;
that of `SimpleSequencer` is proved. `AuthorizerTypeOK`, `TraceTypeOK`,
`TargetsTypeOK` and `TypeOK` of `Adapters` record the types of variables; TLC found
them to hold over the same instances, and they are not among the runs' properties.

**Fairness.** `automation_liveness`, `automation_unfunded` and `simple_sequencer`
assume weak fairness of `Deliver(y)` for each yield, `adapters` of `Runs(f)` and
`AdapterRuns(f)` for each flow: the runtime executes every receipt it holds and
times out each yield nobody resumes. That is a guarantee of the runtime and the
code relies on it for every failed run. No entry point is fair: no one has to call
the contract, and a target may answer either way.

### What the violations show

- **`manual_stale_timeout`.** When a queued step times out while an earlier one
  is in flight, the timeout removes the queue; the earlier step then resolves
  and, with nothing queued, `sequence_completed` is emitted for a run that did
  not complete. `TELEMETRY-DESIGN.md:176` and `SEQUENTIAL-INTENTS-DESIGN.md:271`
  read the event as success. Run rows are not affected
  (`SucceededMeansEveryStepOk`).
- **`automation_unfunded`.** The balance is compared with a template's deposits
  when a run starts, and drawn by callbacks later. A callback that cannot pay
  panics, and neither halts the run nor removes the step. If no other yield of
  the run is left to time out, the trigger stays in flight: it cannot fire, be
  deleted or have its row pruned.
- **`automation_recreated`.** Pruning a row, deleting its trigger and creating
  the id again starts the nonces from 1, so the namespace of an old run, of
  which a callback is still on its way, is given to a new one. The comment at
  1869 calls the namespace unique.
- **`session_keys_hop`.** In extension mode the grant goes at once and the key
  only if the authorizer accepts. `md-CLAUDE-chapters/25-session-keys.md:67`
  says that both go together. Standalone they do, up to the receipts in flight
  (`SettledKeysMatchGrants`).

Four properties hold and say something else than the documents:

- **Gated steps.** `GateSendsOnlyDirect`: `README.md:59` has gate and policy legal
  in any combination, and with a gate an Adapter or Asserted step panics in
  `on_pre_gate_checked` for lack of gas.
- **The work counter.** `CompletedIsWorkDone` has to count the successes of two
  methods: `require_one_yocto` increments `calls_completed` too, of which
  `contracts/pathological-router/src/lib.rs:31` says "Incremented ONLY by
  `do_honest_work`".
- **The banner.** `BannerTellsEnd` has to leave the banner blank for a run whose
  target failed: the contract emits `step_resolved_err` for it and
  `build_outcome_banner` looks for two other events, while
  `SEQUENTIAL-INTENTS-DESIGN.md:271-272` names `step_resolved_err` as an end.
- **Value threading.** `MaterializeIsSimultaneous` has to say two things that the
  documents do not.
  *Bytes are decoded.* Template and `Raw` result go through `from_utf8_lossy`
  (`types/src/types.rs:389` and 415), so bytes that are not UTF-8 come out as
  U+FFFD, in the value spliced in and in the rest of the template.
  `types/src/types.rs:295` has `Raw` splice "verbatim (whatever shape they are)", so
  do 266-267 and `md-CLAUDE-chapters/24-value-threading.md:76`, and the comment at
  385-388 says of borsh around a placeholder "we'll still replace correctly".
  *Placeholders are searched in the output so far*, one string (397), where 321-322
  speaks of the template. With the template `"${"${a}"}"`, a result `b` saved
  under `a` and another under `b`, the substitutions `[a, b]` succeed, since putting
  in `b` completes the placeholder of `b`, and `[b, a]` fail with
  `PlaceholderNotFound`; a saved result that contains a whole placeholder does the
  same. The order cannot show when every `$` belongs to a whole placeholder of the
  template (none comes with a saved result, none with the text between
  placeholders), names hold no quote and none is substituted twice. That is what the
  property supposes.

Met while modelling, with no run of their own:

- A second run can start in a manual namespace while the last step of the first
  is in flight, because the guard at 2422 looks at the queue alone; the runs then
  share the queue and the saved results. `CallbackFindsOwnStep`,
  `OnlyPanicsStrand` and `WaitingHasDriver` hold nevertheless.
- The target of a failed automation run may still be running when the trigger
  fires again, so "prevents concurrent runs" (`TELEMETRY-DESIGN.md:96`) is about
  rows, not about calls.
- The comment at 63 says that the caps keep the whole tree under 1 PGas; a gate of
  100 with the largest Direct target asks for more (940 + 100 + 45).
- `revoke_expired_sessions` prunes at the instant `expires_at_ms` at which
  `execute_trigger` still accepts the key; `SessionGrantView` documents a grant as
  active while `now <= expires_at_ms`, and the view counts it expired at `>`.
- A public key enrolled for both kinds of grant has one access key. It can call the
  method it was enrolled for first, the other grant has no key behind it, and
  revoking either takes the key from both (`SettledKeysMatchGrants` and
  `GrantHasKey` except such keys through `uses`).
- `md-CLAUDE-chapters/24-value-threading.md:171` lists `bps == 0` under `InvalidBps`;
  `PercentU128` accepts it and emits `"0"`, as does the model. `InvalidBps` is also
  what `DivU128` answers to a denominator of 0.
- `parse_u128_json` documents a decimal in optional quotes; a leading `+` and
  white space inside the quotes are accepted too.
- When `compat-adapter` fails after the deposit arrived, the NEAR or the wrapped
  tokens stay with the adapter (`BooksBalance` counts them there). A direct caller
  who leaves it between 70 and 94 TGas of extra gas meets this without any failure of
  the token contract: the assertion before the transfer panics.
- `demo-adapter` may be satisfied by another caller's echo of the same number
  (`PollSeesFreshEcho` says "of some flow"); its entry method takes no deposit.
- In the simple sequencer a callback that cannot pay leaves its step registered, and
  the queue behind it stuck if that step was to drive it (`QueueDrains` excepts it).
- The observer's banner reads `step_id` of `sequence_halted`, where the contract
  emits `failed_step_id`, and the simple rendering reads `reason` where the
  contract emits `error_kind`: both print a placeholder. Its pairing of data with callbacks is exact
  only while no other data overtakes a callback (`Undisturbed`), which the
  explorer's answer does not tell.

## The proofs

All theorems are for every value of the constants that the named ASSUMEs of the
modules allow; TLC evaluates those on each run.

- **`TypeCorrect`, `AutomationTypeCorrect`, `SimpleTypeCorrect`.** Types are
  inductive as they stand. One lemma per operator (`RegisterType`,
  `StartReleaseType`, `FinishType`, `HaltType`, `DeliverType`), then one step per
  action.
- **`CallbackSafe`** (manual runs). `CallbackFindsOwnStep` is not inductive: from
  a state where a live chain has lost its registration, a new step may take the
  key. `ChainInv` adds that every live chain *has* its registration
  (`LiveRegistered`) and that all chains are manual. It holds because a
  registration is removed only by the callback that ends its own chain.
  For automation runs this is false (`automation_recreated`):
  `finish_automation_run` clears registrations under live chains.
- **`PanicsStrandSafe`** (manual runs). `StrandInv` adds to `OnlyPanicsStrand`
  that receipts exist only for yields already created, so that a new
  registration gets a fresh yield, and that the registration of a chain at its
  gate is gated, so that the defensive branch of `on_pre_gate_checked` never
  leaves it behind.
- **`DriverSafe`** (manual runs). `WaitingHasDriver` is inductive together with
  `ChainInv` and `StrandInv`: the release that fills a queue resumes its head, the
  resolution that pops one resumes the next, and every other end of a released
  chain whose registration is found drops the queue and the saved results.
- **`FirstRunSafe`** (manual runs). `FirstRunInv` says that before the first run
  nothing is released or placed, and during it some order `o` and place `k` are as
  the run is: chains placed before `k` resolved ok, the one at `k` is the only
  chain released (`OneDriver`), those behind it have not begun, and the queue, if it
  is still there, is the rest of `o` (`QueueAfter`). With the queue gone a second run
  may start beside the first; nothing is said from that release on.
- **`AgreementSafe`, `OutcomeFinal`, `FinishedSafe`, `TemplateSafe`,
  `FireCapSafe`, `FireIsOneRun`** (the whole smart account, sessions included).
  The invariants are inductive with the types; `FinishedSafe` rests on what
  `finish_automation_run`, the release and a saved result leave in a namespace,
  `FireIsOneRun` on a count moving in `execute_trigger` alone (`GrantOutcomes`) and
  its run being given a namespace without a row.
- **`AccountStrandSafe`** is `OnlyPanicsStrand` for manual and automation runs
  together. The rest of `AutomationRunProofs`,
  `SuccessTrue`, `DriverInFlight`, `AutomationOrdered`, `ReadsOwnResults` and
  `AccountCallbackSafe`, holds while no `trigger_id` has been created twice
  (`NoReuse`), because a second life of an id hands out the namespaces of the first;
  then `CallbackFindsOwnStep` is false (`automation_recreated`), and the other four
  are neither claimed nor checked. `AccountInv` is the types, `StrandInv`,
  `FinishedRunLeavesNothing`, `NonceInv` (a namespace whose nonce is not used yet has
  no chain) and, for each namespace, `RunInv`: one chain per id; a chain starts only
  after all before it resolved ok (`OrderedChains`); a run in flight is at one chain,
  which is released or has panicked, holds its registration, and is followed by those
  that wait in the order of the queue (`InFlightShape`); a row that says `Succeeded`
  has only chains that resolved ok. Every callback is first shown to do one of five
  things (`Moves`, `Drops`, `Halts`, `Releases`, `Completes`), and the cases of the
  invariant are about these instead of the branches of the code.
  `DriverInFlight` needs that no callback has panicked (`NoPanic`): one that does
  leaves a run in flight with nobody to move it (`automation_unfunded`).
  `AutomationOrdered` (a step is sent only after the one before resolved ok) adds the
  places of the chains (`PlaceInv`),
  `ReadsOwnResults` that a saved result is of its own namespace (`SavedInv`),
  `AccountCallbackSafe` that the manual namespaces are as in `ChainInv`
  (`ManualLive`).
- **`AutomationPromiseKept`** is the refinement of `OrderedRun` by the whole smart
  account. The order of a run is the chains of its namespace by their place (`OrderOf`),
  its calls are those that were sent, its answers those that resolved ok. `execute_trigger` begins a run, the
  callback that sends a step calls, an `on_step_resolved` with success answers, the
  second creation of an id exempts, everything else stutters. The proof is about the
  chains of one namespace at a time: with `RunInv` and `PlaceInv` they stand at the
  places 1 to n (`Block`), those answered are an initial segment, those called at most
  one longer, and what a step does to them is that the run
  stays, begins, calls or answers (`StaysAt`, `BeginsAt`, `CallsAt`, `AnswersAt`).
- **`HopPassesThrough`.** `RootOnlyPassesThrough` is inductive with the types. The work
  is in the sums: a call that moves from one place to another joins one sum of deposits
  and leaves another.
- **`UngatedSafe`, `CeilingHolds`, `GateDirectOnly`.** `GasInv` ties the gas left
  in a stage to the call that was admitted; the rest is linear arithmetic.
- **`SplitsSafe`.** `SplitsNeverOverspend` speaks of the number saved; that what
  was spent is at most `n` needs the finer `SharesInv`, 10000 * spent <= n * used,
  which survives the rounding of each share. The division is the one fact about
  `\div` the proof uses.
- **`GateSafe`.** `GateMeansRange` is `evaluate_pre_gate`'s doc comment; the proof
  follows the code's reads and comparisons for each kind of comparison. Of the
  requests it assumes that they are well formed (`RequestsAssumption`).
- **`MaterializeSafe`.** `materialize_args` replaces in the output so far, round by
  round; the property says that the rounds do not show. The invariant over the rounds
  is `Reached`: after k of them the output is the decoded template with the first k
  placeholders expanded (`Expanded`), or an error if one of the k could not be done.
  The work is in the flat string. A placeholder of a name without quotes is a *word*
  (`IsWord`): quotes at both ends only, a `$` behind the first. The output is always put
  together of words and of blocks without a `$`, for an earlier round has put in none
  (`ResultIsBare`). In such a string a `$` behind a quote always opens a whole word
  (`Tidy`), also where two blocks meet, and two words that stand at one place are
  the same (`TwoWords`). So a word is found exactly where a block is that word, its
  matches do not overlap, and replacing works block by block (`ReplacedBlocks`).
  Decoding goes piece by piece too (`LossyFlatten`). The recursions of `FlattenSeq`
  and `FoldLeft` are first shown to have solutions (`FlattenFacts`,
  `MaterializeRounds`). `CharsAssumption` keeps the characters apart and the names
  in UTF-8, as Rust's `String` does.
- **`PairingSafe`.** `correlate_resumes` is greedy: a callback takes the best data row
  that is left, and nothing is given back. By `ClaimsTo` every callback so far has taken
  data of its account, block and kind. Then some is left for the next one
  (`SomeIsLeft`): if all that would do were taken, then by callbacks for which other
  such data came, fewer than there are data, which the pigeonhole principle excludes.
  And nothing scores better (`ClaimServes`): data of a higher block that the callback
  could see has overtaken it, which `Undisturbed` excludes. The rest is about sorting:
  the rows are a permutation of all callbacks and data, those of lower blocks first
  (`SortedPermutes`).
- **`BannerSafe`.** `TraceInv` says that until a yield times out only the callback that
  ends the sequence emits an event the banner looks for (`DriverTells`). What the order
  of the events is does not matter then, only that sorting loses none.
- **`TollsBounded`.** An enrolment adds `toll * max_call` to the purse and each
  call takes `toll`; `Purses` says that a key's purse holds at least the calls that
  are left of its grant, across re-enrolment, revocation, pruning and `migrate`.
- **`KeysTyped`, `SettledSafe`, `GrantsBacked`.** Keys and grants agree only when
  every key receipt has run, so the invariant `Backed` speaks of the keys that will be
  there: a key `Survives` if it is on the account or a queued receipt adds it, and no
  deletion is queued behind. A key that survives on an account that never left
  standalone mode is granted (`KeysAreGranted`), a grant whose key has one use and was
  not refused has a key that survives (`GrantsAreKept`). `KeyUses` and `AtHome` say
  which receipts there can be. `KeysAssumption` asks for finitely many public keys
  and keeps `None` apart from grants and methods.
- **`SimpleCallbackSafe`, `SimplePromiseKept`.** The second is the refinement:
  every behaviour of `SimpleSequencer` is one of `OrderedRun` with the histories as
  the mapping. The invariant `Inv` is the types, `Sound` (every registration has
  its chain and every live chain its own registration) and `RunsInv`: a
  released step belongs to the current run of its caller unless both runs are
  shared (`ReleasedByRun`); of a run that is not shared at most one step is released
  at a time (`OneReleased`), that step and the queue are what follows the answered
  part of the order, and the calls are one ahead of the answers exactly from its
  dispatch to its resolution (`Progressing`). Then every action maps to a Begin, Call or Answer
  of one run, to its exemption, or to a stutter. That no callback ever meets a
  missing registration follows, so `on_step_resumed`'s early return for one is
  never taken.
- **`RecordedSafe`.** `RecordedInOrder` lets one entry be ahead of the answers.
  `EntriesRight` says when there is one: exactly while an `on_step_resolved` with
  success is on its way for the run. With `RunsInv` the next entry is then the next
  step of the order.
- **`StepBudgetSafe`, `FreshEchoSafe`, `WorkCounted`** (the adapters). `Funded` is the
  budget a flow must have left for the polls it may still make, or for the
  transfer. `FreshInv` says that what the router holds was reported after the last
  start, so a poll that answers the number asked for is about an echo that reported
  after the flow's own start. `WorkInv` is `CompletedIsWorkDone` at every moment
  instead of at rest: the call that counts succeeds in the same step.
- **`BooksSafe`, `AdaptersTypeCorrect`.** `BooksBalance` speaks of the end; `BooksInv`
  says at every moment what each adaptation has contributed to the adapter's NEAR
  (`NearOf`), to its wrapped tokens (`WrappedOf`) and to the callers' (`ReceivedOf`),
  and that each balance is the sum of these. That the two currencies are natural
  numbers, which is what the types of `Adapters` say of them, follows from it.

What a sum over a finite set does when an element is added, taken out or changed is
proved once, in `SumLemmas`. `SumFunctionOnSet` of the community modules is defined by
recursion over the subsets; instead of an induction, whose theorems take an operator
as a parameter, its lemmas take a counterexample of the least number (`LeastNumber`,
from the well-foundedness of `<` on Nat), and so do those about sequences
(`CountingUp`).

Only model-checked:

- `RunsFinish`, `StepsLeave`, `QueueDrains` and `AdaptersAnswer`: liveness under
  fairness.

## Not modelled

- **Events and views** change nothing. Two properties read events:
  `CompletedMeansAllOk` and `BannerTellsEnd`.
- **Scripts, examples, web** are clients.
- **The order of events.** `ObserverTrace` takes the explorer to list the receipts of a
  transaction block by block; `parse_trace` keeps whatever order it is given. Its
  `run_finished` stands for automation runs; manual ones emit none, and the banner
  does not look for it.
- **Who signs** in the teaching contract: the recorder stores the signer of the
  transaction, the model the caller of the run; no property reads the difference.
- **The observer's** fetching, JSON, summaries and renderers: the `trace` command's
  reading is modelled, its printing is not.
- **The authorizer's `migrate`** reads one layout into itself. **Runs in flight
  across a redeploy**: the older code is not in the repository.
- **Amounts** that no decision compares: labels, the allowance of an access key,
  `max_gas_tgas`, the recorder's values and times; `wild-router`'s `last_started`
  and `last_burst`; methods of echo that only log.
- **Gas per map entry**, as in the scan of `clear_registered_namespace` (3149), and
  the **collisions** that the string formats of keys allow (3150): hazards without
  a property. The first needs a cost model of storage, the second keys as strings,
  which the pairs of the model rule out.

## Where it could go on

Key formats as strings, and what they let collide; gas per map entry.
