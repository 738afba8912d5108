----------------------------- MODULE GasBudget -----------------------------
(***************************************************************************)
(* The gas budgets of contracts/smart-account, in TGas: what validate_step *)
(* admits, what the yielded callback of an admitted step is given, and     *)
(* what each callback of its chain must give away to the promises it       *)
(* creates.  Creating a promise takes its gas from the callback that       *)
(* creates it; a callback that cannot pay panics.                          *)
(***************************************************************************)
EXTENDS Integers

CONSTANTS
  GasValues,       \* values of gas_tgas
  AssertionValues, \* values of assertion_gas_tgas
  GateValues,      \* values of gate_gas_tgas; 0: no pre_gate
  Leftovers,       \* unspent gas of the registering call that its yield receives
  BodyGas          \* what a callback burns itself before it creates promises

ASSUME GasAssumption ==
  /\ GasValues \subseteq Nat /\ AssertionValues \subseteq Nat
  /\ GateValues \subseteq Nat /\ Leftovers \subseteq Nat

\* The bodies parse a few arguments and read a few map entries.
ASSUME BodyAssumption == BodyGas \in 0..10

STEP_RESOLVE_CALLBACK_GAS == 20
STEP_RESUME_OVERHEAD == 20
MAX_CONTRACT_GAS == 1000
STEP_GAS_SLACK == 20
MAX_STEP_GAS == MAX_CONTRACT_GAS - STEP_RESOLVE_CALLBACK_GAS
                  - STEP_RESUME_OVERHEAD - STEP_GAS_SLACK
ADAPTER_SEQUENCE_OVERHEAD == 320
ASSERTED_POSTCHECK_RUN_GAS == 15
ASSERTED_POSTCHECK_EVALUATE_GAS == 10
PRE_GATE_CHECK_CALLBACK_GAS == 25
MAX_PRE_GATE_GAS == 100
AUTHORIZER_HOP_OVERHEAD == 10

Policies == {"direct", "adapter", "asserted"}

\* A call as far as its gas goes; hop: the contract is in extension mode.
Call == [gas: GasValues, policy: Policies, assertion: AssertionValues,
         gate: GateValues, hop: BOOLEAN]

adapter_overhead(call) ==
  CASE call.policy = "direct" -> 0
    [] call.policy = "adapter" -> ADAPTER_SEQUENCE_OVERHEAD
    [] call.policy = "asserted" ->
         ASSERTED_POSTCHECK_RUN_GAS + ASSERTED_POSTCHECK_EVALUATE_GAS + call.assertion

\* Mutants: an operator named Bad_... is another one as a plausible bug would have
\* it.  No action uses them; each property is refuted when one takes its place.
Bad_max_target_gas_flat(call) == MAX_STEP_GAS

\* The subtraction of the asserted case saturates at zero.
max_target_gas(call) ==
  IF adapter_overhead(call) <= MAX_STEP_GAS THEN MAX_STEP_GAS - adapter_overhead(call)
  ELSE 0

validate_step(call) ==
  /\ call.gas > 0
  /\ call.policy = "asserted" =>
       call.assertion > 0 /\ call.assertion <= MAX_STEP_GAS
  /\ call.gas <= max_target_gas(call)
  /\ call.gate <= MAX_PRE_GATE_GAS

Bad_resume_gas_without_overhead(call) ==
  call.gas + STEP_RESOLVE_CALLBACK_GAS + STEP_RESUME_OVERHEAD

\* The static gas that register_step_in_namespace gives on_step_resumed.
resume_callback_gas(call) ==
  call.gas + adapter_overhead(call) + STEP_RESOLVE_CALLBACK_GAS + STEP_RESUME_OVERHEAD

Bad_gate_gas_without_resolve(call) == PRE_GATE_CHECK_CALLBACK_GAS + call.gas

\* The static gas that on_step_resumed gives on_pre_gate_checked.
gate_callback_gas(call) ==
  PRE_GATE_CHECK_CALLBACK_GAS + call.gas + STEP_RESOLVE_CALLBACK_GAS

\* What dispatching takes from a callback: the target or adapter call, the
\* authorizer hop around it, the postcheck, and on_step_resolved.
dispatch_gas(call) ==
  call.gas + adapter_overhead(call) + STEP_RESOLVE_CALLBACK_GAS
    + (IF call.hop THEN AUTHORIZER_HOP_OVERHEAD ELSE 0)

gate_dispatch_gas(call) == call.gate + gate_callback_gas(call)

----------------------------------------------------------------------------
(* One step from its registration to its dispatch.                         *)

VARIABLES
  call,     \* the submitted call
  stage,    \* "submitted", "refused", "yielded", "gated", "sent" or "panicked"
  left      \* gas of the callback that runs next

gasVars == <<call, stage, left>>

TypeOK ==
  /\ call \in Call
  /\ stage \in {"submitted", "refused", "yielded", "gated", "sent", "panicked"}
  /\ left \in Nat

Init == call \in Call /\ stage = "submitted" /\ left = 0

\* register_step_in_namespace behind validate_step: the yield gets its static
\* gas and, by its gas weight, a share of what the registering call leaves.
register_step(leftover) ==
  /\ stage = "submitted"
  /\ stage' = IF validate_step(call) THEN "yielded" ELSE "refused"
  /\ left' = IF validate_step(call) THEN resume_callback_gas(call) + leftover ELSE 0
  /\ UNCHANGED call

\* Pay for promises, or panic.
Pays(gas, next, given) ==
  IF left >= BodyGas + gas
  THEN stage' = next /\ left' = given
  ELSE stage' = "panicked" /\ left' = 0

on_step_resumed ==
  /\ stage = "yielded"
  /\ IF call.gate > 0
     THEN Pays(gate_dispatch_gas(call), "gated", gate_callback_gas(call))
     ELSE Pays(dispatch_gas(call), "sent", STEP_RESOLVE_CALLBACK_GAS)
  /\ UNCHANGED call

\* With the gate's answer in range.
on_pre_gate_checked ==
  /\ stage = "gated"
  /\ Pays(dispatch_gas(call), "sent", STEP_RESOLVE_CALLBACK_GAS)
  /\ UNCHANGED call

Next == (\E leftover \in Leftovers : register_step(leftover))
        \/ on_step_resumed \/ on_pre_gate_checked

Spec == Init /\ [][Next]_gasVars

----------------------------------------------------------------------------
(* Properties.                                                             *)

\* The static budget of a step without a gate pays for every promise its
\* callback creates, for every policy, with or without the authorizer hop and
\* whatever gas the registering call had left.
UngatedNeverPanics == stage = "panicked" => call.gate > 0

\* What is set aside for the callback of an admitted step leaves the registering
\* call its slack within the ceiling of one contract call.
YieldFitsCeiling ==
  stage = "yielded" =>
    resume_callback_gas(call) + STEP_GAS_SLACK <= MAX_CONTRACT_GAS

\* An in-range answer leads to the target call exactly when the step is Direct:
\* on_pre_gate_checked is given gas for a bare target, with or without the hop,
\* and for neither the adapter overhead nor the postcheck.
GateSendsOnlyDirect ==
  [][on_pre_gate_checked => (stage' = "sent" <=> call.policy = "direct")]_gasVars
=============================================================================
