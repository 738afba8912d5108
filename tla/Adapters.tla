------------------------------ MODULE Adapters -----------------------------
(***************************************************************************)
(* The adapter contracts an Adapter step may call, over the contracts they *)
(* speak to.  demo-adapter turns wild-router's fire-and-forget call into an*)
(* answer by polling; compat-adapter wraps the attached deposit and        *)
(* forwards the tokens to the caller.  Both are chains of callbacks that   *)
(* carry their gas budget along, and both may serve several callers at the *)
(* same time.                                                              *)
(***************************************************************************)
EXTENDS Targets, Functions

CONSTANTS
  Attached, \* deposits attached to adapter calls
  ExtraGas  \* prepaid gas of an adapter call beyond the target's gas_tgas

ASSUME AdapterInputs == Attached \subseteq Nat /\ ExtraGas \subseteq Nat

MIN_CALLBACK_BUDGET == 40
ADAPTER_START_OVERHEAD == 30
POLL_STEP_OVERHEAD == 25
Bad_MAX_POLL_ATTEMPTS == 10
MAX_POLL_ATTEMPTS == 4
WRAP_TRANSFER_STEP_OVERHEAD == 25
FT_TRANSFER_DEPOSIT == 1

\* What dispatch_promise_for_call gives an adapter beyond the target's gas.
ADAPTER_SEQUENCE_OVERHEAD == 320

\* u64::saturating_sub.
Minus(m, n) == IF m >= n THEN m - n ELSE 0

\* stage: "start", "poll", "deposit", "transfer": the outer call of that name
\* is under way; "started", "polled", "deposited", "transferred": the callback
\* that takes its outcome is; "ok", "err": the adapter's answer; "refused": the
\* first call panicked, and the deposit went back.
\* seen: the outcome the callback takes; value: what a poll answered, None when it
\* failed.  why: the assertion or error that made a chain panic.
Adaptation ==
  [adapter: {"demo", "compat"}, n: Nat, attached: Nat, extra: Nat, budget: Nat,
   attempts: 0..MAX_POLL_ATTEMPTS,
   stage: {"start", "started", "poll", "polled", "deposit", "deposited", "transfer",
           "transferred", "ok", "err", "refused"},
   seen: {None, "ok", "err"}, value: Nat \union {None}, why: {None, "budget", "outcome"}]

ASSUME AdapterNone == None \notin Adaptation /\ None \notin {"budget", "outcome"}

VARIABLES
  adaptations, \* Flows -> Adaptation, or None
  near,        \* yoctoNEAR of callers that compat-adapter holds
  wrapped      \* wrapped tokens: those of compat-adapter, those forwarded

adapterVars == <<adaptations, near, wrapped>>
allVars == <<targetVars, adapterVars>>

TypeOK ==
  /\ TargetsTypeOK
  /\ adaptations \in [Flows -> Adaptation \union {None}]
  /\ near \in Nat
  /\ wrapped \in [{"adapter", "caller"} -> Nat]

Init ==
  /\ TargetsInit
  /\ adaptations = [f \in Flows |-> None]
  /\ near = 0
  /\ wrapped = [who \in {"adapter", "caller"} |-> 0]

Unused(f) == calls[f] = None /\ adaptations[f] = None

At(f, adapter, stage) ==
  /\ adaptations[f] # None
  /\ adaptations[f].adapter = adapter /\ adaptations[f].stage = stage

Moves(f, stage) == adaptations' = [adaptations EXCEPT ![f].stage = stage]
Panics(f, why) == adaptations' = [adaptations EXCEPT ![f].stage = "err", ![f].why = why]
Sees(f, stage, seen) == adaptations' = [adaptations EXCEPT ![f].stage = stage, ![f].seen = seen]

StartBudget(extra) == Minus(extra, ADAPTER_START_OVERHEAD)

Accepted(adapter, n, attached, extra, stage) ==
  [adapter |-> adapter, n |-> n, attached |-> attached, extra |-> extra,
   budget |-> StartBudget(extra), attempts |-> MAX_POLL_ATTEMPTS, stage |-> stage,
   seen |-> None, value |-> None, why |-> None]

----------------------------------------------------------------------------
(* demo-adapter.                                                           *)

adapt_fire_and_forget_route_echo(f, n, extra) ==
  /\ Unused(f)
  /\ IF StartBudget(extra) >= MIN_CALLBACK_BUDGET
     THEN /\ adaptations' = [adaptations EXCEPT ![f] = Accepted("demo", n, 0, extra, "start")]
          /\ calls' = [calls EXCEPT ![f] = Called("route_echo_fire_and_forget", n)]
     ELSE /\ adaptations' = [adaptations EXCEPT ![f] = Accepted("demo", n, 0, extra, "refused")]
          /\ UNCHANGED calls
  /\ UNCHANGED <<detached, last_finished, calls_completed, finished_after, near, wrapped>>

\* The start call has answered, or never reached a wild-router.
StartReturns(f) ==
  /\ At(f, "demo", "start")
  /\ \/ Answered(f) /\ Sees(f, "started", calls[f].state) /\ UNCHANGED calls
     \/ calls[f].state = "called" /\ Sees(f, "started", "err")
        /\ calls' = [calls EXCEPT ![f].state = "err"]
  /\ UNCHANGED <<detached, last_finished, calls_completed, finished_after, near, wrapped>>

\* The adaptation after schedule_finished_poll: a poll, or the panic of its
\* assertion.
schedule_finished_poll(f, attempts_left) ==
  LET budget == Minus(adaptations[f].budget, POLL_STEP_OVERHEAD) IN
  IF budget >= MIN_CALLBACK_BUDGET
  THEN adaptations' = [adaptations EXCEPT ![f].stage = "poll", ![f].budget = budget,
                                          ![f].attempts = attempts_left]
  ELSE Panics(f, "budget")

on_route_echo_started(f) ==
  /\ At(f, "demo", "started")
  /\ IF adaptations[f].seen = "ok"
     THEN schedule_finished_poll(f, adaptations[f].attempts)
     ELSE Panics(f, "outcome")
  /\ UNCHANGED <<targetVars, near, wrapped>>

\* get_last_finished answers, or fails.  A failure and an answer without the
\* expected value are the same to the callback.
PollReturns(f) ==
  /\ At(f, "demo", "poll")
  /\ \E value \in {last_finished, None} :
       adaptations' = [adaptations EXCEPT ![f].stage = "polled", ![f].value = value]
  /\ UNCHANGED <<targetVars, near, wrapped>>

Bad_poll_again_for_free(f) ==
  /\ At(f, "demo", "polled")
  /\ IF adaptations[f].value = adaptations[f].n THEN Moves(f, "ok") ELSE Moves(f, "poll")
  /\ UNCHANGED <<targetVars, near, wrapped>>

on_last_finished_polled(f) ==
  /\ At(f, "demo", "polled")
  /\ LET a == adaptations[f] IN
     IF a.value = a.n THEN Moves(f, "ok")
     ELSE IF a.attempts = 0 THEN Panics(f, "outcome")
     ELSE schedule_finished_poll(f, a.attempts - 1)
  /\ UNCHANGED <<targetVars, near, wrapped>>

----------------------------------------------------------------------------
(* compat-adapter.                                                         *)

Bad_wrap_whole_deposit(attached) == attached

\* One yocto is kept for ft_transfer.
wrap_amount(attached) == attached - FT_TRANSFER_DEPOSIT

\* The deposit has arrived with the call; near_deposit takes its share of it.
adapt_wrap_near_deposit_then_transfer(f, attached, extra) ==
  /\ Unused(f)
  /\ IF attached > FT_TRANSFER_DEPOSIT /\ StartBudget(extra) >= MIN_CALLBACK_BUDGET
     THEN /\ adaptations' =
               [adaptations EXCEPT ![f] = Accepted("compat", 0, attached, extra, "deposit")]
          /\ near' = near + attached - wrap_amount(attached)
     ELSE /\ adaptations' =
               [adaptations EXCEPT ![f] = Accepted("compat", 0, attached, extra, "refused")]
          /\ UNCHANGED near
  /\ UNCHANGED <<targetVars, wrapped>>

\* near_deposit returns; the deposit of a failed call goes back to its sender,
\* which is the adapter.
DepositReturns(f, outcome) ==
  LET amount == wrap_amount(adaptations[f].attached) IN
  /\ At(f, "compat", "deposit")
  /\ Sees(f, "deposited", outcome)
  /\ IF outcome = "ok"
     THEN wrapped' = [wrapped EXCEPT !["adapter"] = @ + amount] /\ UNCHANGED near
     ELSE near' = near + amount /\ UNCHANGED wrapped
  /\ UNCHANGED targetVars

on_wrap_near_deposit_started(f) ==
  LET budget == Minus(adaptations[f].budget, WRAP_TRANSFER_STEP_OVERHEAD) IN
  /\ At(f, "compat", "deposited")
  /\ IF adaptations[f].seen # "ok" THEN Panics(f, "outcome") /\ UNCHANGED near
     ELSE IF budget < MIN_CALLBACK_BUDGET THEN Panics(f, "budget") /\ UNCHANGED near
     ELSE /\ adaptations' = [adaptations EXCEPT ![f].stage = "transfer", ![f].budget = budget]
          /\ near' = near - FT_TRANSFER_DEPOSIT
  /\ UNCHANGED <<targetVars, wrapped>>

\* ft_transfer to the caller returns.
TransferReturns(f, outcome) ==
  LET amount == wrap_amount(adaptations[f].attached) IN
  /\ At(f, "compat", "transfer")
  /\ Sees(f, "transferred", outcome)
  /\ IF outcome = "ok"
     THEN wrapped' = [adapter |-> wrapped["adapter"] - amount,
                      caller |-> wrapped["caller"] + amount] /\ UNCHANGED near
     ELSE near' = near + FT_TRANSFER_DEPOSIT /\ UNCHANGED wrapped
  /\ UNCHANGED targetVars

on_wrap_ft_transfer_finished(f) ==
  /\ At(f, "compat", "transferred")
  /\ IF adaptations[f].seen = "ok" THEN Moves(f, "ok") ELSE Panics(f, "outcome")
  /\ UNCHANGED <<targetVars, near, wrapped>>

----------------------------------------------------------------------------

AdapterRuns(f) ==
  \/ StartReturns(f) \/ on_route_echo_started(f)
  \/ PollReturns(f) \/ on_last_finished_polled(f)
  \/ \E outcome \in {"ok", "err"} : DepositReturns(f, outcome) \/ TransferReturns(f, outcome)
  \/ on_wrap_near_deposit_started(f) \/ on_wrap_ft_transfer_finished(f)

\* What steps dispatch: a Direct call, or a call of one of the adapters.
Dispatch(f) ==
  \/ \E n \in Numbers, extra \in ExtraGas : adapt_fire_and_forget_route_echo(f, n, extra)
  \/ \E attached \in Attached, extra \in ExtraGas :
       adapt_wrap_near_deposit_then_transfer(f, attached, extra)
  \/ \E c \in DirectCalls :
       /\ Unused(f)
       /\ calls' = [calls EXCEPT ![f] = Called(c.method, c.arg)]
       /\ UNCHANGED <<detached, last_finished, calls_completed, finished_after, adapterVars>>

Runs(f) == (TargetRuns(f) \/ DetachedRuns(f)) /\ UNCHANGED adapterVars

Next == \E f \in Flows : Dispatch(f) \/ Runs(f) \/ AdapterRuns(f)

Spec == Init /\ [][Next]_allVars

\* The runtime runs every receipt.
FairSpec == Spec /\ \A f \in Flows : WF_allVars(Runs(f)) /\ WF_allVars(AdapterRuns(f))

----------------------------------------------------------------------------
(* Properties.                                                             *)

\* demo-adapter's success is about work done: an echo of the number it was asked
\* for has reported success since its own start reset the router.  The echo may
\* be that of another caller who asked for the same number.
PollSeesFreshEcho ==
  \A f \in Flows : At(f, "demo", "ok") =>
    \E g \in Flows : /\ <<g, f>> \in finished_after
                     /\ calls[g].arg = adaptations[f].n

Ended(f) == adaptations[f] = None \/ adaptations[f].stage \in {"ok", "err", "refused"}
EndedAs(stage) ==
  {f \in Flows : adaptations[f] # None /\ adaptations[f].adapter = "compat"
                                       /\ adaptations[f].stage = stage}
AttachedBy(flows) == SumFunction([f \in flows |-> adaptations[f].attached])

\* compat-adapter's books: once no call is under way, what it holds, in either
\* currency, is what the failed calls attached, and the callers of the others
\* have received all they attached but the yocto of the transfer.
BooksBalance ==
  (\A f \in Flows : Ended(f)) =>
    /\ near + wrapped["adapter"] = AttachedBy(EndedAs("err"))
    /\ wrapped["caller"] + Cardinality(EndedAs("ok")) = AttachedBy(EndedAs("ok"))

\* The overhead that dispatch_promise_for_call adds for an adapter pays for every
\* poll and for the transfer: no chain started by a step gives up for its budget.
StepBudgetSuffices ==
  \A f \in Flows :
    adaptations[f] # None /\ adaptations[f].extra >= ADAPTER_SEQUENCE_OVERHEAD
      => adaptations[f].why # "budget"

\* Every adapter call is answered, whatever its targets do.
AdaptersAnswer ==
  \A f \in Flows : adaptations[f] # None ~> adaptations[f] # None /\ Ended(f)
=============================================================================
