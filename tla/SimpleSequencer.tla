-------------------------- MODULE SimpleSequencer --------------------------
(***************************************************************************)
(* simple-example: the simple-sequencer contract, and the recorder contract*)
(* its steps call.  Callers stage steps as yielded receipts and run them in*)
(* an order of their choice; each successful resolution resumes the next   *)
(* step of the caller's queue.                                             *)
(*                                                                         *)
(* As in Sequencer, a call is one action, a call that would panic is not   *)
(* enabled, a callback that panics consumes its receipt and changes nothing*)
(* else, and receipts holds what the runtime has still to run, one entry   *)
(* per yield, which follows the chain of that yield.                       *)
(***************************************************************************)
EXTENDS Naturals, Sequences, SequencesExt

CONSTANTS
  Callers,    \* accounts that call the sequencer
  StepIds,    \* step_id values
  Orders,     \* the plans of execute_steps and the orders of run_sequence
  Funding,    \* whether the contract's balance covers the deposit of a dispatch
  MaxYields,  \* bound on the yields ever created
  MaxRuns,    \* bound on the runs ever started
  None        \* "not there"

ASSUME SimpleBounds == MaxYields \in Nat /\ MaxRuns \in Nat

ASSUME SimpleInputs ==
  /\ Orders \subseteq Seq(StepIds) \ {<<>>}
  /\ Funding \subseteq BOOLEAN

\* registered_step_key: a pair; an account id holds no '#'.
Keys == Callers \X StepIds
YieldIds == 1..MaxYields
Runs == 1..MaxRuns

\* "waiting": yielded; "resumed": on_step_resumed is on its way; "target": the
\* target call runs; "resolve_ok", "resolve_err": on_step_resolved is on its way
\* with that result.
ReleasedPhases == {"resumed", "target", "resolve_ok", "resolve_err"}
LivePhases == {"waiting"} \union ReleasedPhases
\* "ok", "err": on_step_resolved ran; "halted": the yield timed out; "dropped": no
\* registration was found; "aborted": on_step_resumed panicked.
Phases == LivePhases \union {"ok", "err", "halted", "dropped", "aborted"}

Receipt == [caller: Callers, id: StepIds, phase: Phases]

ASSUME SimpleNone == None \notin Nat /\ None \notin Receipt /\ None \notin Phases

\* run: the run of the call that recorded it, a history.
RecordEntry == [step_id: StepIds, signer_id: Callers, run: Runs]

VARIABLES
  registered_steps, \* Keys -> the yield of the RegisteredStep, or None
  sequence_queue,   \* the ids still to be released; <<>>: no entry
  entries,          \* recorder: its entries
  receipts,         \* runtime: where the chain of each yield stands
  next_yield,       \* runtime: the next yield id
  runs,             \* history: runs started so far
  current,          \* history: the last run each caller started, or 0
  run_of,           \* history: the run that released a yield, or 0
  order,            \* history: the order of each run
  calls,            \* history: the ids each run has dispatched
  answers,          \* history: how many of them resolved ok
  shared            \* history: runs that met another run of their caller

runtimeVars == <<receipts, next_yield>>
runVars == <<order, calls, answers, shared>>
simpleVars == <<registered_steps, sequence_queue, entries, runtimeVars, runs, current,
                run_of, runVars>>

TypeOK ==
  /\ registered_steps \in [Keys -> YieldIds \union {None}]
  /\ sequence_queue \in [Callers -> Seq(StepIds)]
  /\ entries \in Seq(RecordEntry)
  /\ receipts \in [YieldIds -> Receipt \union {None}]
  /\ next_yield \in 1..(MaxYields + 1)
  /\ runs \in 0..MaxRuns
  /\ current \in [Callers -> 0..MaxRuns]
  /\ run_of \in [YieldIds -> 0..MaxRuns]
  /\ order \in [Runs -> Seq(StepIds)]
  /\ calls \in [Runs -> Seq(StepIds)]
  /\ answers \in [Runs -> Nat]
  /\ shared \subseteq Runs

Init ==
  /\ registered_steps = [k \in Keys |-> None]
  /\ sequence_queue = [c \in Callers |-> <<>>]
  /\ entries = <<>>
  /\ receipts = [y \in YieldIds |-> None]
  /\ next_yield = 1
  /\ runs = 0
  /\ current = [c \in Callers |-> 0]
  /\ run_of = [y \in YieldIds |-> 0]
  /\ order = [r \in Runs |-> <<>>]
  /\ calls = [r \in Runs |-> <<>>]
  /\ answers = [r \in Runs |-> 0]
  /\ shared = {}

Phase(y) == IF receipts[y] = None THEN None ELSE receipts[y].phase
Key(y) == <<receipts[y].caller, receipts[y].id>>
Live(y) == Phase(y) \in LivePhases
Released(y) == Phase(y) \in ReleasedPhases
ReleasedOf(c) == {y \in YieldIds : Released(y) /\ receipts[y].caller = c}

----------------------------------------------------------------------------
(* Entry points.                                                           *)

\* register_step_for_caller for each id of a plan, as values of the map and of
\* the receipts after it.
Bad_CanRegister_taken(c, plan) == next_yield + Len(plan) - 1 <= MaxYields

CanRegister(c, plan) ==
  /\ next_yield + Len(plan) - 1 <= MaxYields
  /\ \A i \in DOMAIN plan : registered_steps[<<c, plan[i]>>] = None

Registered(c, plan) ==
  [k \in Keys |->
     IF k[1] = c /\ \E i \in DOMAIN plan : plan[i] = k[2]
     THEN next_yield - 1 + CHOOSE i \in DOMAIN plan : plan[i] = k[2]
     ELSE registered_steps[k]]

Yielded(c, plan) ==
  [y \in YieldIds |->
     IF y \in next_yield..(next_yield + Len(plan) - 1)
     THEN [caller |-> c, id |-> plan[y - next_yield + 1], phase |-> "waiting"]
     ELSE receipts[y]]

\* resume succeeds until the yield is consumed by on_step_resumed.
CanResume(rcpts, y) ==
  y # None /\ rcpts[y] # None /\ rcpts[y].phase \in {"waiting", "resumed"}

\* start_sequence_release_for_caller over a map reg and receipts rcpts.  "caller
\* already has a run in flight" is judged by the queue alone.
start_sequence_release_for_caller(c, ids, reg, rcpts) ==
  LET first == reg[<<c, Head(ids)>>]
      run == runs + 1
  IN
  /\ ids # <<>>
  /\ sequence_queue[c] = <<>>
  /\ \A i \in DOMAIN ids : reg[<<c, ids[i]>>] # None
  /\ CanResume(rcpts, first)
  /\ sequence_queue' = [sequence_queue EXCEPT ![c] = Tail(ids)]
  /\ receipts' = [rcpts EXCEPT ![first].phase = "resumed"]
  /\ registered_steps' = reg
  /\ runs < MaxRuns
  /\ runs' = run
  /\ current' = [current EXCEPT ![c] = run]
  /\ run_of' = [run_of EXCEPT ![first] = run]
  /\ order' = [order EXCEPT ![run] = ids]
  /\ shared' = IF ReleasedOf(c) = {} THEN shared
               ELSE shared \union {run} \union {run_of[y] : y \in ReleasedOf(c)}
  /\ UNCHANGED <<entries, calls, answers>>

register_step(c, id) ==
  /\ CanRegister(c, <<id>>)
  /\ registered_steps' = Registered(c, <<id>>)
  /\ receipts' = Yielded(c, <<id>>)
  /\ next_yield' = next_yield + 1
  /\ UNCHANGED <<sequence_queue, entries, runs, current, run_of, runVars>>

\* A repeated id is refused here, and not by run_sequence.
execute_steps(c, plan) ==
  /\ IsInjective(plan)
  /\ CanRegister(c, plan)
  /\ start_sequence_release_for_caller(c, plan, Registered(c, plan), Yielded(c, plan))
  /\ next_yield' = next_yield + Len(plan)

\* Each caller runs its own steps only.
run_sequence(c, ids) ==
  /\ start_sequence_release_for_caller(c, ids, registered_steps, receipts)
  /\ UNCHANGED next_yield

----------------------------------------------------------------------------
(* Callbacks.                                                              *)

\* The chain of y moves on, or ends.
MoveTo(y, phase) == receipts' = [receipts EXCEPT ![y].phase = phase]

Without(key) == [registered_steps EXCEPT ![key] = None]

Bad_clear_nothing(c) == UNCHANGED sequence_queue

clear_queue_for_caller(c) == sequence_queue' = [sequence_queue EXCEPT ![c] = <<>>]

\* on_step_resumed finds nothing under its key and returns.  SimpleCallbackSafe
\* shows that this never happens.
WakesUpLate(y) ==
  /\ Phase(y) \in {"waiting", "resumed"}
  /\ registered_steps[Key(y)] = None
  /\ MoveTo(y, "dropped")
  /\ UNCHANGED <<registered_steps, sequence_queue, entries, current, run_of, runVars>>

\* Creating the promise panics when the deposit is not there.
on_step_resumed_ok(y) ==
  /\ Phase(y) = "resumed"
  /\ registered_steps[Key(y)] # None
  /\ \E funded \in Funding :
       IF funded
       THEN /\ MoveTo(y, "target")
            /\ calls' = [calls EXCEPT ![run_of[y]] = Append(@, receipts[y].id)]
       ELSE MoveTo(y, "aborted") /\ UNCHANGED calls
  /\ UNCHANGED <<registered_steps, sequence_queue, entries, current, run_of, order,
                 answers, shared>>

\* The yield timed out, perhaps with a resume under way.
on_step_resumed_err(y) ==
  /\ Phase(y) \in {"waiting", "resumed"}
  /\ registered_steps[Key(y)] # None
  /\ MoveTo(y, "halted")
  /\ registered_steps' = Without(Key(y))
  /\ clear_queue_for_caller(receipts[y].caller)
  /\ UNCHANGED <<entries, current, run_of, runVars>>

Bad_record_prepends(y) ==
  entries' = <<[step_id |-> receipts[y].id, signer_id |-> receipts[y].caller,
                run |-> run_of[y]]>> \o entries

\* recorder.record.
record(y) ==
  entries' = Append(entries, [step_id |-> receipts[y].id,
                              signer_id |-> receipts[y].caller, run |-> run_of[y]])

\* The target call runs: the recorder records, or the call fails.
TargetRuns(y, ok) ==
  /\ Phase(y) = "target"
  /\ MoveTo(y, IF ok THEN "resolve_ok" ELSE "resolve_err")
  /\ IF ok THEN record(y) ELSE UNCHANGED entries
  /\ UNCHANGED <<registered_steps, sequence_queue, current, run_of, runVars>>

\* progress_after_successful_resolution: take_next_queued_step and
\* resume_registered_step; a step that cannot be resumed ends the sequence.
progress_after_successful_resolution(y) ==
  LET c == receipts[y].caller
      next == registered_steps'[<<c, Head(sequence_queue[c])>>]
  IN
  IF sequence_queue[c] = <<>>
  THEN MoveTo(y, "ok") /\ UNCHANGED <<sequence_queue, run_of>>
  ELSE IF CanResume(receipts, next)
  THEN /\ receipts' = [receipts EXCEPT ![y].phase = "ok", ![next].phase = "resumed"]
       /\ sequence_queue' = [sequence_queue EXCEPT ![c] = Tail(@)]
       /\ run_of' = [run_of EXCEPT ![next] = current[c]]
  ELSE MoveTo(y, "ok") /\ clear_queue_for_caller(c) /\ UNCHANGED run_of

on_step_resolved_ok(y) ==
  /\ Phase(y) = "resolve_ok"
  /\ registered_steps' = Without(Key(y))
  /\ progress_after_successful_resolution(y)
  /\ answers' = [answers EXCEPT ![run_of[y]] = @ + 1]
  /\ UNCHANGED <<entries, current, order, calls, shared>>

Bad_failure_progresses(y) ==
  /\ Phase(y) = "resolve_err"
  /\ registered_steps' = Without(Key(y))
  /\ progress_after_successful_resolution(y)
  /\ UNCHANGED <<entries, current, runVars>>

on_step_resolved_err(y) ==
  /\ Phase(y) = "resolve_err"
  /\ registered_steps' = Without(Key(y))
  /\ MoveTo(y, "err")
  /\ clear_queue_for_caller(receipts[y].caller)
  /\ UNCHANGED <<entries, current, run_of, runVars>>

Deliver(y) ==
  /\ \/ WakesUpLate(y)
     \/ on_step_resumed_ok(y)
     \/ on_step_resumed_err(y)
     \/ \E ok \in BOOLEAN : TargetRuns(y, ok)
     \/ on_step_resolved_ok(y)
     \/ on_step_resolved_err(y)
  /\ UNCHANGED <<next_yield, runs>>

Entry ==
  \/ \E c \in Callers, id \in StepIds : register_step(c, id)
  \/ \E c \in Callers, ids \in Orders : execute_steps(c, ids) \/ run_sequence(c, ids)

Next == Entry \/ \E y \in YieldIds : Deliver(y)

Spec == Init /\ [][Next]_simpleVars

\* The runtime runs every receipt and times out a yield nobody resumes.
FairSpec == Spec /\ \A y \in YieldIds : WF_simpleVars(Deliver(y))

----------------------------------------------------------------------------
(* Properties.                                                             *)

\* Callbacks look their step up by caller and id; while a chain is alive its key
\* holds the chain's own yield.
CallbackFindsOwnStep == \A y \in YieldIds : Live(y) => registered_steps[Key(y)] = y

\* The opening promise of simple-sequencer: a run calls its targets one at a
\* time, in the order given, each after the one before resolved ok, unless the
\* caller starts another run while a step of it is still under way.
Promise == INSTANCE OrderedRun WITH
  Runs <- Runs, StepIds <- StepIds,
  order <- order, calls <- calls, answers <- answers, shared <- shared
KeepsPromise == Promise!Spec

\* How many of the first n entries a run has recorded.
Recorded(r, n) == Cardinality({i \in 1..n : entries[i].run = r})

\* "Durable state ordering in get_entries()": the recorder's entries of a run are
\* the beginning of its order, with at most one entry that is not resolved yet.
RecordedInOrder ==
  \A r \in Runs \ shared :
    /\ Recorded(r, Len(entries)) \in {answers[r], answers[r] + 1}
    /\ \A i \in DOMAIN entries : entries[i].run = r =>
         Recorded(r, i) <= Len(order[r]) /\ entries[i].step_id = order[r][Recorded(r, i)]

\* A step that a panicking on_step_resumed has left behind.
Stranded(key) ==
  registered_steps[key] # None /\ Phase(registered_steps[key]) = "aborted"

\* A queue drains, so that its caller can start a run again, whatever fails or
\* times out, unless a panic has stranded a step of the caller.
QueueDrains ==
  \A c \in Callers :
    sequence_queue[c] # <<>> ~>
      sequence_queue[c] = <<>> \/ \E id \in StepIds : Stranded(<<c, id>>)
=============================================================================
