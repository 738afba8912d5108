------------------------- MODULE AutomationRunProofs ------------------------
(***************************************************************************)
(* Proofs about whole automation runs of the smart account, interleaved    *)
(* with manual runs, sessions and owner calls: their steps are released in *)
(* order, a run row that reports success tells the truth, a run in flight  *)
(* is driven by a released step, a callback acts on its own step, and the  *)
(* account implements OrderedRun.                                          *)
(*                                                                         *)
(* Each theorem holds while no trigger_id has been created twice.  Once a  *)
(* trigger is deleted and created again its run_nonce restarts and a run   *)
(* may reuse a namespace that callbacks of an old run still look up.       *)
(***************************************************************************)
EXTENDS AutomationProofs, FiniteSetTheorems

NoReuse == \A t \in Triggers : creations[t] <= 1

----------------------------------------------------------------------------
(* What a callback does to its chain and to the contract's state at once.  *)

\* The chain moves on and the contract's state stays.
Moves(y) ==
  /\ Released(y) /\ UNCHANGED contractVars
  /\ \E phase \in ReleasedPhases \union {"aborted"} :
       /\ MoveTo(y, phase)
       /\ phase = "gate" => Found(y) # None /\ Found(y).call.gated
  /\ Sends(y) => Found(y) # None /\ Materializes(y)

\* The chain finds no step of its own.
Drops(y) ==
  /\ MoveTo(y, "dropped") /\ UNCHANGED contractVars
  /\ Found(y) = None \/ (Phase(y) = "gate" /\ ~Found(y).call.gated)

\* The entry that take_next_queued_step finds.
NextEntry(y) == Without(Key(y))[<<receipts[y].ns, Head(sequence_queue[receipts[y].ns])>>]

CanRelease(y) == NextEntry(y) # None /\ CanResume(receipts, NextEntry(y).yield)

\* The chain ends and its namespace is halted.
Halts(y) ==
  \E phase \in {"halted", "err", "ok"}, status \in Ended \ {"Succeeded"} :
    /\ MoveTo(y, phase) /\ Halt(receipts[y].ns, status, Without(Key(y)))
    /\ phase = "halted" => Found(y) # None
    /\ phase = "err" => Phase(y) = "resolve_err"
    /\ phase = "ok" => /\ Phase(y) = "resolve_ok" /\ ~CanRelease(y)
                       /\ sequence_queue[receipts[y].ns] # <<>>

\* The chain ends and the next queued one is resumed.
Releases(y) ==
  /\ Phase(y) = "resolve_ok" /\ CanRelease(y) /\ Pops(y)
  /\ receipts' = [receipts EXCEPT ![y].phase = "ok", ![NextEntry(y).yield].phase = "resumed"]

\* The chain ends and nothing is queued.
Completes(y) == Phase(y) = "resolve_ok" /\ CompleteSequence(y)

LEMMA DispatchCases ==
  ASSUME TypeOK, NEW y \in YieldIds, Phase(y) \in {"resumed", "gate"}, Found(y) # None,
         halt_on_materialize_failure(y) \/ dispatch_promise_for_call(y)
  PROVE  Moves(y) \/ Halts(y)
<1>1. CASE halt_on_materialize_failure(y)
  <2>1. /\ MoveTo(y, "halted")
        /\ Halt(receipts[y].ns, "DownstreamFailed", Without(Key(y)))
    BY <1>1 DEF halt_on_materialize_failure
  <2> QED BY <2>1 DEF Halts, Ended, RunStatus
<1>2. CASE dispatch_promise_for_call(y)
  <2>1. PICK phase \in {"asserted_target", "target", "aborted"} : MoveTo(y, phase)
    BY <1>2 DEF dispatch_promise_for_call
  <2>2. UNCHANGED contractVars /\ Materializes(y)
    BY <1>2 DEF dispatch_promise_for_call
  <2>3. Released(y) /\ phase \in ReleasedPhases \union {"aborted"} /\ phase # "gate"
    BY <2>1 DEF Released, ReleasedPhases
  <2> QED BY <2>1, <2>2, <2>3 DEF Moves
<1> QED BY <1>1, <1>2

\* Every callback does one of these to a chain that is alive.
LEMMA DeliverCases ==
  ASSUME TypeOK, NEW y \in YieldIds, Deliver(y)
  PROVE  /\ receipts[y] # None /\ Live(y)
         /\ Moves(y) \/ Drops(y) \/ Halts(y) \/ Releases(y) \/ Completes(y)
<1> DEFINE Case == Moves(y) \/ Drops(y) \/ Halts(y) \/ Releases(y) \/ Completes(y)
<1>l. LivePhases = {"waiting", "resumed", "gate", "target", "asserted_target",
                    "check", "resolve_ok", "resolve_err"}
  BY DEF LivePhases, ReleasedPhases
<1>e. "DownstreamFailed" \in Ended \ {"Succeeded"} /\ "ResumeFailed" \in Ended \ {"Succeeded"}
  BY DEF Ended, RunStatus
<1>1. CASE on_step_resumed(y)
  <2>1. Live(y)
    BY <1>1, <1>l DEF on_step_resumed, on_step_resumed_ok, on_step_resumed_err, Live
  <2>2. ASSUME on_step_resumed_ok(y) /\ Found(y).call.gated PROVE Case
    <3>1. PICK phase \in {"gate", "aborted"} : MoveTo(y, phase)
      BY <2>2 DEF on_step_resumed_ok
    <3>2. Released(y) /\ phase \in ReleasedPhases \union {"aborted"}
      BY <2>2 DEF on_step_resumed_ok, Released, ReleasedPhases
    <3>3. ~Sends(y)
      <4>1. receipts[y] # None
        BY <2>1, LiveHasReceipt DEF Live, Phases
      <4>2. Phase(y)' = phase
        BY <3>1, <3>2, <4>1, MoveFacts DEF Phases, LivePhases, EndPhases
      <4> QED BY <4>2 DEF Sends
    <3> QED BY <2>2, <3>1, <3>2, <3>3 DEF on_step_resumed_ok, Moves
  <2>3. ASSUME on_step_resumed_ok(y) /\ ~Found(y).call.gated PROVE Case
    BY <2>3, DispatchCases DEF on_step_resumed_ok
  <2>4. ASSUME on_step_resumed_err(y) PROVE Case
    BY <1>e, <2>4 DEF on_step_resumed_err, Halts
  <2>5. ASSUME WakesUpLate(y) PROVE Case
    BY <2>5 DEF WakesUpLate, Drops
  <2>6. Case
    BY <1>1, <2>2, <2>3, <2>4, <2>5 DEF on_step_resumed
  <2> QED BY <2>1, <2>6, LiveHasReceipt DEF Live, Phases
<1>2. CASE on_pre_gate_checked(y)
  <2>1. Live(y) /\ Phase(y) = "gate"
    BY <1>2, <1>l DEF on_pre_gate_checked, Live
  <2>2. ASSUME WakesUpLate(y) PROVE Case
    BY <2>2 DEF WakesUpLate, Drops
  <2>3. ASSUME on_pre_gate_checked_ungated(y) PROVE Case
    BY <2>1, <2>3 DEF on_pre_gate_checked_ungated, Drops
  <2>4. ASSUME on_pre_gate_checked_in_range(y) PROVE Case
    BY <2>1, <2>4, DispatchCases DEF on_pre_gate_checked_in_range
  <2>5. ASSUME halt_sequence_on_pre_gate_failure(y) PROVE Case
    BY <1>e, <2>5 DEF halt_sequence_on_pre_gate_failure, Halts
  <2>6. Case
    BY <1>2, <2>2, <2>3, <2>4, <2>5 DEF on_pre_gate_checked
  <2> QED BY <2>1, <2>6, LiveHasReceipt DEF Live, Phases
<1>3. ASSUME NEW ok \in BOOLEAN,
             \/ TargetReturns(y, ok)
             \/ on_asserted_run_postcheck(y, ok)
             \/ on_asserted_evaluate_postcheck(y, ok)
      PROVE  Live(y) /\ Moves(y)
  <2>1. PICK phase \in {"resolve_ok", "resolve_err", "check"} : MoveTo(y, phase)
    BY <1>3 DEF TargetReturns, on_asserted_run_postcheck, on_asserted_evaluate_postcheck
  <2>2. Phase(y) \in {"target", "asserted_target", "check"} /\ UNCHANGED contractVars
    BY <1>3 DEF TargetReturns, on_asserted_run_postcheck, on_asserted_evaluate_postcheck
  <2>3. Released(y) /\ Live(y) /\ phase \in ReleasedPhases /\ phase # "gate" /\ ~Sends(y)
    BY <1>l, <2>1, <2>2 DEF Released, ReleasedPhases, Live, Sends
  <2> QED BY <2>1, <2>2, <2>3 DEF Moves
<1>4. CASE on_step_resolved_ok(y)
  <2>1. Live(y) /\ Phase(y) = "resolve_ok"
    BY <1>4, <1>l DEF on_step_resolved_ok, Live
  <2>2. ASSUME ReleaseNext(y) /\ CanRelease(y) PROVE Case
    BY <2>1, <2>2 DEF ReleaseNext, CanRelease, NextEntry, Releases, Pops
  <2>3. ASSUME ReleaseNext(y) /\ ~CanRelease(y) PROVE Case
    <3>1. /\ MoveTo(y, "ok") /\ Halt(receipts[y].ns, "ResumeFailed", Without(Key(y)))
          /\ sequence_queue[receipts[y].ns] # <<>>
      BY <2>3 DEF ReleaseNext, CanRelease, NextEntry
    <3> QED BY <1>e, <2>1, <2>3, <3>1 DEF Halts
  <2>4. ASSUME CompleteSequence(y) PROVE Case
    BY <2>1, <2>4 DEF Completes
  <2>5. Case
    BY <1>4, <2>2, <2>3, <2>4 DEF on_step_resolved_ok
  <2> QED BY <2>1, <2>5, LiveHasReceipt DEF Live, Phases
<1>5. CASE on_step_resolved_err(y)
  <2>1. Live(y) /\ Halts(y)
    BY <1>5, <1>l, <1>e DEF on_step_resolved_err, Live, Halts
  <2> QED BY <2>1, LiveHasReceipt DEF Live, Phases
<1>6. Live(y) => receipts[y] # None
  BY LiveHasReceipt DEF Live, Phases
<1> QED BY <1>1, <1>2, <1>3, <1>4, <1>5, <1>6 DEF Deliver

----------------------------------------------------------------------------
(* A step that leaves a namespace alone.                                   *)

In(y, ns) == receipts[y] # None /\ receipts[y].ns = ns

\* The receipts rcpts hold the chains of ns as they are now, and no other of ns.
SameChains(ns, rcpts) ==
  \A y \in YieldIds :
    /\ rcpts[y] # None /\ rcpts[y].ns = ns => In(y, ns)
    /\ In(y, ns) => rcpts[y] = receipts[y]

\* Nothing of the namespace changes, but that its row may be pruned.
Frozen(ns) ==
  /\ SameChains(ns, receipts') /\ Untouched(ns)
  /\ \/ automation_runs'[ns] = automation_runs[ns]
     \/ automation_runs[ns] # "InFlight" /\ automation_runs'[ns] = None

LEMMA RegisterSameChains ==
  ASSUME TypeOK, StrandInv, NEW m \in Namespaces, NEW plan \in Seq(Steps),
         CanRegister(m, plan), NEW ns, ns # m
  PROVE  SameChains(ns, Yielded(m, plan))
<1> SUFFICES ASSUME NEW y \in YieldIds
             PROVE  /\ Yielded(m, plan)[y] # None /\ Yielded(m, plan)[y].ns = ns => In(y, ns)
                    /\ In(y, ns) => Yielded(m, plan)[y] = receipts[y]
  BY DEF SameChains
<1>1. CASE y \in next_yield..(next_yield + Len(plan) - 1)
  <2>1. Yielded(m, plan)[y].ns = m
    BY <1>1 DEF Yielded
  <2>2. next_yield <= y
    BY <1>1 DEF TypeOK
  <2>3. receipts[y] = None
    BY <2>2 DEF StrandInv, StrandIn, TypeOK, YieldIds
  <2> QED BY <2>1, <2>3 DEF In
<1>2. CASE y \notin next_yield..(next_yield + Len(plan) - 1)
  BY <1>2 DEF Yielded, In
<1> QED BY <1>1, <1>2

\* A map of registered steps and the receipts that go with it.
Fits(reg, rcpts, next) ==
  /\ reg \in [Keys -> RegisteredStep \union {None}]
  /\ rcpts \in [YieldIds -> Receipt \union {None}]
  /\ StrandIn(reg, rcpts, next)

\* The chain that StartRelease resumes is of the namespace it starts in.
ResumesHead(m, order, reg, rcpts) ==
  LET h == reg[<<m, Head(order)>>].yield
  IN  /\ h \in YieldIds /\ rcpts[h] # None
      /\ rcpts[h].ns = m /\ rcpts[h].id = Head(order)
      /\ rcpts[h].phase \in {"waiting", "resumed"}
      /\ receipts'[h] = [rcpts[h] EXCEPT !.phase = "resumed"]
      /\ \A y \in YieldIds : y # h => receipts'[y] = rcpts[y]

LEMMA StartHead ==
  ASSUME NEW m \in Namespaces, NEW order \in Seq(StepIds), NEW next, NEW reg, NEW rcpts,
         Fits(reg, rcpts, next), StartRelease(m, order, reg, rcpts)
  PROVE  ResumesHead(m, order, reg, rcpts)
<1>0. /\ reg \in [Keys -> RegisteredStep \union {None}]
      /\ rcpts \in [YieldIds -> Receipt \union {None}]
      /\ StrandIn(reg, rcpts, next)
  BY DEF Fits
<1> DEFINE h == reg[<<m, Head(order)>>].yield
<1>1. order # <<>> /\ \A i \in DOMAIN order : reg[<<m, order[i]>>] # None
  BY DEF StartRelease
<1>2. <<m, Head(order)>> \in Keys /\ reg[<<m, Head(order)>>] # None
  BY <1>1 DEF Keys
<1>3. /\ h \in YieldIds /\ rcpts[h] # None
      /\ <<rcpts[h].ns, rcpts[h].id>> = <<m, Head(order)>>
  BY <1>0, <1>2 DEF StrandIn, RegisteredStep
<1>4. /\ receipts' = [rcpts EXCEPT ![h].phase = "resumed"]
      /\ rcpts[h].phase \in {"waiting", "resumed"}
  BY DEF StartRelease, CanResume
<1> HIDE DEF h
<1>5. /\ receipts'[h] = [rcpts[h] EXCEPT !.phase = "resumed"]
      /\ \A y \in YieldIds : y # h => receipts'[y] = rcpts[y]
  BY <1>0, <1>3, <1>4
<1> QED BY <1>3, <1>4, <1>5 DEF ResumesHead, h

LEMMA StartSameChains ==
  ASSUME NEW m \in Namespaces, NEW order \in Seq(StepIds), NEW next,
         NEW reg \in [Keys -> RegisteredStep \union {None}],
         NEW rcpts \in [YieldIds -> Receipt \union {None}],
         StrandIn(reg, rcpts, next), StartRelease(m, order, reg, rcpts),
         NEW ns, ns # m, SameChains(ns, rcpts)
  PROVE  SameChains(ns, receipts')
<1>0. Fits(reg, rcpts, next)
  BY DEF Fits
<1>s. ResumesHead(m, order, reg, rcpts)
  BY <1>0, StartHead
<1> DEFINE h == reg[<<m, Head(order)>>].yield
<1>1. /\ h \in YieldIds /\ rcpts[h] # None /\ rcpts[h].ns = m
      /\ receipts'[h] = [rcpts[h] EXCEPT !.phase = "resumed"]
      /\ \A y \in YieldIds : y # h => receipts'[y] = rcpts[y]
  BY ONLY <1>s DEF ResumesHead
<1> HIDE DEF h
<1>2. receipts'[h].ns = m /\ rcpts[h] \in Receipt
  BY <1>1 DEF Receipt
<1>3. ~In(h, ns)
  BY <1>1, <1>2 DEF SameChains, In
<1> QED BY <1>1, <1>2, <1>3 DEF SameChains

\* A callback touches its own namespace only.
LEMMA DeliverUntouched ==
  ASSUME TypeOK, NEW y \in YieldIds, Deliver(y), NEW m \in Namespaces, m # receipts[y].ns
  PROVE  Untouched(m) /\ automation_runs'[m] = automation_runs[m]
<1> DEFINE ns == receipts[y].ns
<1>0. /\ ns \in Namespaces /\ Key(y) \in Keys /\ Key(y)[1] = ns
      /\ \A id \in StepIds : <<m, id>> \in Keys
      /\ "Succeeded" \in Ended
  BY CallbackOutcomes, KeyType DEF Key, Keys, Ended, RunStatus
<1>1. CASE UNCHANGED contractVars
  BY <1>1 DEF contractVars, Untouched
<1>2. ASSUME NEW status \in Ended, finish_automation_run(ns, status, Without(Key(y))),
             sequence_queue'[m] = sequence_queue[m],
             sequence_contexts'[m] = sequence_contexts[m]
      PROVE  Untouched(m) /\ automation_runs'[m] = automation_runs[m]
  BY <1>0, <1>2, FinishEffect DEF Untouched
<1>3. ASSUME NEW status \in Ended, Halt(ns, status, Without(Key(y)))
      PROVE  Untouched(m) /\ automation_runs'[m] = automation_runs[m]
  <2>1. sequence_queue'[m] = sequence_queue[m] /\ sequence_contexts'[m] = sequence_contexts[m]
    BY <1>0, <1>3 DEF Halt, TypeOK
  <2> QED BY <1>2, <1>3, <2>1 DEF Halt
<1>4. CASE Pops(y)
  <2>1. sequence_queue'[m] = sequence_queue[m]
    BY <1>0, <1>4 DEF Pops, TypeOK
  <2>2. sequence_contexts'[m] = sequence_contexts[m]
    BY <1>0, <1>4 DEF Pops, ContextAfter, TypeOK
  <2>3. ASSUME NEW id \in StepIds
        PROVE  registered_steps'[<<m, id>>] = registered_steps[<<m, id>>]
    <3>1. <<m, id>> # Key(y)
      BY <1>0
    <3> QED BY <1>0, <1>4, <3>1 DEF Pops, Without, TypeOK
  <2> QED BY <1>4, <2>1, <2>2, <2>3 DEF Pops, Untouched
<1>5. CASE CompleteSequence(y)
  <2>1. /\ finish_automation_run(ns, "Succeeded", Without(Key(y)))
        /\ sequence_queue'[m] = sequence_queue[m] /\ sequence_contexts'[m] = sequence_contexts[m]
    BY <1>0, <1>5 DEF CompleteSequence, TypeOK
  <2> QED BY <1>0, <1>2, <2>1
<1> QED BY <1>1, <1>3, <1>4, <1>5, CallbackOutcomes

\* Moving a chain on changes its phase and nothing else of it.
LEMMA MoveReceipt ==
  ASSUME TypeOK, NEW y \in YieldIds, receipts[y] # None, NEW phase \in Phases,
         MoveTo(y, phase)
  PROVE  /\ receipts'[y] # None /\ receipts'[y].phase = phase
         /\ receipts'[y].ns = receipts[y].ns /\ receipts'[y].id = receipts[y].id
         /\ \A z \in YieldIds : z # y => receipts'[z] = receipts[z]
<1>1. receipts[y] \in Receipt /\ receipts' = [receipts EXCEPT
        ![y] = [receipts[y] EXCEPT !.phase = phase]]
  BY DEF MoveTo, TypeOK
<1>2. [receipts[y] EXCEPT !.phase = phase] \in Receipt
  BY <1>1 DEF Receipt
<1>3. receipts'[y] = [receipts[y] EXCEPT !.phase = phase]
  BY <1>1 DEF TypeOK
<1>4. \A z \in YieldIds : z # y => receipts'[z] = receipts[z]
  BY <1>1 DEF TypeOK
<1> QED BY <1>1, <1>2, <1>3, <1>4, NoneAssumption DEF Receipt

\* The chain that a successful resolution resumes is the queue's head, of the same
\* namespace, and still waits.
LEMMA ReleaseFacts ==
  ASSUME TypeOK, StrandInv, NEW y \in YieldIds, receipts[y] # None, Releases(y)
  PROVE  LET h == NextEntry(y).yield
             next == Head(sequence_queue[receipts[y].ns])
         IN  /\ h \in YieldIds /\ h # y /\ receipts[h] # None
             /\ receipts[h].ns = receipts[y].ns /\ receipts[h].id = next
             /\ receipts[h].phase \in {"waiting", "resumed"}
             /\ next \in StepIds /\ Key(h) # Key(y)
             /\ registered_steps[Key(h)] # None /\ registered_steps[Key(h)].yield = h
             /\ receipts'[h] # None /\ receipts'[h].phase = "resumed"
             /\ receipts'[h].ns = receipts[h].ns /\ receipts'[h].id = receipts[h].id
             /\ receipts'[y] # None /\ receipts'[y].phase = "ok"
             /\ receipts'[y].ns = receipts[y].ns /\ receipts'[y].id = receipts[y].id
             /\ \A z \in YieldIds : z # y /\ z # h => receipts'[z] = receipts[z]
<1> DEFINE ns == receipts[y].ns
           next == Head(sequence_queue[ns])
           h == NextEntry(y).yield
<1>1. /\ receipts[y] \in Receipt /\ ns \in Namespaces /\ Key(y) \in Keys
      /\ receipts[y].phase = "resolve_ok"
  BY KeyType DEF Releases
<1>2. next \in StepIds /\ <<ns, next>> \in Keys
  BY <1>1 DEF Releases, Pops, TypeOK, Keys
<1>3. /\ NextEntry(y) # None /\ receipts[h] # None
      /\ receipts[h].phase \in {"waiting", "resumed"}
  BY DEF Releases, CanRelease, CanResume
<1>4. <<ns, next>> # Key(y) /\ NextEntry(y) = registered_steps[<<ns, next>>]
  BY <1>1, <1>2, <1>3 DEF NextEntry, Without, TypeOK
<1>5. h \in YieldIds /\ Key(h) = <<ns, next>>
  <2>1. registered_steps \in [Keys -> RegisteredStep \union {None}]
    BY DEF TypeOK
  <2>2. registered_steps[<<ns, next>>] # None /\ h = registered_steps[<<ns, next>>].yield
    BY <1>3, <1>4
  <2>3. registered_steps[<<ns, next>>] \in RegisteredStep
    BY ONLY <1>2, <2>1, <2>2
  <2>4. h \in YieldIds
    BY ONLY <2>2, <2>3 DEF RegisteredStep
  <2>5. <<receipts[h].ns, receipts[h].id>> = <<ns, next>>
    BY ONLY <1>2, <2>2, StrandInv DEF StrandInv, StrandIn
  <2> QED BY ONLY <2>4, <2>5 DEF Key
<1>6. h # y
  BY <1>1, <1>3
<1>7. receipts' = [receipts EXCEPT ![y].phase = "ok", ![h].phase = "resumed"]
  BY DEF Releases
<1>8. registered_steps[Key(h)] # None /\ registered_steps[Key(h)].yield = h
  BY <1>3, <1>4, <1>5
<1>9. receipts[h].ns = ns /\ receipts[h].id = next
  BY <1>5 DEF Key
<1> HIDE DEF h
<1>10. /\ receipts'[y] = [receipts[y] EXCEPT !.phase = "ok"]
       /\ receipts'[h] = [receipts[h] EXCEPT !.phase = "resumed"]
       /\ \A z \in YieldIds : z # y /\ z # h => receipts'[z] = receipts[z]
  BY <1>5, <1>6, <1>7 DEF TypeOK
<1>11. receipts[h] \in Receipt
  BY <1>3, <1>5 DEF TypeOK
<1>12. /\ [receipts[y] EXCEPT !.phase = "ok"] \in Receipt
       /\ [receipts[h] EXCEPT !.phase = "resumed"] \in Receipt
  BY <1>1, <1>11, PhaseNames DEF Receipt
<1>13. /\ receipts'[y] # None /\ receipts'[h] # None
       /\ receipts'[y].phase = "ok" /\ receipts'[h].phase = "resumed"
       /\ receipts'[y].ns = receipts[y].ns /\ receipts'[y].id = receipts[y].id
       /\ receipts'[h].ns = receipts[h].ns /\ receipts'[h].id = receipts[h].id
  BY <1>1, <1>10, <1>11, <1>12, NoneAssumption DEF Receipt
<1> QED BY <1>2, <1>3, <1>4, <1>5, <1>6, <1>8, <1>9, <1>10, <1>13 DEF h

\* A callback keeps every chain in its namespace under its id, and changes the
\* phase of its own chain and of one it resumes only.
LEMMA DeliverChains ==
  ASSUME TypeOK, StrandInv, NEW y \in YieldIds, Deliver(y)
  PROVE  /\ \A z \in YieldIds : receipts'[z] # None <=> receipts[z] # None
         /\ \A z \in YieldIds : receipts[z] # None =>
              receipts'[z].ns = receipts[z].ns /\ receipts'[z].id = receipts[z].id
         /\ \A z \in YieldIds : receipts[z] # None /\ receipts[z].ns # receipts[y].ns =>
              receipts'[z] = receipts[z]
<1>0. receipts[y] # None
  BY DeliverCases
<1>1. ASSUME NEW phase \in Phases, MoveTo(y, phase)
      PROVE  /\ \A z \in YieldIds : receipts'[z] # None <=> receipts[z] # None
             /\ \A z \in YieldIds : receipts[z] # None =>
                  receipts'[z].ns = receipts[z].ns /\ receipts'[z].id = receipts[z].id
             /\ \A z \in YieldIds : receipts[z] # None /\ receipts[z].ns # receipts[y].ns =>
                  receipts'[z] = receipts[z]
  BY <1>0, <1>1, MoveReceipt
<1>2. CASE Releases(y)
  BY <1>0, <1>2, ReleaseFacts
<1>3. CASE Moves(y) \/ Drops(y) \/ Halts(y) \/ Completes(y)
  <2>1. \E phase \in Phases : MoveTo(y, phase)
    BY <1>3, PhaseNames DEF Moves, Drops, Halts, Completes, CompleteSequence, Phases,
       LivePhases, EndPhases
  <2> QED BY <1>1, <2>1
<1> QED BY <1>2, <1>3, DeliverCases

LEMMA DeliverFrozen ==
  ASSUME TypeOK, StrandInv, NEW y \in YieldIds, Deliver(y), NEW ns \in Namespaces,
         ns # receipts[y].ns
  PROVE  Frozen(ns)
<1>1. SameChains(ns, receipts')
  BY DeliverChains DEF SameChains, In
<1> QED BY <1>1, DeliverUntouched DEF Frozen

----------------------------------------------------------------------------
(* The shape of the one run of a namespace.                                *)

\* The chain was released and did not end before its target call was sent.
Started(y) == Phase(y) \in ReleasedPhases \union {"ok", "err", "aborted"}

DistinctChains(ns) ==
  \A y, z \in YieldIds :
    In(y, ns) /\ In(z, ns) /\ receipts[y].id = receipts[z].id => y = z

OrderedChains(ns) ==
  \A y, z \in YieldIds :
    In(y, ns) /\ In(z, ns) /\ y < z /\ Started(z) => Phase(y) = "ok"

\* The chain at is the one the run is at: those before it resolved ok, those after
\* it wait, in the order of the queue.
Current(at, ns) ==
  /\ In(at, ns) /\ (Released(at) \/ Phase(at) = "aborted") /\ Found(at) # None
  /\ \A y \in YieldIds : In(y, ns) =>
       /\ y < at => Phase(y) = "ok"
       /\ at < y => /\ Phase(y) = "waiting" /\ Found(y) # None
                    /\ y <= at + Len(sequence_queue[ns])
  /\ \A i \in 1..Len(sequence_queue[ns]) :
       /\ at + i \in YieldIds /\ In(at + i, ns)
       /\ sequence_queue[ns][i] = receipts[at + i].id

InFlightShape(ns) == automation_runs[ns] = "InFlight" => \E at \in YieldIds : Current(at, ns)

SuccessIsReal(ns) ==
  automation_runs[ns] = "Succeeded" => \A y \in YieldIds : In(y, ns) => Phase(y) = "ok"

RunInv(ns) ==
  DistinctChains(ns) /\ OrderedChains(ns) /\ InFlightShape(ns) /\ SuccessIsReal(ns)

\* What a namespace that is left alone shows of its chains.
LEMMA FrozenChains ==
  ASSUME TypeOK, NEW ns, SameChains(ns, receipts'), Untouched(ns), NEW y \in YieldIds
  PROVE  /\ In(y, ns)' <=> In(y, ns)
         /\ In(y, ns) => /\ receipts'[y] = receipts[y] /\ Phase(y)' = Phase(y)
                         /\ Found(y)' = Found(y)
<1>1. In(y, ns) => receipts'[y] = receipts[y] /\ receipts[y].ns = ns
  BY DEF SameChains, In
<1>2. In(y, ns)' <=> In(y, ns)
  BY DEF SameChains, In
<1>3. In(y, ns) => Found(y)' = registered_steps[<<ns, receipts[y].id>>]
  BY <1>1, KeyType DEF Found, Key, Untouched, In
<1> QED BY <1>1, <1>2, <1>3 DEF Phase, Found, Key

LEMMA FrozenKeepsRun ==
  ASSUME TypeOK, NEW ns, Frozen(ns), RunInv(ns)
  PROVE  RunInv(ns)'
<1>0. SameChains(ns, receipts') /\ Untouched(ns)
  BY DEF Frozen
<1>1. ASSUME NEW y \in YieldIds
      PROVE  /\ In(y, ns)' <=> In(y, ns)
             /\ In(y, ns) => /\ receipts'[y] = receipts[y] /\ Phase(y)' = Phase(y)
                             /\ Found(y)' = Found(y)
  BY <1>0, FrozenChains
<1>2. DistinctChains(ns)'
  BY <1>1 DEF RunInv, DistinctChains
<1>3. OrderedChains(ns)'
  BY <1>1 DEF RunInv, OrderedChains, Started
<1>4. InFlightShape(ns)'
  <2> SUFFICES ASSUME automation_runs'[ns] = "InFlight"
               PROVE  \E at \in YieldIds : Current(at, ns)'
    BY DEF InFlightShape
  <2>1. automation_runs[ns] = "InFlight"
    BY NoneAssumption DEF Frozen, RunStatus
  <2>2. PICK at \in YieldIds : Current(at, ns)
    BY <2>1 DEF RunInv, InFlightShape
  <2>3. sequence_queue'[ns] = sequence_queue[ns]
    BY <1>0 DEF Untouched
  <2>4. Current(at, ns)'
    <3>1. In(at, ns)' /\ (Released(at)' \/ Phase(at)' = "aborted") /\ Found(at)' # None
      BY <1>1, <2>2 DEF Current, Released
    <3>2. ASSUME NEW y \in YieldIds, In(y, ns)'
          PROVE  /\ y < at => Phase(y)' = "ok"
                 /\ at < y => /\ Phase(y)' = "waiting" /\ Found(y)' # None
                              /\ y <= at + Len(sequence_queue'[ns])
      BY <1>1, <2>2, <2>3, <3>2 DEF Current
    <3>3. ASSUME NEW i \in 1..Len(sequence_queue'[ns])
          PROVE  /\ at + i \in YieldIds /\ In(at + i, ns)'
                 /\ sequence_queue'[ns][i] = receipts'[at + i].id
      BY <1>1, <2>2, <2>3, <3>3 DEF Current
    <3> QED BY <3>1, <3>2, <3>3 DEF Current
  <2> QED BY <2>4
<1>5. SuccessIsReal(ns)'
  <2> SUFFICES ASSUME automation_runs'[ns] = "Succeeded", NEW y \in YieldIds, In(y, ns)'
               PROVE  Phase(y)' = "ok"
    BY DEF SuccessIsReal
  <2>1. automation_runs[ns] = "Succeeded"
    BY NoneAssumption DEF Frozen, RunStatus
  <2> QED BY <1>1, <2>1 DEF RunInv, SuccessIsReal
<1> QED BY <1>2, <1>3, <1>4, <1>5 DEF RunInv

\* While its run is in flight a chain of the namespace that is alive is the one the
\* run is at, or waits behind it; its key holds its own registration.
LEMMA FlightFacts ==
  ASSUME TypeOK, StrandInv, NEW ns, RunInv(ns), NEW at \in YieldIds, Current(at, ns),
         NEW y \in YieldIds, In(y, ns), Live(y)
  PROVE  /\ Found(y) # None /\ Found(y).yield = y
         /\ y # at => at < y /\ Phase(y) = "waiting"
<1>1. y < at \/ y = at \/ at < y
  BY DEF YieldIds
<1>2. ~(y < at)
  <2>1. "ok" \notin LivePhases
    BY DEF LivePhases, ReleasedPhases
  <2> QED BY <2>1 DEF Current, Live
<1>3. Found(y) # None /\ (y # at => at < y /\ Phase(y) = "waiting")
  BY <1>1, <1>2 DEF Current
<1>4. Key(y) \in Keys /\ Key(y) = <<ns, receipts[y].id>>
  BY KeyType DEF In, Key
<1> DEFINE z == Found(y).yield
<1>5. z \in YieldIds /\ receipts[z] # None /\ Key(z) = Key(y)
  BY <1>3, <1>4 DEF Found, StrandInv, StrandIn, TypeOK, RegisteredStep, Key
<1> HIDE DEF z
<1>6. In(z, ns) /\ receipts[z].id = receipts[y].id
  BY <1>4, <1>5 DEF Key, In
<1>7. z = y
  BY <1>5, <1>6 DEF RunInv, DistinctChains
<1> QED BY <1>3, <1>7 DEF z

----------------------------------------------------------------------------
(* A callback of the run's namespace keeps its shape.                      *)

\* A chain that ends or moves on keeps the order: it starts no other chain, and only
\* a chain that was alive leaves its phase.
LEMMA MoveKeepsOrder ==
  ASSUME TypeOK, NEW ns, OrderedChains(ns), NEW y \in YieldIds, receipts[y] # None, Live(y),
         NEW phase \in Phases, MoveTo(y, phase), Released(y) \/ phase \in {"dropped", "halted"}
  PROVE  OrderedChains(ns)'
<1> SUFFICES ASSUME NEW x \in YieldIds, NEW z \in YieldIds, In(x, ns)', In(z, ns)',
                    x < z, Started(z)'
             PROVE  Phase(x)' = "ok"
  BY DEF OrderedChains
<1>0. "ok" \notin LivePhases
  BY DEF LivePhases, ReleasedPhases
<1>1. \A w \in YieldIds : In(w, ns)' => In(w, ns)
  BY MoveReceipt DEF In
<1>2. /\ Phase(y)' = phase
      /\ \A w \in YieldIds : w # y => Phase(w)' = Phase(w)
  BY MoveFacts
<1>3. Started(z)
  BY <1>2 DEF Started, Released, ReleasedPhases
<1>4. Phase(x) = "ok"
  BY <1>1, <1>3 DEF OrderedChains
<1>5. x # y
  BY <1>0, <1>4 DEF Live
<1> QED BY <1>2, <1>4, <1>5

\* Only the run in flight has a queue; its own chain pops it and resumes the next.
LEMMA ReleaseAt ==
  ASSUME TypeOK, StrandInv, FinishedRunLeavesNothing, NEW ns \in AutoNamespaces,
         RunInv(ns), NEW y \in YieldIds, In(y, ns), Releases(y)
  PROVE  /\ automation_runs[ns] = "InFlight" /\ Current(y, ns)
         /\ sequence_queue[ns] # <<>> /\ NextEntry(y).yield = y + 1
<1>0. receipts[y] # None /\ receipts[y].ns = ns /\ Phase(y) = "resolve_ok"
  BY DEF In, Releases
<1>1. sequence_queue[ns] # <<>>
  BY <1>0 DEF Releases, Pops
<1>2. automation_runs[ns] = "InFlight"
  BY <1>1 DEF FinishedRunLeavesNothing
<1>3. PICK at \in YieldIds : Current(at, ns)
  BY <1>2 DEF RunInv, InFlightShape
<1>4. Live(y) /\ Phase(y) # "waiting"
  BY <1>0 DEF Live, LivePhases, ReleasedPhases
<1>5. y = at
  BY <1>3, <1>4, FlightFacts
<1> DEFINE h == NextEntry(y).yield
           next == Head(sequence_queue[ns])
<1>6. h \in YieldIds /\ receipts[h] # None /\ receipts[h].ns = ns /\ receipts[h].id = next
  BY <1>0, ReleaseFacts
<1>7. sequence_queue[ns] \in Seq(StepIds)
  BY AutoNamespaceFacts DEF TypeOK
<1>8. 1 \in 1..Len(sequence_queue[ns]) /\ next = sequence_queue[ns][1]
  BY <1>1, <1>7
<1>9. y + 1 \in YieldIds /\ In(y + 1, ns) /\ receipts[y + 1].id = next
  BY <1>3, <1>5, <1>8 DEF Current
<1> HIDE DEF h, next
<1>10. h = y + 1
  BY <1>6, <1>9 DEF RunInv, DistinctChains, In
<1> QED BY <1>1, <1>2, <1>3, <1>5, <1>10 DEF h

LEMMA DeliverKeepsOrder ==
  ASSUME TypeOK, StrandInv, FinishedRunLeavesNothing, NEW ns \in AutoNamespaces,
         RunInv(ns), NEW y \in YieldIds, In(y, ns), Deliver(y)
  PROVE  DistinctChains(ns)' /\ OrderedChains(ns)'
<1>0. receipts[y] # None /\ Live(y) /\ receipts[y].ns = ns
  BY DeliverCases DEF In
<1>1. DistinctChains(ns)'
  BY DeliverChains DEF RunInv, DistinctChains, In
<1>2. ASSUME NEW phase \in Phases, MoveTo(y, phase),
             Released(y) \/ phase \in {"dropped", "halted"}
      PROVE  OrderedChains(ns)'
  <2>1. OrderedChains(ns)
    BY DEF RunInv
  <2> QED BY <1>0, <1>2, <2>1, MoveKeepsOrder
<1>3. ASSUME Moves(y) PROVE OrderedChains(ns)'
  BY <1>2, <1>3, PhaseNames DEF Moves, Phases, LivePhases, EndPhases
<1>4. ASSUME Drops(y) PROVE OrderedChains(ns)'
  BY <1>2, <1>4, PhaseNames DEF Drops
<1>5. ASSUME Halts(y) PROVE OrderedChains(ns)'
  <2>1. PICK phase \in {"halted", "err", "ok"} :
          /\ MoveTo(y, phase)
          /\ phase = "err" => Phase(y) = "resolve_err"
          /\ phase = "ok" => Phase(y) = "resolve_ok"
    BY <1>5 DEF Halts
  <2>2. Released(y) \/ phase \in {"dropped", "halted"}
    BY <2>1 DEF Released, ReleasedPhases
  <2> QED BY <1>2, <2>1, <2>2, PhaseNames
<1>6. ASSUME Completes(y) PROVE OrderedChains(ns)'
  <2>1. MoveTo(y, "ok") /\ Released(y)
    BY <1>6 DEF Completes, CompleteSequence, Released, ReleasedPhases
  <2> QED BY <1>2, <2>1, PhaseNames
<1>7. ASSUME Releases(y) PROVE OrderedChains(ns)'
  <2>1. Current(y, ns) /\ NextEntry(y).yield = y + 1
    BY <1>7, ReleaseAt
  <2>2. /\ y + 1 \in YieldIds
        /\ \A z \in YieldIds : z # y /\ z # y + 1 => receipts'[z] = receipts[z]
        /\ receipts'[y] # None /\ receipts'[y].phase = "ok"
    BY <1>0, <1>7, <2>1, ReleaseFacts
  <2> SUFFICES ASSUME NEW x \in YieldIds, NEW z \in YieldIds, In(x, ns)', In(z, ns)',
                      x < z, Started(z)'
               PROVE  Phase(x)' = "ok"
    BY DEF OrderedChains
  <2>3. In(x, ns) /\ In(z, ns)
    BY DeliverChains DEF In
  <2>4. y < z => z = y + 1
    <3> SUFFICES ASSUME y < z, z # y + 1 PROVE FALSE
      OBVIOUS
    <3>1. Phase(z) = "waiting"
      BY <2>1, <2>3 DEF Current
    <3>2. Phase(z)' = "waiting"
      BY <2>2, <3>1 DEF Phase, YieldIds
    <3> QED BY <3>2 DEF Started, ReleasedPhases
  <2>5. x <= y
    BY <2>4 DEF YieldIds
  <2>6. CASE x = y
    BY <2>2, <2>6 DEF Phase
  <2>7. CASE x < y
    <3>1. Phase(x) = "ok"
      BY <2>1, <2>3, <2>7 DEF Current
    <3> QED BY <2>2, <2>7, <3>1 DEF Phase, YieldIds
  <2> QED BY <2>5, <2>6, <2>7 DEF YieldIds
<1> QED BY <1>1, <1>3, <1>4, <1>5, <1>6, <1>7, DeliverCases

\* A run in flight that moves its chain on is still at it.
LEMMA MoveKeepsCurrent ==
  ASSUME TypeOK, NEW ns \in AutoNamespaces, NEW at \in YieldIds, Current(at, ns),
         NEW phase \in ReleasedPhases \union {"aborted"}, MoveTo(at, phase),
         UNCHANGED contractVars
  PROVE  Current(at, ns)'
<1>0. receipts[at] # None /\ phase \in Phases
  BY PhaseNames DEF Current, In, Phases, LivePhases
<1>1. /\ Phase(at)' = phase
      /\ \A z \in YieldIds : z # at => Phase(z)' = Phase(z)
  BY <1>0, MoveFacts
<1>2. \A z \in YieldIds : In(z, ns)' <=> In(z, ns)
  BY <1>0, MoveReceipt DEF In
<1>3. \A z \in YieldIds : In(z, ns) =>
        receipts'[z].id = receipts[z].id /\ Key(z)' = Key(z)
  BY <1>0, MoveReceipt DEF In, Key
<1>4. \A z \in YieldIds : In(z, ns) => Found(z)' = Found(z)
  BY <1>3 DEF Found, contractVars
<1>5. sequence_queue' = sequence_queue
  BY DEF contractVars
<1>6. In(at, ns)' /\ (Released(at)' \/ Phase(at)' = "aborted") /\ Found(at)' # None
  BY <1>1, <1>2, <1>4 DEF Current, Released
<1>7. ASSUME NEW z \in YieldIds, In(z, ns)'
      PROVE  /\ z < at => Phase(z)' = "ok"
             /\ at < z => /\ Phase(z)' = "waiting" /\ Found(z)' # None
                          /\ z <= at + Len(sequence_queue'[ns])
  <2>1. In(z, ns) /\ (z < at \/ at < z => z # at)
    BY <1>2, <1>7 DEF YieldIds
  <2> QED BY <1>1, <1>4, <1>5, <2>1 DEF Current
<1>8. ASSUME NEW i \in 1..Len(sequence_queue'[ns])
      PROVE  /\ at + i \in YieldIds /\ In(at + i, ns)'
             /\ sequence_queue'[ns][i] = receipts'[at + i].id
  BY <1>2, <1>3, <1>5, <1>8 DEF Current
<1> QED BY <1>6, <1>7, <1>8 DEF Current

\* The chain that is resumed is the one the run is at next.
LEMMA ReleaseKeepsCurrent ==
  ASSUME TypeOK, StrandInv, FinishedRunLeavesNothing, NEW ns \in AutoNamespaces,
         RunInv(ns), NEW y \in YieldIds, In(y, ns), Deliver(y), Releases(y)
  PROVE  y + 1 \in YieldIds /\ Current(y + 1, ns)'
<1> DEFINE h == y + 1
           queue == sequence_queue[ns]
<1>0. receipts[y] # None /\ receipts[y].ns = ns
  BY DEF In
<1>1. Current(y, ns) /\ NextEntry(y).yield = h /\ queue # <<>>
  BY ReleaseAt
<1>2. /\ h \in YieldIds /\ Key(h) # Key(y) /\ registered_steps[Key(h)] # None
      /\ receipts'[h] # None /\ receipts'[h].phase = "resumed"
      /\ receipts'[y] # None /\ receipts'[y].phase = "ok"
      /\ \A z \in YieldIds : z # y /\ z # h => receipts'[z] = receipts[z]
  <2> HIDE DEF h
  <2> QED BY <1>0, <1>1, ReleaseFacts
<1>3. \A z \in YieldIds : In(z, ns)' <=> In(z, ns)
  BY DeliverChains DEF In
<1>4. \A z \in YieldIds : In(z, ns) =>
        receipts'[z].id = receipts[z].id /\ Key(z)' = Key(z)
  BY DeliverChains DEF In, Key
<1>5. registered_steps' = Without(Key(y)) /\ sequence_queue'[ns] = Tail(queue)
  BY <1>0, AutoNamespaceFacts DEF Releases, Pops, TypeOK
<1>6. queue \in Seq(StepIds) /\ Len(queue) \in Nat
  BY AutoNamespaceFacts DEF TypeOK
<1>7. /\ Len(Tail(queue)) = Len(queue) - 1
      /\ \A i \in 1..Len(Tail(queue)) : i + 1 \in 1..Len(queue) /\ Tail(queue)[i] = queue[i + 1]
  BY <1>1, <1>6
<1>8. ASSUME NEW z \in YieldIds, In(z, ns), Found(z) # None, Key(z) # Key(y)
      PROVE  Found(z)' # None
  <2>1. Key(z) \in Keys
    BY <1>8, KeyType DEF In
  <2> QED BY <1>4, <1>5, <1>8, <2>1 DEF Found, Without, TypeOK
<1>9. In(h, ns)
  <2>1. receipts[h] # None /\ receipts[h].ns = ns
    BY <1>0, <1>1, ReleaseFacts
  <2> QED BY <2>1 DEF In
<1>10. In(h, ns)' /\ Released(h)' /\ Found(h)' # None
  <2>1. In(h, ns)'
    BY <1>2, <1>3, <1>9
  <2>2. Released(h)'
    BY <1>2 DEF Released, ReleasedPhases, Phase
  <2>3. Found(h)' # None
    BY <1>2, <1>8, <1>9 DEF Found
  <2> QED BY <2>1, <2>2, <2>3
<1>11. ASSUME NEW z \in YieldIds, In(z, ns)'
       PROVE  /\ z < h => Phase(z)' = "ok"
              /\ h < z => /\ Phase(z)' = "waiting" /\ Found(z)' # None
                          /\ z <= h + Len(sequence_queue'[ns])
  <2>0. In(z, ns)
    BY <1>3, <1>11
  <2>1. CASE z = y
    <3>1. Phase(z)' = "ok" /\ ~(h < z)
      BY <1>2, <2>1 DEF Phase, YieldIds
    <3> QED BY <3>1
  <2>2. CASE z = h
    <3>1. ~(z < h) /\ ~(h < z)
      BY <2>2 DEF YieldIds
    <3> QED BY <3>1
  <2>3. CASE z < y
    <3>1. Phase(z)' = Phase(z) /\ ~(h < z)
      BY <1>2, <2>3 DEF Phase, YieldIds
    <3> QED BY <1>1, <2>0, <2>3, <3>1 DEF Current
  <2>4. CASE h < z
    <3>0. y < z /\ Phase(z)' = Phase(z) /\ ~(z < h)
      BY <1>2, <2>4 DEF Phase, YieldIds
    <3>1. Phase(z) = "waiting" /\ Found(z) # None /\ z <= y + Len(queue)
      BY <1>1, <2>0, <3>0 DEF Current
    <3>2. Key(z) # Key(y)
      <4>1. y # z
        BY <3>0 DEF YieldIds
      <4>2. receipts[y].id # receipts[z].id
        BY <2>0, <4>1 DEF RunInv, DistinctChains
      <4> QED BY <4>2 DEF Key
    <3>3. z <= h + Len(sequence_queue'[ns])
      <4>1. Len(sequence_queue'[ns]) = Len(queue) - 1
        BY <1>5, <1>7
      <4>2. z \in Nat /\ y \in Nat /\ h = y + 1
        BY DEF YieldIds
      <4>3. z <= y + Len(queue) /\ Len(queue) \in Nat
        BY <1>6, <3>1
      <4> DEFINE before == Len(queue)
                 after == Len(sequence_queue'[ns])
      <4> HIDE DEF h, before, after
      <4>4. after = before - 1 /\ z <= y + before /\ before \in Nat
        BY <4>1, <4>3 DEF before, after
      <4>5. z <= h + after
        BY ONLY <4>2, <4>4
      <4> QED BY <4>5 DEF after
    <3> QED BY <1>8, <2>0, <2>4, <3>0, <3>1, <3>2, <3>3
  <2>5. z = y \/ z = h \/ z < y \/ h < z
    <3> QED BY ONLY y \in YieldIds, z \in YieldIds, BoundsAssumption DEF YieldIds
  <2> QED BY <2>1, <2>2, <2>3, <2>4, <2>5
<1>12. ASSUME NEW i \in 1..Len(sequence_queue'[ns])
       PROVE  /\ h + i \in YieldIds /\ In(h + i, ns)'
              /\ sequence_queue'[ns][i] = receipts'[h + i].id
  <2>1. i + 1 \in 1..Len(queue) /\ sequence_queue'[ns][i] = queue[i + 1]
    BY <1>5, <1>7, <1>12
  <2>2. h + i = y + (i + 1)
    BY <1>12 DEF YieldIds
  <2>3. /\ y + (i + 1) \in YieldIds /\ In(y + (i + 1), ns)
        /\ queue[i + 1] = receipts[y + (i + 1)].id
    BY <1>1, <2>1 DEF Current
  <2>4. In(y + (i + 1), ns)' /\ receipts'[y + (i + 1)].id = receipts[y + (i + 1)].id
    BY <1>3, <1>4, <2>3
  <2> QED BY <2>1, <2>2, <2>3, <2>4
<1>13. Current(h, ns)'
  <2> HIDE DEF h
  <2> QED BY <1>10, <1>11, <1>12 DEF Current
<1> QED BY <1>2, <1>13

\* A callback that ends a chain of the run in flight finishes its row.
LEMMA EndsRow ==
  ASSUME TypeOK, NEW ns \in AutoNamespaces, NEW y \in YieldIds, In(y, ns),
         automation_runs[ns] = "InFlight"
  PROVE  /\ Completes(y) => automation_runs'[ns] = "Succeeded"
         /\ Halts(y) => automation_runs'[ns] \notin {"InFlight", "Succeeded"}
<1>0. receipts[y].ns = ns /\ ns \in Namespaces
  BY AutoNamespaceFacts DEF In
<1>1. ASSUME Completes(y) PROVE automation_runs'[ns] = "Succeeded"
  BY <1>0, <1>1 DEF Completes, CompleteSequence, finish_automation_run, TypeOK
<1>2. ASSUME Halts(y) PROVE automation_runs'[ns] \notin {"InFlight", "Succeeded"}
  <2>1. PICK status \in Ended \ {"Succeeded"} : Halt(ns, status, Without(Key(y)))
    BY <1>0, <1>2 DEF Halts
  <2>2. automation_runs'[ns] = status
    BY <1>0, <2>1 DEF Halt, finish_automation_run, TypeOK
  <2> QED BY <2>2 DEF Ended
<1> QED BY <1>1, <1>2

\* A row that no run has in flight keeps its status.
LEMMA KeepsRow ==
  ASSUME TypeOK, NEW ns \in AutoNamespaces, NEW y \in YieldIds, In(y, ns), Deliver(y),
         automation_runs[ns] # "InFlight"
  PROVE  automation_runs'[ns] = automation_runs[ns]
<1>0. receipts[y].ns = ns
  BY DEF In
<1>1. ASSUME NEW status, finish_automation_run(ns, status, Without(Key(y)))
      PROVE  automation_runs'[ns] = automation_runs[ns]
  BY <1>1 DEF finish_automation_run
<1> QED BY <1>0, <1>1, CallbackOutcomes DEF contractVars, Halt, Pops, CompleteSequence

LEMMA DeliverKeepsFlight ==
  ASSUME TypeOK, StrandInv, FinishedRunLeavesNothing, NEW ns \in AutoNamespaces,
         RunInv(ns), NEW y \in YieldIds, In(y, ns), Deliver(y)
  PROVE  InFlightShape(ns)'
<1> SUFFICES ASSUME automation_runs'[ns] = "InFlight"
             PROVE  \E at \in YieldIds : Current(at, ns)'
  BY DEF InFlightShape
<1>0. Live(y) /\ receipts[y] # None /\ receipts[y].ns = ns
  BY DeliverCases DEF In
<1>1. automation_runs[ns] = "InFlight"
  BY KeepsRow
<1>2. PICK at \in YieldIds : Current(at, ns)
  BY <1>1 DEF RunInv, InFlightShape
<1>3. /\ Found(y) # None /\ Found(y).yield = y
      /\ y # at => at < y /\ Phase(y) = "waiting"
  BY <1>0, <1>2, FlightFacts
<1>4. ASSUME Moves(y) PROVE Current(at, ns)'
  <2>1. PICK phase \in ReleasedPhases \union {"aborted"} : MoveTo(y, phase)
    BY <1>4 DEF Moves
  <2>2. y = at /\ UNCHANGED contractVars
    BY <1>3, <1>4 DEF Moves, Released, ReleasedPhases
  <2> QED BY <1>2, <2>1, <2>2, MoveKeepsCurrent
<1>5. ASSUME Drops(y) PROVE FALSE
  <2>1. Phase(y) = "gate" /\ ~Found(y).call.gated
    BY <1>3, <1>5 DEF Drops
  <2>2. Key(y) \in Keys
    BY <1>0, KeyType
  <2> QED BY <1>0, <1>3, <2>1, <2>2 DEF StrandInv, StrandIn, Found, Phase
<1>6. ~Halts(y) /\ ~Completes(y)
  BY <1>1, EndsRow
<1>7. ASSUME Releases(y) PROVE y + 1 \in YieldIds /\ Current(y + 1, ns)'
  BY <1>7, ReleaseKeepsCurrent
<1> QED BY <1>4, <1>5, <1>6, <1>7, DeliverCases

LEMMA DeliverKeepsSuccess ==
  ASSUME TypeOK, StrandInv, FinishedRunLeavesNothing, NEW ns \in AutoNamespaces,
         RunInv(ns), NEW y \in YieldIds, In(y, ns), Deliver(y)
  PROVE  SuccessIsReal(ns)'
<1> SUFFICES ASSUME automation_runs'[ns] = "Succeeded", NEW z \in YieldIds, In(z, ns)'
             PROVE  Phase(z)' = "ok"
  BY DEF SuccessIsReal
<1>0. Live(y) /\ receipts[y] # None /\ receipts[y].ns = ns
  BY DeliverCases DEF In
<1>1. automation_runs[ns] = "InFlight"
  <2> SUFFICES ASSUME automation_runs[ns] # "InFlight" PROVE FALSE
    OBVIOUS
  <2>1. automation_runs[ns] = "Succeeded"
    BY KeepsRow
  <2>2. Phase(y) = "ok"
    BY <2>1 DEF RunInv, SuccessIsReal
  <2> QED BY <1>0, <2>2 DEF Live, LivePhases, ReleasedPhases
<1>2. PICK at \in YieldIds : Current(at, ns)
  BY <1>1 DEF RunInv, InFlightShape
<1>3. Completes(y)
  <2>1. ASSUME Moves(y) \/ Drops(y) \/ Releases(y) PROVE FALSE
    <3>1. automation_runs' = automation_runs
      BY <2>1 DEF Moves, Drops, Releases, Pops, contractVars
    <3> QED BY <1>1, <3>1
  <2> QED BY <1>1, <2>1, DeliverCases, EndsRow
<1>4. Phase(y) = "resolve_ok" /\ sequence_queue[ns] = <<>> /\ MoveTo(y, "ok")
  BY <1>0, <1>3 DEF Completes, CompleteSequence
<1>5. y = at
  BY <1>0, <1>2, <1>4, FlightFacts
<1>6. /\ Phase(y)' = "ok" /\ In(z, ns)
      /\ \A w \in YieldIds : w # y => Phase(w)' = Phase(w)
  <2>1. In(z, ns)
    BY DeliverChains DEF In
  <2> QED BY <1>0, <1>4, <2>1, MoveFacts, PhaseNames
<1>7. ~(at < z)
  <2>1. at < z => z <= at + 0
    BY <1>2, <1>4, <1>6 DEF Current
  <2> QED BY ONLY <2>1, at \in YieldIds, z \in YieldIds, BoundsAssumption DEF YieldIds
<1>8. z < at \/ z = at
  BY <1>7 DEF YieldIds
<1> QED BY <1>2, <1>5, <1>6, <1>8 DEF Current

LEMMA DeliverKeepsRun ==
  ASSUME TypeOK, StrandInv, FinishedRunLeavesNothing, NEW ns \in AutoNamespaces,
         RunInv(ns), NEW y \in YieldIds, Deliver(y)
  PROVE  RunInv(ns)'
<1>0. receipts[y] # None
  BY DeliverCases
<1>1. CASE In(y, ns)
  BY <1>1, DeliverKeepsOrder, DeliverKeepsFlight, DeliverKeepsSuccess DEF RunInv
<1>2. CASE ~In(y, ns)
  BY <1>0, <1>2, DeliverFrozen, FrozenKeepsRun, AutoNamespaceFacts DEF In
<1> QED BY <1>1, <1>2

----------------------------------------------------------------------------
(* execute_trigger in a namespace that no chain is in yet.                 *)

\* Each id of a plan is registered under the yield made for it.
LEMMA RegisteredEntry ==
  ASSUME TypeOK, NEW ns \in Namespaces, NEW plan \in Seq(Steps), DistinctIds(plan),
         CanRegister(ns, plan), NEW i \in DOMAIN plan
  PROVE  /\ <<ns, plan[i].id>> \in Keys /\ next_yield + i - 1 \in YieldIds
         /\ Registered(ns, plan)[<<ns, plan[i].id>>] = [yield |-> next_yield + i - 1, call |-> plan[i]]
         /\ Registered(ns, plan)[<<ns, plan[i].id>>] # None
<1> DEFINE k == <<ns, plan[i].id>>
           j == CHOOSE j \in DOMAIN plan : plan[j].id = k[2]
<1>1. plan[i] \in Steps /\ k \in Keys
  BY StepFields DEF Keys
<1>2. j \in DOMAIN plan /\ plan[j].id = plan[i].id
  OBVIOUS
<1>3. j = i
  <2> HIDE DEF j
  <2> QED BY <1>2 DEF DistinctIds
<1>4. k[1] = ns /\ \E m \in DOMAIN plan : plan[m].id = k[2]
  OBVIOUS
<1>5. Registered(ns, plan)[k] = [yield |-> next_yield + j - 1, call |-> plan[j]]
  BY <1>1, <1>4 DEF Registered
<1>6. next_yield + i - 1 \in YieldIds
  <2>1. /\ next_yield \in Nat /\ next_yield >= 1 /\ MaxYields \in Nat
        /\ next_yield + Len(plan) - 1 <= MaxYields
    BY BoundsAssumption DEF TypeOK, CanRegister
  <2>2. Len(plan) \in Nat /\ i \in 1..Len(plan)
    OBVIOUS
  <2> QED BY ONLY <2>1, <2>2 DEF YieldIds
<1>7. [yield |-> next_yield + i - 1, call |-> plan[i]] # None
  BY <1>1, <1>6, NoneAssumption DEF RegisteredStep
<1> QED BY <1>1, <1>3, <1>5, <1>6, <1>7

LEMMA YieldedEntry ==
  ASSUME TypeOK, NEW ns \in Namespaces, NEW plan \in Seq(Steps), CanRegister(ns, plan),
         NEW y \in YieldIds
  PROVE  /\ y \in next_yield..(next_yield + Len(plan) - 1) =>
              /\ y - next_yield + 1 \in DOMAIN plan
              /\ Yielded(ns, plan)[y] =
                   [ns |-> ns, id |-> plan[y - next_yield + 1].id, phase |-> "waiting"]
         /\ y \notin next_yield..(next_yield + Len(plan) - 1) =>
              Yielded(ns, plan)[y] = receipts[y]
<1>1. next_yield \in Nat /\ Len(plan) \in Nat /\ DOMAIN plan = 1..Len(plan)
  BY DEF TypeOK
<1>2. y \in next_yield..(next_yield + Len(plan) - 1) => y - next_yield + 1 \in 1..Len(plan)
  BY ONLY <1>1, y \in YieldIds, BoundsAssumption DEF YieldIds
<1> QED BY <1>1, <1>2 DEF Yielded

\* What execute_trigger leaves in the namespace of its run: the chains of the plan,
\* the first resumed and the others waiting.
LEMMA ExecuteChains ==
  ASSUME AutomationTypeOK, StrandInv, NEW who, NEW pk, NEW t \in Triggers,
         execute_trigger(who, pk, t), NEW ns, NEW plan,
         ns = automation_namespace(t, balance_triggers[t].runs_started + 1),
         plan = sequence_templates[balance_triggers[t].sequence],
         \A z \in YieldIds : ~In(z, ns)
  PROVE  /\ plan \in Plans /\ ns \in AutoNamespaces /\ automation_runs'[ns] = "InFlight"
         /\ next_yield \in YieldIds /\ next_yield + Len(plan) - 1 \in YieldIds
         /\ \A z \in YieldIds :
              In(z, ns)' <=> z \in next_yield..(next_yield + Len(plan) - 1)
         /\ \A z \in next_yield..(next_yield + Len(plan) - 1) :
              /\ z - next_yield + 1 \in DOMAIN plan
              /\ receipts'[z].id = plan[z - next_yield + 1].id
              /\ Found(z)' # None
              /\ Phase(z)' = IF z = next_yield THEN "resumed" ELSE "waiting"
         /\ sequence_queue'[ns] = Tail(IdsOf(plan))
         /\ \A z \in YieldIds \ (next_yield..(next_yield + Len(plan) - 1)) :
              receipts'[z] = receipts[z]
         /\ StartRelease(ns, IdsOf(plan), Registered(ns, plan), Yielded(ns, plan))
<1> DEFINE reg == Registered(ns, plan)
           rcpts == Yielded(ns, plan)
           order == IdsOf(plan)
           range == next_yield..(next_yield + Len(plan) - 1)
<1>0. TypeOK
  BY DEF AutomationTypeOK
<1>1. plan \in Plans /\ ns \in AutoNamespaces /\ ns \in Namespaces
  BY ExecuteFacts, AutoNamespaceFacts
<1>2. CanRegister(ns, plan) /\ StartRelease(ns, order, reg, rcpts)
  BY DEF execute_trigger
<1>3. /\ plan \in Seq(Steps) /\ Len(plan) \in Nat /\ Len(plan) > 0 /\ DistinctIds(plan)
      /\ DOMAIN plan = 1..Len(plan)
  BY <1>1, PlanFacts
<1>4. automation_runs'[ns] = "InFlight"
  BY <1>0, <1>1 DEF execute_trigger, TypeOK
<1>5. /\ next_yield \in Nat /\ next_yield \in YieldIds
      /\ next_yield + Len(plan) - 1 \in YieldIds /\ range \subseteq YieldIds
      /\ next_yield \in range
  <2>1. /\ next_yield \in Nat /\ next_yield >= 1 /\ MaxYields \in Nat
        /\ next_yield + Len(plan) - 1 <= MaxYields
    BY <1>0, <1>2, BoundsAssumption DEF TypeOK, CanRegister
  <2> QED BY ONLY <1>3, <2>1 DEF YieldIds
<1>6. \A i \in DOMAIN plan :
        /\ <<ns, plan[i].id>> \in Keys /\ reg[<<ns, plan[i].id>>] # None
        /\ reg[<<ns, plan[i].id>>].yield = next_yield + i - 1
  <2> SUFFICES ASSUME NEW i \in DOMAIN plan
               PROVE  /\ <<ns, plan[i].id>> \in Keys /\ reg[<<ns, plan[i].id>>] # None
                      /\ reg[<<ns, plan[i].id>>].yield = next_yield + i - 1
    OBVIOUS
  <2>1. /\ <<ns, plan[i].id>> \in Keys /\ reg[<<ns, plan[i].id>>] # None
        /\ reg[<<ns, plan[i].id>>] = [yield |-> next_yield + i - 1, call |-> plan[i]]
    BY <1>0, <1>1, <1>2, <1>3, RegisteredEntry
  <2> HIDE DEF reg
  <2> QED BY <2>1
<1>7. \A z \in YieldIds :
        /\ z \in range => /\ z - next_yield + 1 \in DOMAIN plan
                          /\ rcpts[z] = [ns |-> ns, id |-> plan[z - next_yield + 1].id,
                                         phase |-> "waiting"]
        /\ z \notin range => rcpts[z] = receipts[z]
  BY <1>0, <1>1, <1>2, <1>3, YieldedEntry
<1>8. /\ reg \in [Keys -> RegisteredStep \union {None}]
      /\ rcpts \in [YieldIds -> Receipt \union {None}]
      /\ StrandIn(reg, rcpts, next_yield + Len(plan))
  BY <1>0, <1>1, <1>2, <1>3, RegisterType, RegisterStrand
<1>9. order \in Seq(StepIds) /\ order # <<>> /\ Head(order) = plan[1].id
  BY <1>3, IdsOfType DEF IdsOf
<1>10. reg[<<ns, Head(order)>>].yield = next_yield
  <2> HIDE DEF reg, order
  <2>1. 1 \in DOMAIN plan
    BY <1>3
  <2>2. reg[<<ns, plan[1].id>>].yield = next_yield + 1 - 1
    BY ONLY <1>6, <2>1
  <2>3. next_yield + 1 - 1 = next_yield
    BY ONLY <1>5
  <2> QED BY ONLY <1>9, <2>2, <2>3
<1>11. /\ receipts'[next_yield] = [rcpts[next_yield] EXCEPT !.phase = "resumed"]
       /\ \A z \in YieldIds : z # next_yield => receipts'[z] = rcpts[z]
  <2> HIDE DEF reg, rcpts, order
  <2>1. Fits(reg, rcpts, next_yield + Len(plan))
    BY <1>8 DEF Fits
  <2>2. ResumesHead(ns, order, reg, rcpts)
    BY <1>1, <1>2, <1>9, <2>1, StartHead
  <2> QED BY ONLY <1>10, <2>2 DEF ResumesHead
<1> HIDE DEF rcpts, order
<1>12. ASSUME NEW z \in range
       PROVE  /\ receipts'[z] # None /\ receipts'[z].ns = ns
              /\ z - next_yield + 1 \in DOMAIN plan
              /\ receipts'[z].id = plan[z - next_yield + 1].id
              /\ Phase(z)' = IF z = next_yield THEN "resumed" ELSE "waiting"
  <2>1. /\ z \in YieldIds /\ z - next_yield + 1 \in DOMAIN plan
        /\ rcpts[z] = [ns |-> ns, id |-> plan[z - next_yield + 1].id, phase |-> "waiting"]
    BY <1>5, <1>7
  <2>2. rcpts[z] \in Receipt
    <3>1. plan[z - next_yield + 1].id \in StepIds
      BY <1>3, <2>1, StepFields
    <3> QED BY <1>1, <2>1, <3>1, PhaseNames DEF Receipt
  <2>3. receipts'[z] = [ns |-> ns, id |-> plan[z - next_yield + 1].id,
                        phase |-> IF z = next_yield THEN "resumed" ELSE "waiting"]
    BY <1>11, <2>1
  <2>4. receipts'[z] \in Receipt
    BY <2>1, <2>2, <2>3, PhaseNames DEF Receipt
  <2> QED BY <2>1, <2>3, <2>4, NoneAssumption DEF Phase
<1>13. ASSUME NEW z \in range
       PROVE  Found(z)' # None
  <2>1. registered_steps' = reg
    BY <1>2 DEF StartRelease
  <2>2. Found(z)' = reg[<<ns, plan[z - next_yield + 1].id>>]
    BY <1>12, <2>1 DEF Found, Key
  <2> QED BY <1>6, <1>12, <2>2
<1>14. \A z \in YieldIds \ range : receipts'[z] = receipts[z]
  BY <1>5, <1>7, <1>11
<1>15. \A z \in YieldIds : In(z, ns)' <=> z \in range
  BY <1>5, <1>12, <1>14 DEF In
<1>16. sequence_queue'[ns] = Tail(order)
  BY <1>0, <1>1, <1>2 DEF StartRelease, TypeOK
<1> QED BY <1>1, <1>2, <1>4, <1>5, <1>12, <1>13, <1>14, <1>15, <1>16 DEF order, rcpts

LEMMA ExecuteStartsRun ==
  ASSUME AutomationTypeOK, StrandInv, NEW who, NEW pk, NEW t \in Triggers,
         execute_trigger(who, pk, t), NEW ns, NEW plan,
         plan = sequence_templates[balance_triggers[t].sequence],
         ns = automation_namespace(t, balance_triggers[t].runs_started + 1),
         \A z \in YieldIds : ~In(z, ns)
  PROVE  RunInv(ns)'
<1>0. PICK at : at = next_yield
  OBVIOUS
<1> DEFINE last == at + Len(plan) - 1
<1>1. /\ plan \in Plans /\ ns \in AutoNamespaces /\ automation_runs'[ns] = "InFlight"
      /\ at \in YieldIds /\ last \in YieldIds
      /\ \A z \in YieldIds : In(z, ns)' <=> z \in at..last
      /\ \A z \in at..last :
           /\ z - at + 1 \in DOMAIN plan
           /\ receipts'[z].id = plan[z - at + 1].id
           /\ Found(z)' # None
           /\ Phase(z)' = IF z = at THEN "resumed" ELSE "waiting"
      /\ sequence_queue'[ns] = Tail(IdsOf(plan))
  BY <1>0, ExecuteChains
<1>2. /\ plan \in Seq(Steps) /\ Len(plan) \in Nat /\ Len(plan) > 0 /\ DistinctIds(plan)
      /\ DOMAIN plan = 1..Len(plan)
  BY <1>1, PlanFacts
<1>3. at \in Nat /\ last \in Nat /\ at \in at..last
  BY <1>1, <1>2 DEF YieldIds
<1>4. DistinctChains(ns)'
  <2> SUFFICES ASSUME NEW y \in YieldIds, NEW z \in YieldIds, In(y, ns)', In(z, ns)',
                      receipts'[y].id = receipts'[z].id
               PROVE  y = z
    BY DEF DistinctChains
  <2>1. y \in at..last /\ z \in at..last
    BY <1>1
  <2>2. y - at + 1 = z - at + 1
    <3>1. /\ y - at + 1 \in DOMAIN plan /\ z - at + 1 \in DOMAIN plan
          /\ plan[y - at + 1].id = plan[z - at + 1].id
      BY <1>1, <2>1
    <3> QED BY ONLY <1>2, <3>1 DEF DistinctIds
  <2> QED BY ONLY <2>2, <1>3, <2>1
<1>5. OrderedChains(ns)'
  <2> SUFFICES ASSUME NEW y \in YieldIds, NEW z \in YieldIds, In(y, ns)', In(z, ns)',
                      y < z, Started(z)'
               PROVE  FALSE
    BY DEF OrderedChains
  <2>1. y \in at..last /\ z \in at..last
    BY <1>1
  <2>2. z # at
    BY ONLY <2>1, <1>3, y < z
  <2>3. Phase(z)' = "waiting"
    BY <1>1, <2>1, <2>2
  <2> QED BY <2>3 DEF Started, ReleasedPhases
<1>6. Current(at, ns)'
  <2> DEFINE ids == IdsOf(plan)
  <2>1. ids \in Seq(StepIds) /\ Len(ids) = Len(plan) /\ ids # <<>>
        /\ \A i \in DOMAIN plan : ids[i] = plan[i].id
    <3>1. ids \in Seq(StepIds) /\ DOMAIN ids = DOMAIN plan
      BY <1>2, IdsOfType
    <3>2. \A i \in DOMAIN plan : ids[i] = plan[i].id
      BY DEF IdsOf
    <3>3. DOMAIN ids = 1..Len(ids) /\ Len(ids) \in Nat
      BY ONLY <3>1
    <3>4. Len(ids) = Len(plan)
      BY ONLY <1>2, <3>1, <3>3
    <3> QED BY ONLY <1>2, <3>1, <3>2, <3>4
  <2> HIDE DEF ids
  <2>2. /\ Len(Tail(ids)) = Len(plan) - 1
        /\ \A i \in 1..Len(Tail(ids)) : i + 1 \in DOMAIN plan /\ Tail(ids)[i] = plan[i + 1].id
    BY <1>2, <2>1
  <2>3. sequence_queue'[ns] = Tail(ids) /\ Len(sequence_queue'[ns]) = Len(plan) - 1
    BY <1>1, <2>2 DEF ids
  <2>4. Released(at)'
    BY <1>1, <1>3 DEF Released, ReleasedPhases
  <2>5. In(at, ns)' /\ Found(at)' # None
    BY <1>1, <1>3
  <2>6. ASSUME NEW z \in YieldIds, In(z, ns)'
        PROVE  /\ ~(z < at)
               /\ at < z => /\ Phase(z)' = "waiting" /\ Found(z)' # None
                                    /\ z <= at + Len(sequence_queue'[ns])
    <3>1. z \in at..last
      BY <1>1, <2>6
    <3>2. ~(z < at) /\ z <= at + (Len(plan) - 1)
      BY ONLY <1>2, <1>3, <3>1
    <3>3. at < z => z # at
      BY ONLY <1>3
    <3> QED BY <1>1, <2>3, <3>1, <3>2, <3>3
  <2>7. ASSUME NEW i \in 1..Len(sequence_queue'[ns])
        PROVE  /\ at + i \in YieldIds /\ In(at + i, ns)'
               /\ sequence_queue'[ns][i] = receipts'[at + i].id
    <3>1. i \in 1..(Len(plan) - 1) /\ i + 1 \in DOMAIN plan
          /\ sequence_queue'[ns][i] = plan[i + 1].id
      BY <2>2, <2>3
    <3>2. /\ at + i \in at..last
          /\ (at + i) - at + 1 = i + 1
      BY ONLY <1>2, <1>3, <3>1
    <3>3. at + i \in YieldIds
      <4>1. last \in 1..MaxYields /\ at \in 1..MaxYields
        BY <1>1 DEF YieldIds
      <4> QED BY ONLY <3>2, <4>1, <1>3, BoundsAssumption DEF YieldIds
    <3>4. receipts'[at + i].id = plan[i + 1].id
      BY <1>1, <3>2
    <3> QED BY <1>1, <3>1, <3>2, <3>3, <3>4
  <2> QED BY <2>4, <2>5, <2>6, <2>7 DEF Current
<1>7. InFlightShape(ns)' /\ SuccessIsReal(ns)'
  BY <1>1, <1>6 DEF InFlightShape, SuccessIsReal
<1> QED BY <1>4, <1>5, <1>7 DEF RunInv

----------------------------------------------------------------------------
(* Every other step of the smart account leaves the namespace alone.       *)

\* The steps of the owner, of sessions and of pruning touch no namespace.
Calm ==
  /\ UNCHANGED <<registered_steps, sequence_queue, sequence_contexts, receipts, next_yield,
                 ordered, releases>>
  /\ \A ns \in AutoNamespaces :
       \/ automation_runs'[ns] = automation_runs[ns]
       \/ automation_runs[ns] # "InFlight" /\ automation_runs'[ns] = None

Executes ==
  \E who \in Accounts, pk \in PublicKeys \union {None}, t \in Triggers :
    execute_trigger(who, pk, t)

LEMMA StepCases ==
  ASSUME AutomationTypeOK, [SmartAccountNext]_automationVars
  PROVE  \/ Calm
         \/ Manual /\ UNCHANGED creations
         \/ \E y \in YieldIds : Deliver(y) /\ UNCHANGED creations
         \/ Executes /\ UNCHANGED creations
<1>0. \A ns \in AutoNamespaces : ns \in Namespaces
  BY AutoNamespaceFacts
<1>1. ASSUME NEW q \in SequenceIds,
             (\E plan \in Plans : save_sequence_template(q, plan))
               \/ delete_sequence_template(q)
      PROVE  Calm
  BY <1>1 DEF save_sequence_template, delete_sequence_template, sequencerVars, vars,
              contractVars, historyVars, Calm
<1>2. ASSUME NEW t \in Triggers, NEW q \in SequenceIds, NEW min \in Minima,
             NEW max \in 0..MaxNonce, create_balance_trigger(t, q, min, max)
      PROVE  Calm
  BY <1>2 DEF create_balance_trigger, UNCHANGED_BUT_TRIGGERS, historyVars, Calm
<1>3. ASSUME NEW t \in Triggers, delete_balance_trigger(t)
      PROVE  Calm
  BY <1>3 DEF delete_balance_trigger, UNCHANGED_BUT_TRIGGERS, historyVars, Calm
<1>4. ASSUME Executes PROVE UNCHANGED creations
  BY <1>4 DEF Executes, execute_trigger, templateVars
<1>5. ASSUME prune_finished_automation_runs PROVE Calm
  <2>1. UNCHANGED <<registered_steps, sequence_queue, sequence_contexts, receipts,
                    next_yield, ordered, releases>>
    BY <1>5 DEF prune_finished_automation_runs, UNCHANGED_BUT_TRIGGERS, historyVars
  <2>2. \A ns \in AutoNamespaces :
          automation_runs'[ns] = IF automation_runs[ns] = "InFlight" THEN "InFlight" ELSE None
    BY <1>0, <1>5 DEF prune_finished_automation_runs
  <2> QED BY <2>1, <2>2 DEF Calm
<1>6. CASE SequencerNext
  <2>1. UNCHANGED creations
    BY <1>6 DEF SequencerNext, templateVars
  <2>2. ASSUME NEW amount \in 1..MaxBalance, Credit(amount) PROVE Calm
    BY <2>2 DEF Credit, contractVars, historyVars, Calm
  <2> QED BY <1>6, <2>1, <2>2 DEF SequencerNext, Next, Runtime
<1>7. ASSUME SessionNext \/ UNCHANGED automationVars PROVE Calm
  BY <1>7 DEF SessionNext, automationVars, sequencerVars, vars, contractVars, historyVars, Calm
<1> QED BY <1>1, <1>2, <1>3, <1>4, <1>5, <1>6, <1>7
        DEF SmartAccountNext, AutomationNext, Executes

LEMMA CalmFrozen ==
  ASSUME Calm, NEW ns \in AutoNamespaces
  PROVE  Frozen(ns)
BY DEF Calm, Frozen, SameChains, Untouched, In

LEMMA SelfSame ==
  ASSUME NEW ns
  PROVE  SameChains(ns, receipts)
BY DEF SameChains, In

LEMMA ManualFrozen ==
  ASSUME TypeOK, StrandInv, Manual, NEW ns \in AutoNamespaces
  PROVE  Frozen(ns)
<1>0. /\ ns \notin ManualNamespaces
      /\ \A caller \in Callers : /\ manual_namespace(caller) \in Namespaces
                                 /\ manual_namespace(caller) # ns
  BY AutoNamespaceFacts DEF ManualNamespaces, Namespaces
<1>1. ASSUME UNCHANGED receipts PROVE SameChains(ns, receipts')
  BY <1>1, SelfSame DEF SameChains
<1>2. ASSUME NEW account, set_authorized_executor(account)
      PROVE  SameChains(ns, receipts')
  BY <1>1, <1>2 DEF set_authorized_executor
<1>3. ASSUME NEW caller \in Callers, NEW step \in Steps, register_step(caller, step)
      PROVE  SameChains(ns, receipts')
  <2> DEFINE m == manual_namespace(caller)
  <2>1. /\ <<step>> \in Seq(Steps) /\ m \in Namespaces /\ m # ns
        /\ CanRegister(m, <<step>>) /\ receipts' = Yielded(m, <<step>>)
    BY <1>0, <1>3 DEF register_step
  <2> HIDE DEF m
  <2> QED BY <2>1, RegisterSameChains
<1>4. ASSUME NEW caller \in Callers, NEW plan \in Plans, execute_steps(caller, plan)
      PROVE  SameChains(ns, receipts')
  <2> DEFINE m == manual_namespace(caller)
             reg == Registered(m, plan)
             rcpts == Yielded(m, plan)
  <2>1. plan \in Seq(Steps) /\ m \in Namespaces /\ m # ns
    BY <1>0, PlanFacts
  <2>2. CanRegister(m, plan) /\ StartRelease(m, IdsOf(plan), reg, rcpts)
    BY <1>4 DEF execute_steps
  <2>3. /\ reg \in [Keys -> RegisteredStep \union {None}]
        /\ rcpts \in [YieldIds -> Receipt \union {None}]
        /\ StrandIn(reg, rcpts, next_yield + Len(plan)) /\ SameChains(ns, rcpts)
    BY <2>1, <2>2, RegisterType, RegisterStrand, RegisterSameChains
  <2>4. IdsOf(plan) \in Seq(StepIds)
    BY <2>1, IdsOfType
  <2> HIDE DEF m, reg, rcpts
  <2> QED BY <2>1, <2>2, <2>3, <2>4, StartSameChains
<1>5. ASSUME NEW who \in Accounts, NEW caller \in Callers, NEW order \in Orders,
             run_sequence(who, caller, order)
      PROVE  SameChains(ns, receipts')
  <2> DEFINE m == manual_namespace(caller)
  <2>1. m \in Namespaces /\ m # ns /\ order \in Seq(StepIds)
    BY <1>0, PlansAssumption
  <2>2. StartRelease(m, order, registered_steps, receipts)
    BY <1>5 DEF run_sequence
  <2>3. /\ registered_steps \in [Keys -> RegisteredStep \union {None}]
        /\ receipts \in [YieldIds -> Receipt \union {None}]
        /\ StrandIn(registered_steps, receipts, next_yield) /\ SameChains(ns, receipts)
    BY SelfSame DEF TypeOK, StrandInv
  <2> HIDE DEF m
  <2> QED BY <2>1, <2>2, <2>3, StartSameChains
<1>6. SameChains(ns, receipts')
  BY <1>2, <1>3, <1>4, <1>5 DEF Manual
<1> QED BY <1>6, ManualUntouched DEF Frozen

LEMMA ExecuteFrozen ==
  ASSUME AutomationTypeOK, StrandInv, NEW who, NEW pk, NEW t \in Triggers,
         execute_trigger(who, pk, t), NEW ns \in Namespaces,
         ns # automation_namespace(t, balance_triggers[t].runs_started + 1)
  PROVE  Frozen(ns)
<1> DEFINE m == automation_namespace(t, balance_triggers[t].runs_started + 1)
           plan == sequence_templates[balance_triggers[t].sequence]
           reg == Registered(m, plan)
           rcpts == Yielded(m, plan)
<1>1. m \in AutoNamespaces /\ m \in Namespaces /\ plan \in Plans /\ TypeOK
  BY ExecuteFacts, AutoNamespaceFacts DEF AutomationTypeOK
<1>2. /\ CanRegister(m, plan) /\ StartRelease(m, IdsOf(plan), reg, rcpts)
      /\ automation_runs' = [automation_runs EXCEPT ![m] = "InFlight"]
      /\ UNCHANGED sequence_contexts
  BY DEF execute_trigger
<1>3. plan \in Seq(Steps) /\ IdsOf(plan) \in Seq(StepIds)
  BY <1>1, PlanFacts, IdsOfType
<1>4. ns # m /\ ns \in Namespaces
  BY AutoNamespaceFacts
<1> HIDE DEF m, plan
<1>5. /\ reg \in [Keys -> RegisteredStep \union {None}]
      /\ rcpts \in [YieldIds -> Receipt \union {None}]
      /\ StrandIn(reg, rcpts, next_yield + Len(plan)) /\ SameChains(ns, rcpts)
  BY <1>1, <1>2, <1>3, <1>4, RegisterType, RegisterStrand, RegisterSameChains
<1>6. Untouched(ns)
  BY <1>1, <1>2, <1>4, StartUntouched
<1>7. automation_runs'[ns] = automation_runs[ns]
  BY <1>1, <1>2, <1>4 DEF TypeOK
<1> HIDE DEF reg, rcpts
<1>8. SameChains(ns, receipts')
  BY <1>1, <1>2, <1>3, <1>4, <1>5, StartSameChains
<1> QED BY <1>6, <1>7, <1>8 DEF Frozen

----------------------------------------------------------------------------
(* Registered steps and their chains in the composed account.              *)

LEMMA AccountStrandStep ==
  AutomationTypeOK /\ StrandInv /\ [SmartAccountNext]_automationVars => StrandInv'
<1> SUFFICES ASSUME AutomationTypeOK, StrandInv, [SmartAccountNext]_automationVars
             PROVE  StrandInv'
  OBVIOUS
<1>0. TypeOK
  BY DEF AutomationTypeOK
<1>1. CASE Calm
  BY <1>1 DEF Calm, StrandInv, StrandIn
<1>2. CASE Manual \/ \E y \in YieldIds : Deliver(y)
  BY <1>0, <1>2, StrandStep DEF Next, Runtime
<1>3. CASE Executes
  <2>1. PICK who \in Accounts, pk \in PublicKeys \union {None}, t \in Triggers :
          execute_trigger(who, pk, t)
    BY <1>3 DEF Executes
  <2> DEFINE ns == automation_namespace(t, balance_triggers[t].runs_started + 1)
             plan == sequence_templates[balance_triggers[t].sequence]
  <2>2. ns \in Namespaces /\ plan \in Plans
    BY <2>1, ExecuteFacts, AutoNamespaceFacts
  <2>3. /\ CanRegister(ns, plan) /\ next_yield' = next_yield + Len(plan)
        /\ StartRelease(ns, IdsOf(plan), Registered(ns, plan), Yielded(ns, plan))
    BY <2>1 DEF execute_trigger
  <2> HIDE DEF ns, plan
  <2>4. plan \in Seq(Steps)
    BY <2>2, PlanFacts
  <2>5. StrandIn(registered_steps', receipts', next_yield')
    BY <1>0, <2>2, <2>3, <2>4, RegisterType, RegisterStrand, StartStrand
  <2> QED BY <2>5 DEF StrandInv, StrandIn
<1> QED BY <1>1, <1>2, <1>3, StepCases

\* In the whole account too, manual and automation runs interleaved, a step stays
\* registered only while its own chain is alive or after a callback of it panicked.
THEOREM AccountStrandSafe == SmartAccountSpec => []OnlyPanicsStrand
<1>1. AutomationInit => AutomationTypeOK /\ StrandInv
  BY AutomationInitType, StrandInit DEF AutomationInit
<1>2. AutomationTypeOK /\ StrandInv /\ [SmartAccountNext]_automationVars
        => (AutomationTypeOK /\ StrandInv)'
  BY AutomationTypeStep, AccountStrandStep
<1> QED BY <1>1, <1>2, StrandImplies, PTL DEF SmartAccountSpec

----------------------------------------------------------------------------
(* While a trigger_id is created at most once, a run gets a namespace of   *)
(* its own.                                                                *)

Once(ns) == creations[ns.name] <= 1

\* The run of this nonce has not been started yet.
Unused(ns) ==
  \/ creations[ns.name] = 0
  \/ /\ balance_triggers[ns.name] # None
     /\ balance_triggers[ns.name].runs_started < ns.nonce

NonceInv ==
  /\ \A t \in Triggers : creations[t] = 0 => balance_triggers[t] = None
  /\ \A ns \in AutoNamespaces : Once(ns) /\ Unused(ns) => \A y \in YieldIds : ~In(y, ns)

StartsIn(ns) ==
  \E who \in Accounts, pk \in PublicKeys \union {None}, t \in Triggers :
    /\ execute_trigger(who, pk, t)
    /\ ns = automation_namespace(t, balance_triggers[t].runs_started + 1)

LEMMA TriggerCases ==
  ASSUME AutomationTypeOK, [SmartAccountNext]_automationVars
  PROVE  \/ /\ UNCHANGED creations
            /\ \A t \in Triggers :
                 /\ balance_triggers'[t] = None <=> balance_triggers[t] = None
                 /\ balance_triggers[t] # None =>
                      balance_triggers'[t].runs_started = balance_triggers[t].runs_started
         \/ \E t \in Triggers :
              /\ balance_triggers[t] = None /\ creations' = [creations EXCEPT ![t] = @ + 1]
              /\ \A u \in Triggers : u # t => balance_triggers'[u] = balance_triggers[u]
         \/ \E t \in Triggers :
              /\ balance_triggers' = [balance_triggers EXCEPT ![t] = None]
              /\ balance_triggers[t] # None /\ UNCHANGED creations
         \/ /\ UNCHANGED creations
            /\ \E who \in Accounts, pk \in PublicKeys \union {None}, t \in Triggers :
                 /\ execute_trigger(who, pk, t)
                 /\ balance_triggers'[t] # None
                 /\ balance_triggers'[t].runs_started = balance_triggers[t].runs_started + 1
                 /\ \A u \in Triggers : u # t => balance_triggers'[u] = balance_triggers[u]
<1> DEFINE Same ==
             /\ UNCHANGED creations
             /\ \A t \in Triggers :
                  /\ balance_triggers'[t] = None <=> balance_triggers[t] = None
                  /\ balance_triggers[t] # None =>
                       balance_triggers'[t].runs_started = balance_triggers[t].runs_started
<1>0. TypeOK
  BY DEF AutomationTypeOK
<1>s. ASSUME UNCHANGED <<balance_triggers, creations>> PROVE Same
  BY <1>s
<1>1. ASSUME NEW q \in SequenceIds,
             (\E plan \in Plans : save_sequence_template(q, plan))
               \/ delete_sequence_template(q)
      PROVE  Same
  BY <1>1, <1>s DEF save_sequence_template, delete_sequence_template, sequencerVars, vars,
              contractVars
<1>2. ASSUME NEW t \in Triggers, NEW q \in SequenceIds, NEW min \in Minima,
             NEW max \in 0..MaxNonce, create_balance_trigger(t, q, min, max)
      PROVE  /\ balance_triggers[t] = None /\ creations' = [creations EXCEPT ![t] = @ + 1]
             /\ \A u \in Triggers : u # t => balance_triggers'[u] = balance_triggers[u]
  BY <1>0, <1>2 DEF create_balance_trigger, TypeOK
<1>3. ASSUME NEW t \in Triggers, delete_balance_trigger(t)
      PROVE  /\ balance_triggers' = [balance_triggers EXCEPT ![t] = None]
             /\ balance_triggers[t] # None /\ UNCHANGED creations
  BY <1>3 DEF delete_balance_trigger
<1>4. ASSUME NEW who \in Accounts, NEW pk \in PublicKeys \union {None}, NEW t \in Triggers,
             execute_trigger(who, pk, t)
      PROVE  /\ UNCHANGED creations /\ balance_triggers'[t] # None
             /\ balance_triggers'[t].runs_started = balance_triggers[t].runs_started + 1
             /\ \A u \in Triggers : u # t => balance_triggers'[u] = balance_triggers[u]
  <2>1. UNCHANGED creations
    BY <1>4 DEF execute_trigger, templateVars
  <2>2. balance_triggers[t] \in BalanceTrigger
    BY <1>4, ExecuteFacts
  <2>3. balance_triggers' \in [Triggers -> BalanceTrigger \union {None}]
    BY <1>4, ExecuteType DEF AutomationTypeOK, TypeOK
  <2> DEFINE ns == automation_namespace(t, balance_triggers[t].runs_started + 1)
             b == [balance_triggers[t] EXCEPT !.runs_started = balance_triggers[t].runs_started + 1,
                       !.in_flight = TRUE, !.last_run = ns, !.last_outcome = "InFlight"]
  <2>4. balance_triggers' = [balance_triggers EXCEPT ![t] = b]
    BY <1>0, <1>4 DEF execute_trigger, TypeOK
  <2>5. b.runs_started = balance_triggers[t].runs_started + 1
    BY <2>2 DEF BalanceTrigger
  <2>6. b \in BalanceTrigger
    <3>1. balance_triggers[t].runs_started + 1 \in 1..MaxNonce /\ ns \in AutoNamespaces
      BY <1>4, ExecuteFacts
    <3>2. balance_triggers[t].runs_started + 1 \in 0..MaxNonce
      BY <3>1, BoundsAssumption
    <3> HIDE DEF ns
    <3> QED BY <2>2, <3>1, <3>2 DEF BalanceTrigger, RunStatus
  <2> HIDE DEF b
  <2>7. balance_triggers'[t] = b /\ \A u \in Triggers : u # t => balance_triggers'[u] = balance_triggers[u]
    BY <1>0, <2>4 DEF TypeOK
  <2> QED BY <2>1, <2>5, <2>6, <2>7, NoneAssumption
<1>5. ASSUME prune_finished_automation_runs PROVE Same
  BY <1>5, <1>s DEF prune_finished_automation_runs
<1>6. ASSUME SequencerNext PROVE Same
  <2>0. UNCHANGED creations /\ [Next]_vars
    BY <1>6 DEF SequencerNext, templateVars
  <2>1. ASSUME NEW ns \in Namespaces, NEW status \in Ended, RunEnds(ns, status)
        PROVE  \A t \in Triggers :
                 /\ balance_triggers'[t] = None <=> balance_triggers[t] = None
                 /\ balance_triggers[t] # None =>
                      balance_triggers'[t].runs_started = balance_triggers[t].runs_started
    <3> SUFFICES ASSUME NEW t \in Triggers
                 PROVE  /\ balance_triggers'[t] = None <=> balance_triggers[t] = None
                        /\ balance_triggers[t] # None =>
                             balance_triggers'[t].runs_started = balance_triggers[t].runs_started
      OBVIOUS
    <3> DEFINE b == [balance_triggers[t] EXCEPT !.in_flight = FALSE, !.last_outcome = status]
    <3>1. balance_triggers'[t] = IF t = ns.name /\ balance_triggers[t] # None
                                 THEN b ELSE balance_triggers[t]
      BY <2>1 DEF RunEnds
    <3>2. balance_triggers[t] # None =>
            b \in BalanceTrigger /\ b.runs_started = balance_triggers[t].runs_started
      BY <1>0 DEF TypeOK, BalanceTrigger, Ended
    <3> HIDE DEF b
    <3> QED BY <3>1, <3>2, NoneAssumption
  <2> QED BY <1>0, <1>s, <2>0, <2>1, EngineOnlyEndsRuns
<1>7. ASSUME SessionNext \/ UNCHANGED automationVars PROVE Same
  BY <1>7, <1>s DEF SessionNext, automationVars, sequencerVars, vars, contractVars, templateVars
<1> QED BY <1>1, <1>2, <1>3, <1>4, <1>5, <1>6, <1>7
        DEF SmartAccountNext, AutomationNext

\* A namespace that is unused after a step was unused before it, and the step starts
\* no run in it.
LEMMA UnusedBefore ==
  ASSUME AutomationTypeOK, NonceInv, [SmartAccountNext]_automationVars,
         NEW ns \in AutoNamespaces, Once(ns)', Unused(ns)'
  PROVE  Once(ns) /\ Unused(ns) /\ ~StartsIn(ns)
<1> DEFINE u == ns.name
<1>0. /\ u \in Triggers /\ ns.nonce \in 1..MaxNonce /\ ns = automation_namespace(u, ns.nonce)
      /\ \A t \in Triggers : creations[t] \in Nat
      /\ TypeOK
  BY BoundsAssumption, MinimaAssumption
     DEF AutoNamespaces, automation_namespace, AutomationTypeOK
<1>1. \/ creations'[u] = 0
      \/ balance_triggers'[u] # None /\ balance_triggers'[u].runs_started < ns.nonce
  BY DEF Unused
<1>2. creations'[u] <= 1
  BY DEF Once
<1>3. Once(ns) /\ Unused(ns)
  <2>1. ASSUME UNCHANGED creations,
               \A t \in Triggers :
                 /\ balance_triggers'[t] = None <=> balance_triggers[t] = None
                 /\ balance_triggers[t] # None =>
                      balance_triggers'[t].runs_started = balance_triggers[t].runs_started
        PROVE  Once(ns) /\ Unused(ns)
    BY <1>0, <1>1, <1>2, <2>1 DEF Once, Unused
  <2>2. ASSUME NEW t \in Triggers, balance_triggers[t] = None,
               creations' = [creations EXCEPT ![t] = @ + 1],
               \A w \in Triggers : w # t => balance_triggers'[w] = balance_triggers[w]
        PROVE  Once(ns) /\ Unused(ns)
    <3>1. CASE u = t
      <4>1. creations'[u] = creations[u] + 1
        BY <1>0, <2>2, <3>1 DEF AutomationTypeOK
      <4>2. creations[u] = 0
        BY <1>0, <1>2, <4>1
      <4> QED BY <4>2 DEF Once, Unused
    <3>2. CASE u # t
      <4>1. creations'[u] = creations[u] /\ balance_triggers'[u] = balance_triggers[u]
        BY <1>0, <2>2, <3>2 DEF AutomationTypeOK
      <4> QED BY <1>1, <1>2, <4>1 DEF Once, Unused
    <3> QED BY <3>1, <3>2
  <2>3. ASSUME NEW t \in Triggers, UNCHANGED creations,
               balance_triggers' = [balance_triggers EXCEPT ![t] = None]
        PROVE  Once(ns) /\ Unused(ns)
    <3>1. u = t => balance_triggers'[u] = None
      BY <1>0, <2>3 DEF TypeOK
    <3>2. u # t => balance_triggers'[u] = balance_triggers[u]
      BY <1>0, <2>3 DEF TypeOK
    <3> QED BY <1>1, <1>2, <2>3, <3>1, <3>2 DEF Once, Unused
  <2>4. ASSUME NEW who, NEW pk, NEW t \in Triggers, UNCHANGED creations,
               execute_trigger(who, pk, t), balance_triggers'[t] # None,
               balance_triggers'[t].runs_started = balance_triggers[t].runs_started + 1,
               \A w \in Triggers : w # t => balance_triggers'[w] = balance_triggers[w]
        PROVE  Once(ns) /\ Unused(ns)
    <3>1. balance_triggers[t] \in BalanceTrigger
      BY <2>4, ExecuteFacts
    <3>2. balance_triggers[t] # None /\ balance_triggers[t].runs_started \in Nat
      BY <3>1, BoundsAssumption, NoneAssumption DEF BalanceTrigger
    <3>3. Once(ns)
      BY <1>2, <2>4 DEF Once
    <3>4. CASE u = t
      <4>1. CASE creations'[u] = 0
        BY <2>4, <3>3, <4>1 DEF Unused
      <4>2. CASE balance_triggers'[u].runs_started < ns.nonce
        <5>1. balance_triggers[u].runs_started + 1 < ns.nonce
          BY <2>4, <3>4, <4>2
        <5>2. balance_triggers[u].runs_started < ns.nonce
          BY <1>0, <3>2, <3>4, <5>1
        <5> QED BY <3>2, <3>3, <3>4, <5>2 DEF Unused
      <4> QED BY <1>1, <4>1, <4>2
    <3>5. CASE u # t
      BY <1>0, <1>1, <2>4, <3>3, <3>5 DEF Unused
    <3> QED BY <3>3, <3>4, <3>5
  <2> QED BY <2>1, <2>2, <2>3, <2>4, TriggerCases
<1>4. ASSUME NEW who \in Accounts, NEW pk \in PublicKeys \union {None}, NEW t \in Triggers,
             execute_trigger(who, pk, t),
             ns = automation_namespace(t, balance_triggers[t].runs_started + 1)
      PROVE  FALSE
  <2>1. u = t /\ ns.nonce = balance_triggers[t].runs_started + 1
    BY <1>4 DEF automation_namespace
  <2>2. creations'[u] = creations[u]
    BY <1>4 DEF execute_trigger, templateVars
  <2>3. balance_triggers[t] # None
    BY <1>4 DEF execute_trigger
  <2>4. creations'[u] # 0
    BY <2>1, <2>2, <2>3 DEF NonceInv
  <2>5. balance_triggers'[t].runs_started = balance_triggers[t].runs_started + 1
    <3>1. balance_triggers[t] \in BalanceTrigger
      BY <1>4, ExecuteFacts
    <3>2. balance_triggers'[t].runs_started = [balance_triggers EXCEPT ![t].runs_started =
              balance_triggers[t].runs_started + 1][t].runs_started
      BY <1>0, <1>4, <3>1 DEF execute_trigger, TypeOK, BalanceTrigger
    <3> QED BY <1>0, <3>1, <3>2 DEF TypeOK, BalanceTrigger
  <2>6. ~(balance_triggers'[u].runs_started < ns.nonce)
    BY <1>0, <2>1, <2>5
  <2> QED BY <1>1, <2>4, <2>6
<1> QED BY <1>3, <1>4 DEF StartsIn

\* A namespace is left alone, or a callback of a chain runs, or a run starts in it.
LEMMA NamespaceCases ==
  ASSUME AutomationTypeOK, StrandInv, [SmartAccountNext]_automationVars,
         NEW ns \in AutoNamespaces
  PROVE  Frozen(ns) \/ (\E y \in YieldIds : Deliver(y)) \/ StartsIn(ns)
<1>1. CASE Calm
  BY <1>1, CalmFrozen
<1>2. CASE Manual
  BY <1>2, ManualFrozen DEF AutomationTypeOK
<1>3. CASE Executes /\ ~StartsIn(ns)
  BY <1>3, ExecuteFrozen, AutoNamespaceFacts DEF Executes, StartsIn
<1> QED BY <1>1, <1>2, <1>3, StepCases

LEMMA NonceStep ==
  AutomationTypeOK /\ StrandInv /\ NonceInv /\ [SmartAccountNext]_automationVars => NonceInv'
<1> SUFFICES ASSUME AutomationTypeOK, StrandInv, NonceInv, [SmartAccountNext]_automationVars
             PROVE  NonceInv'
  OBVIOUS
<1>0. TypeOK
  BY DEF AutomationTypeOK
<1>1. ASSUME NEW t \in Triggers, creations'[t] = 0
      PROVE  balance_triggers'[t] = None
  <2>0. creations[t] \in Nat
    BY MinimaAssumption DEF AutomationTypeOK
  <2>1. ASSUME NEW u \in Triggers, creations' = [creations EXCEPT ![u] = @ + 1],
               \A w \in Triggers : w # u => balance_triggers'[w] = balance_triggers[w]
        PROVE  balance_triggers'[t] = None
    <3>1. t = u => creations'[t] = creations[t] + 1
      BY <2>1 DEF AutomationTypeOK
    <3>2. t # u
      BY <1>1, <2>0, <3>1
    <3>3. creations[t] = 0
      BY <1>1, <2>1, <3>2 DEF AutomationTypeOK
    <3> QED BY <2>1, <3>2, <3>3 DEF NonceInv
  <2>2. ASSUME NEW u \in Triggers, UNCHANGED creations,
               balance_triggers' = [balance_triggers EXCEPT ![u] = None]
        PROVE  balance_triggers'[t] = None
    BY <1>0, <1>1, <2>2 DEF NonceInv, TypeOK
  <2>3. ASSUME NEW who, NEW pk, NEW u \in Triggers, UNCHANGED creations,
               execute_trigger(who, pk, u),
               \A w \in Triggers : w # u => balance_triggers'[w] = balance_triggers[w]
        PROVE  balance_triggers'[t] = None
    BY <1>1, <2>3 DEF NonceInv, execute_trigger
  <2> QED BY <1>1, <2>1, <2>2, <2>3, TriggerCases DEF NonceInv
<1>2. ASSUME NEW ns \in AutoNamespaces, Once(ns)', Unused(ns)', NEW y \in YieldIds
      PROVE  ~In(y, ns)'
  <2>1. Once(ns) /\ Unused(ns) /\ ~StartsIn(ns)
    BY <1>2, UnusedBefore
  <2>2. ~In(y, ns)
    BY <1>2, <2>1 DEF NonceInv
  <2>3. CASE Frozen(ns)
    BY <1>0, <2>2, <2>3, FrozenChains DEF Frozen
  <2>4. CASE \E z \in YieldIds : Deliver(z)
    BY <1>0, <2>2, <2>4, DeliverChains DEF In
  <2> QED BY <1>2, <2>1, <2>3, <2>4, NamespaceCases
<1> QED BY <1>1, <1>2 DEF NonceInv

\* A namespace a run starts in is unused, so empty of chains.
LEMMA StartsInUnused ==
  ASSUME AutomationTypeOK, NonceInv, NEW ns \in AutoNamespaces, StartsIn(ns), Once(ns),
         NEW y \in YieldIds
  PROVE  ~In(y, ns)
<1>1. PICK who \in Accounts, pk \in PublicKeys \union {None}, t \in Triggers :
        /\ execute_trigger(who, pk, t)
        /\ ns = automation_namespace(t, balance_triggers[t].runs_started + 1)
  BY DEF StartsIn
<1>2. balance_triggers[t] # None /\ balance_triggers[t].runs_started \in Nat
  <2>1. balance_triggers[t] \in BalanceTrigger
    BY <1>1, ExecuteFacts
  <2> QED BY <2>1, BoundsAssumption, NoneAssumption DEF BalanceTrigger
<1>3. ns.name = t /\ ns.nonce = balance_triggers[t].runs_started + 1
  BY <1>1 DEF automation_namespace
<1>4. Unused(ns)
  BY <1>2, <1>3 DEF Unused
<1> QED BY <1>4 DEF NonceInv

----------------------------------------------------------------------------
(* Every automation run, one after the other and beside the others.        *)

RunsInv == \A ns \in AutoNamespaces : Once(ns) => RunInv(ns)

AccountInv ==
  AutomationTypeOK /\ StrandInv /\ FinishedRunLeavesNothing /\ NonceInv /\ RunsInv

LEMMA AccountInit == AutomationInit => AccountInv
<1> SUFFICES ASSUME AutomationInit PROVE AccountInv
  OBVIOUS
<1>1. AutomationTypeOK /\ StrandInv
  BY AutomationInitType, StrandInit DEF AutomationInit
<1>2. \A ns \in AutoNamespaces : ns \in Namespaces
  BY AutoNamespaceFacts
<1>3. FinishedRunLeavesNothing
  BY <1>2 DEF AutomationInit, Init, FinishedRunLeavesNothing, Keys
<1>4. \A y \in YieldIds : receipts[y] = None
  BY DEF AutomationInit, Init
<1>5. NonceInv
  BY <1>4 DEF AutomationInit, Init, NonceInv, In
<1>6. \A ns \in AutoNamespaces : automation_runs[ns] = None
  BY <1>2 DEF AutomationInit, Init
<1>7. RunsInv
  BY <1>4, <1>6, NoneAssumption
     DEF RunsInv, RunInv, DistinctChains, OrderedChains, InFlightShape, SuccessIsReal, In,
         RunStatus
<1> QED BY <1>1, <1>3, <1>5, <1>7 DEF AccountInv

\* trigger_ids are never counted down.
LEMMA OnceBefore ==
  ASSUME AutomationTypeOK, [SmartAccountNext]_automationVars, NEW ns \in AutoNamespaces,
         Once(ns)'
  PROVE  Once(ns)
<1>0. ns.name \in Triggers /\ \A t \in Triggers : creations[t] \in Nat
  BY AutoNamespaceFacts, MinimaAssumption DEF AutomationTypeOK
<1>1. ASSUME NEW t \in Triggers, creations' = [creations EXCEPT ![t] = @ + 1]
      PROVE  Once(ns)
  <2>1. \/ creations'[ns.name] = creations[ns.name]
        \/ creations'[ns.name] = creations[ns.name] + 1
    BY <1>0, <1>1 DEF AutomationTypeOK
  <2> QED BY <1>0, <2>1 DEF Once
<1>2. CASE UNCHANGED creations
  BY <1>2 DEF Once
<1> QED BY <1>1, <1>2, TriggerCases

LEMMA RunsStep ==
  AccountInv /\ [SmartAccountNext]_automationVars => RunsInv'
<1> SUFFICES ASSUME AccountInv, [SmartAccountNext]_automationVars,
                    NEW ns \in AutoNamespaces, Once(ns)'
             PROVE  RunInv(ns)'
  BY DEF RunsInv
<1>0. /\ AutomationTypeOK /\ TypeOK /\ StrandInv /\ FinishedRunLeavesNothing /\ NonceInv
      /\ Once(ns) /\ RunInv(ns)
  BY OnceBefore DEF AccountInv, AutomationTypeOK, RunsInv
<1>1. CASE Frozen(ns)
  BY <1>0, <1>1, FrozenKeepsRun
<1>2. CASE \E y \in YieldIds : Deliver(y)
  BY <1>0, <1>2, DeliverKeepsRun
<1>3. CASE StartsIn(ns)
  <2>1. PICK who \in Accounts, pk \in PublicKeys \union {None}, t \in Triggers :
          /\ execute_trigger(who, pk, t)
          /\ ns = automation_namespace(t, balance_triggers[t].runs_started + 1)
    BY <1>3 DEF StartsIn
  <2>2. \A z \in YieldIds : ~In(z, ns)
    BY <1>0, <1>3, StartsInUnused
  <2> QED BY <1>0, <2>1, <2>2, ExecuteStartsRun
<1> QED BY <1>0, <1>1, <1>2, <1>3, NamespaceCases

LEMMA AccountStep ==
  AccountInv /\ [SmartAccountNext]_automationVars => AccountInv'
BY AutomationTypeStep, AccountStrandStep, FinishedStep, NonceStep, RunsStep DEF AccountInv

LEMMA AccountAlways == SmartAccountSpec => []AccountInv
BY AccountInit, AccountStep, PTL DEF SmartAccountSpec

\* A run row that reports success is telling the truth, in every account that creates
\* no trigger_id twice: finish_automation_run writes "Succeeded" only when every step
\* of the run resolved ok.
THEOREM SuccessTrue == SmartAccountSpec => [](NoReuse => SucceededMeansEveryStepOk)
<1>1. AccountInv => (NoReuse => SucceededMeansEveryStepOk)
  <2> SUFFICES ASSUME AccountInv, NoReuse, NEW ns \in AutoNamespaces,
                      automation_runs[ns] = "Succeeded", NEW y \in YieldIds,
                      receipts[y] # None, receipts[y].ns = ns
               PROVE  Phase(y) = "ok"
    BY DEF SucceededMeansEveryStepOk
  <2>1. RunInv(ns)
    BY AutoNamespaceFacts DEF NoReuse, AccountInv, RunsInv, Once
  <2> QED BY <2>1 DEF RunInv, SuccessIsReal, In
<1> QED BY <1>1, AccountAlways, PTL

\* No callback of the account has panicked yet.
NoPanic == \A y \in YieldIds : Phase(y) # "aborted"

\* A run in flight is driven by a released step whose next callback finds its
\* registration, until a callback panics: no order of callbacks, timeouts and resumes
\* leaves a trigger in flight with nothing on its way.
THEOREM DriverInFlight == SmartAccountSpec => [](NoReuse /\ NoPanic => InFlightHasDriver)
<1>1. AccountInv => (NoReuse /\ NoPanic => InFlightHasDriver)
  <2> SUFFICES ASSUME AccountInv, NoReuse, NoPanic, NEW ns \in AutoNamespaces,
                      automation_runs[ns] = "InFlight"
               PROVE  \E y \in YieldIds :
                        Released(y) /\ receipts[y].ns = ns /\ Found(y) # None
    BY DEF InFlightHasDriver
  <2>1. RunInv(ns)
    BY AutoNamespaceFacts DEF NoReuse, AccountInv, RunsInv, Once
  <2>2. PICK at \in YieldIds : Current(at, ns)
    BY <2>1 DEF RunInv, InFlightShape
  <2> QED BY <2>2 DEF NoPanic, Current, In
<1> QED BY <1>1, AccountAlways, PTL

----------------------------------------------------------------------------
(* The places of a run's steps.                                            *)

\* The chains of the namespace are the yields from first to last, in this order.
Block(ns, first, last) ==
  /\ first \in Nat \ {0} /\ last \in Nat /\ first <= last + 1
  /\ \A y \in YieldIds : In(y, ns) => y \in first..last
  /\ \A y \in first..last :
       y \in YieldIds /\ In(y, ns) /\ ordered[y].pos = y - first + 1

\* All chains of the namespace are of one run, no chain of another namespace is, and
\* their places follow their yields.
Places(ns) ==
  /\ \A y, z \in YieldIds : In(z, ns) =>
       /\ ordered[z].run # 0
       /\ In(y, ns) => ordered[y].run = ordered[z].run
       /\ ordered[y].run = ordered[z].run =>
            In(y, ns) /\ (ordered[y].pos < ordered[z].pos => y < z)
  /\ \E first, last \in Nat : Block(ns, first, last)

PlaceInv ==
  /\ \A y \in YieldIds : ordered[y].run <= releases
  /\ \A ns \in AutoNamespaces : Once(ns) => Places(ns)

\* A step gives new places only to chains of the namespace m, in a new run.
PlacesIn(m) ==
  \A y \in YieldIds :
    \/ ordered'[y] = ordered[y]
    \/ ordered'[y].run = releases + 1 /\ In(y, m)'

\* The run that starts numbers chains of its own namespace only.
LEMMA StartPlaces ==
  ASSUME NEW m \in Namespaces, NEW order \in Seq(StepIds), NEW next,
         NEW reg \in [Keys -> RegisteredStep \union {None}],
         NEW rcpts \in [YieldIds -> Receipt \union {None}],
         StrandIn(reg, rcpts, next), StartRelease(m, order, reg, rcpts)
  PROVE  releases' = releases + 1 /\ PlacesIn(m)
<1>0. Fits(reg, rcpts, next)
  BY DEF Fits
<1>s. ResumesHead(m, order, reg, rcpts)
  BY <1>0, StartHead
<1> DEFINE h == reg[<<m, Head(order)>>].yield
<1>h. /\ h \in YieldIds /\ receipts'[h] \in Receipt /\ receipts'[h].ns = rcpts[h].ns
      /\ \A z \in YieldIds : z # h => receipts'[z] = rcpts[z]
  <2>1. /\ h \in YieldIds /\ rcpts[h] # None
        /\ receipts'[h] = [rcpts[h] EXCEPT !.phase = "resumed"]
        /\ \A z \in YieldIds : z # h => receipts'[z] = rcpts[z]
    BY ONLY <1>s DEF ResumesHead
  <2> HIDE DEF h
  <2>2. rcpts[h] \in Receipt
    BY <2>1
  <2> QED BY <2>1, <2>2, PhaseNames DEF Receipt
<1> HIDE DEF h
<1>1. ASSUME NEW y \in YieldIds, NEW i \in DOMAIN order, reg[<<m, order[i]>>].yield = y
      PROVE  In(y, m)'
  <2>1. order[i] \in StepIds /\ <<m, order[i]>> \in Keys /\ reg[<<m, order[i]>>] # None
    BY <1>1 DEF StartRelease, Keys
  <2>2. rcpts[y] # None /\ rcpts[y].ns = m
    BY <1>1, <2>1 DEF StrandIn
  <2> QED BY <1>h, <2>2, NoneAssumption DEF In
<1>2. ASSUME NEW y \in YieldIds, \E i \in DOMAIN order : reg[<<m, order[i]>>].yield = y
      PROVE  ordered'[y].run = releases + 1
  BY <1>2 DEF StartRelease
<1>3. ASSUME NEW y \in YieldIds, ~\E i \in DOMAIN order : reg[<<m, order[i]>>].yield = y
      PROVE  ordered'[y] = ordered[y]
  BY <1>3 DEF StartRelease
<1> QED BY <1>1, <1>2, <1>3 DEF StartRelease, PlacesIn

\* A block stays while its chains and their places do.
LEMMA BlockKept ==
  ASSUME NEW ns, \A y \in YieldIds : In(y, ns)' <=> In(y, ns),
         \A y \in YieldIds : In(y, ns) => ordered'[y] = ordered[y],
         NEW first, NEW last, Block(ns, first, last)
  PROVE  Block(ns, first, last)'
BY DEF Block

LEMMA PlacesKept ==
  ASSUME TypeOK, NEW m \in Namespaces, PlacesIn(m), NEW ns, ns # m,
         \A y \in YieldIds : In(y, ns)' <=> In(y, ns),
         \A y \in YieldIds : ordered[y].run <= releases, Places(ns)
  PROVE  Places(ns)'
<1>0. ASSUME NEW y \in YieldIds, In(y, ns)
      PROVE  ordered'[y] = ordered[y]
  <2>1. ~In(y, m)'
    BY <1>0 DEF In
  <2> QED BY <2>1 DEF PlacesIn
<1>b. \E first, last \in Nat : Block(ns, first, last)'
  BY <1>0, BlockKept DEF Places
<1> SUFFICES ASSUME NEW y \in YieldIds, NEW z \in YieldIds, In(z, ns)'
             PROVE  /\ ordered'[z].run # 0
                    /\ In(y, ns)' => ordered'[y].run = ordered'[z].run
                    /\ ordered'[y].run = ordered'[z].run =>
                         In(y, ns)' /\ (ordered'[y].pos < ordered'[z].pos => y < z)
  BY <1>b DEF Places
<1>1. In(z, ns) /\ ~In(z, m)'
  BY DEF In
<1>2. ordered'[z] = ordered[z]
  BY <1>1 DEF PlacesIn
<1>3. In(y, ns)' => ordered'[y] = ordered[y]
  BY DEF PlacesIn, In
<1>4. ordered[z].run \in Nat /\ releases \in Nat /\ ordered[z].run <= releases
  BY BoundsAssumption DEF TypeOK, Place
<1>5. ordered'[y].run = ordered'[z].run => ordered'[y] = ordered[y]
  <2>1. ordered'[z].run # releases + 1
    BY <1>2, <1>4
  <2> QED BY <2>1 DEF PlacesIn
<1>6. ordered[y].run = ordered[z].run =>
        In(y, ns) /\ (ordered[y].pos < ordered[z].pos => y < z)
  BY <1>1 DEF Places
<1>7. ordered[z].run # 0 /\ (In(y, ns) => ordered[y].run = ordered[z].run)
  BY <1>1 DEF Places
<1> QED BY <1>2, <1>3, <1>5, <1>6, <1>7

LEMMA SamePlacesKept ==
  ASSUME UNCHANGED ordered, NEW ns, Places(ns),
         \A y \in YieldIds : In(y, ns)' <=> In(y, ns)
  PROVE  Places(ns)'
<1>1. \E first, last \in Nat : Block(ns, first, last)'
  BY BlockKept DEF Places
<1> QED BY <1>1 DEF Places

\* Manual steps number chains of one manual namespace, or none.
LEMMA ManualPlaces ==
  ASSUME TypeOK, StrandInv, Manual
  PROVE  \/ UNCHANGED <<ordered, releases>>
         \/ \E m \in ManualNamespaces : releases' = releases + 1 /\ PlacesIn(m)
<1>0. \A caller \in Callers : /\ manual_namespace(caller) \in ManualNamespaces
                              /\ manual_namespace(caller) \in Namespaces
  BY DEF ManualNamespaces, Namespaces
<1>1. ASSUME NEW account, set_authorized_executor(account)
      PROVE  UNCHANGED <<ordered, releases>>
  BY <1>1 DEF set_authorized_executor, historyVars
<1>2. ASSUME NEW caller \in Callers, NEW step \in Steps, register_step(caller, step)
      PROVE  UNCHANGED <<ordered, releases>>
  BY <1>2 DEF register_step, historyVars
<1>3. ASSUME NEW caller \in Callers, NEW plan \in Plans, execute_steps(caller, plan)
      PROVE  releases' = releases + 1 /\ PlacesIn(manual_namespace(caller))
  <2> DEFINE m == manual_namespace(caller)
             reg == Registered(m, plan)
             rcpts == Yielded(m, plan)
  <2>1. plan \in Seq(Steps) /\ m \in Namespaces
    BY <1>0, PlanFacts
  <2>2. CanRegister(m, plan) /\ StartRelease(m, IdsOf(plan), reg, rcpts)
    BY <1>3 DEF execute_steps
  <2>3. /\ reg \in [Keys -> RegisteredStep \union {None}]
        /\ rcpts \in [YieldIds -> Receipt \union {None}]
        /\ StrandIn(reg, rcpts, next_yield + Len(plan)) /\ IdsOf(plan) \in Seq(StepIds)
    BY <2>1, <2>2, RegisterType, RegisterStrand, IdsOfType
  <2> HIDE DEF m, reg, rcpts
  <2>4. releases' = releases + 1 /\ PlacesIn(m)
    BY <2>1, <2>2, <2>3, StartPlaces
  <2> QED BY <2>4 DEF m
<1>4. ASSUME NEW who \in Accounts, NEW caller \in Callers, NEW order \in Orders,
             run_sequence(who, caller, order)
      PROVE  releases' = releases + 1 /\ PlacesIn(manual_namespace(caller))
  <2> DEFINE m == manual_namespace(caller)
  <2>1. m \in Namespaces /\ order \in Seq(StepIds)
    BY <1>0, PlansAssumption
  <2>2. StartRelease(m, order, registered_steps, receipts)
    BY <1>4 DEF run_sequence
  <2>3. /\ registered_steps \in [Keys -> RegisteredStep \union {None}]
        /\ receipts \in [YieldIds -> Receipt \union {None}]
        /\ StrandIn(registered_steps, receipts, next_yield)
    BY DEF TypeOK, StrandInv
  <2> HIDE DEF m
  <2>4. releases' = releases + 1 /\ PlacesIn(m)
    BY <2>1, <2>2, <2>3, StartPlaces
  <2> QED BY <2>4 DEF m
<1> QED BY <1>0, <1>1, <1>2, <1>3, <1>4 DEF Manual

\* The places of the run that execute_trigger starts follow its yields.
LEMMA ExecutePlaces ==
  ASSUME AutomationTypeOK, StrandInv, NEW who, NEW pk, NEW t \in Triggers,
         execute_trigger(who, pk, t), NEW ns, NEW plan,
         plan = sequence_templates[balance_triggers[t].sequence],
         ns = automation_namespace(t, balance_triggers[t].runs_started + 1),
         \A y \in YieldIds : ordered[y].run <= releases,
         \A z \in YieldIds : ~In(z, ns)
  PROVE  releases' = releases + 1 /\ PlacesIn(ns) /\ Places(ns)'
<1>0. PICK at : at = next_yield
  OBVIOUS
<1> DEFINE last == at + Len(plan) - 1
           reg == Registered(ns, plan)
           rcpts == Yielded(ns, plan)
           order == IdsOf(plan)
<1>1. /\ plan \in Plans /\ ns \in AutoNamespaces
      /\ at \in YieldIds /\ last \in YieldIds
      /\ \A z \in YieldIds : In(z, ns)' <=> z \in at..last
      /\ \A z \in at..last : z - at + 1 \in DOMAIN plan
      /\ StartRelease(ns, order, reg, rcpts)
  BY <1>0, ExecuteChains
<1>2. /\ plan \in Seq(Steps) /\ Len(plan) \in Nat /\ Len(plan) > 0 /\ DistinctIds(plan)
      /\ DOMAIN plan = 1..Len(plan) /\ ns \in Namespaces /\ TypeOK
      /\ order \in Seq(StepIds) /\ DOMAIN order = DOMAIN plan
      /\ \A i \in DOMAIN plan : order[i] = plan[i].id
  <2>1. plan \in Seq(Steps)
    BY <1>1, PlanFacts
  <2> QED BY <1>1, <2>1, PlanFacts, IdsOfType, AutoNamespaceFacts DEF AutomationTypeOK, IdsOf
<1>3. CanRegister(ns, plan)
  BY DEF execute_trigger
<1>4. /\ reg \in [Keys -> RegisteredStep \union {None}]
      /\ rcpts \in [YieldIds -> Receipt \union {None}]
      /\ StrandIn(reg, rcpts, next_yield + Len(plan))
  BY <1>2, <1>3, RegisterType, RegisterStrand
<1>5. \A i \in DOMAIN plan : reg[<<ns, order[i]>>].yield = at + i - 1
  <2> SUFFICES ASSUME NEW i \in DOMAIN plan
               PROVE  reg[<<ns, plan[i].id>>].yield = at + i - 1
    BY <1>2
  <2>1. reg[<<ns, plan[i].id>>] = [yield |-> next_yield + i - 1, call |-> plan[i]]
    BY <1>2, <1>3, RegisteredEntry
  <2> HIDE DEF reg
  <2> QED BY <1>0, <2>1
<1> HIDE DEF reg, rcpts, order
<1>6. releases' = releases + 1 /\ PlacesIn(ns)
  BY <1>1, <1>2, <1>4, StartPlaces
<1>7. at \in Nat /\ last \in Nat /\ last = at + Len(plan) - 1
  BY <1>1 DEF YieldIds
<1>8. ASSUME NEW z \in YieldIds, In(z, ns)'
      PROVE  z \in Nat /\ ordered'[z].run = releases + 1 /\ ordered'[z].pos = z - at + 1
  <2>1. z \in Nat /\ z - at + 1 \in DOMAIN plan
    BY <1>1, <1>8 DEF YieldIds
  <2>2. reg[<<ns, order[z - at + 1]>>].yield = at + (z - at + 1) - 1
    BY <1>5, <2>1
  <2>3. at + (z - at + 1) - 1 = z
    BY ONLY <1>7, <2>1
  <2>4. \E i \in DOMAIN order : reg[<<ns, order[i]>>].yield = z
    BY <1>2, <2>1, <2>2, <2>3
  <2> DEFINE p == FirstPlace(ns, order, reg, z)
  <2>5. p \in DOMAIN order /\ reg[<<ns, order[p]>>].yield = z
    <3> DEFINE i == z - at + 1
    <3>1. i \in DOMAIN order /\ i \in Nat /\ reg[<<ns, order[i]>>].yield = z
      BY <1>2, <2>1, <2>2, <2>3
    <3>2. ASSUME NEW j \in 1..(i - 1) PROVE reg[<<ns, order[j]>>].yield # z
      <4>1. j \in DOMAIN plan /\ j \in Nat /\ j < i
        BY ONLY <1>2, <2>1, j \in 1..(i - 1), <3>1
      <4>2. reg[<<ns, order[j]>>].yield = at + j - 1
        BY <1>5, <4>1
      <4>3. at + j - 1 # z
        BY ONLY <1>7, <2>1, <4>1
      <4> QED BY ONLY <4>2, <4>3
    <3> HIDE DEF i
    <3> QED BY ONLY <3>1, <3>2 DEF FirstPlace
  <2>6. ordered'[z] = [run |-> releases + 1, pos |-> p]
    BY <1>1, <2>4 DEF StartRelease, FirstPlace
  <2> HIDE DEF p
  <2>7. p \in DOMAIN plan /\ at + p - 1 = z
    BY <1>2, <1>5, <2>5
  <2>8. p = z - at + 1
    BY ONLY <1>2, <1>7, <2>1, <2>7
  <2> QED BY <2>1, <2>6, <2>8
<1>9. releases \in Nat /\ \A y \in YieldIds : ordered[y].run \in Nat
  BY <1>2, BoundsAssumption DEF TypeOK, Place
<1>10. Block(ns, at, last)'
  <2>1. \A y \in YieldIds : In(y, ns)' => y \in at..last
    BY <1>1
  <2>2. at # 0 /\ at <= last + 1
    BY <1>1, <1>2, <1>7 DEF YieldIds
  <2>3. ASSUME NEW y \in at..last
        PROVE  y \in YieldIds /\ In(y, ns)' /\ ordered'[y].pos = y - at + 1
    <3>1. y \in YieldIds
      <4>1. last \in 1..MaxYields /\ at \in 1..MaxYields
        BY <1>1 DEF YieldIds
      <4> QED BY <1>7, <4>1, BoundsAssumption DEF YieldIds
    <3> QED BY <1>1, <1>8, <3>1
  <2> HIDE DEF last
  <2> QED BY <1>7, <2>1, <2>2, <2>3 DEF Block
<1>11. \E first, end \in Nat : Block(ns, first, end)'
  <2> HIDE DEF last
  <2> QED BY <1>7, <1>10
<1>12. Places(ns)'
  <2> SUFFICES ASSUME NEW y \in YieldIds, NEW z \in YieldIds, In(z, ns)'
               PROVE  /\ ordered'[z].run # 0
                      /\ In(y, ns)' => ordered'[y].run = ordered'[z].run
                      /\ ordered'[y].run = ordered'[z].run =>
                           In(y, ns)' /\ (ordered'[y].pos < ordered'[z].pos => y < z)
    BY <1>11 DEF Places
  <2>1. /\ z \in Nat /\ ordered'[z].run = releases + 1 /\ ordered'[z].pos = z - at + 1
        /\ ordered'[z].run # 0
    BY <1>8, <1>9
  <2>2. ordered'[y].run = ordered'[z].run => In(y, ns)'
    <3>1. ordered[y].run # releases + 1
      BY <1>9
    <3> QED BY <1>6, <2>1, <3>1 DEF PlacesIn
  <2>3. ASSUME In(y, ns)'
        PROVE  /\ ordered'[y].run = ordered'[z].run
               /\ ordered'[y].pos < ordered'[z].pos => y < z
    <3>1. y \in Nat /\ ordered'[y].run = releases + 1 /\ ordered'[y].pos = y - at + 1
      BY <1>8, <2>3
    <3>2. y - at + 1 < z - at + 1 => y < z
      BY ONLY <1>7, <2>1, <3>1
    <3> QED BY <2>1, <3>1, <3>2
  <2> QED BY <2>1, <2>2, <2>3
<1> QED BY <1>6, <1>12

\* Whatever namespace it starts in, execute_trigger numbers chains of that one only.
LEMMA ExecuteNumbers ==
  ASSUME AutomationTypeOK, StrandInv, NEW who, NEW pk, NEW t \in Triggers,
         execute_trigger(who, pk, t), NEW ns, NEW plan,
         plan = sequence_templates[balance_triggers[t].sequence],
         ns = automation_namespace(t, balance_triggers[t].runs_started + 1)
  PROVE  releases' = releases + 1 /\ PlacesIn(ns)
<1> DEFINE reg == Registered(ns, plan)
           rcpts == Yielded(ns, plan)
<1>0. TypeOK
  BY DEF AutomationTypeOK
<1>1. plan \in Plans /\ ns \in Namespaces
  BY ExecuteFacts, AutoNamespaceFacts
<1>2. CanRegister(ns, plan) /\ StartRelease(ns, IdsOf(plan), reg, rcpts)
  BY DEF execute_trigger
<1>3. plan \in Seq(Steps) /\ IdsOf(plan) \in Seq(StepIds)
  BY <1>1, PlanFacts, IdsOfType
<1>4. /\ reg \in [Keys -> RegisteredStep \union {None}]
      /\ rcpts \in [YieldIds -> Receipt \union {None}]
      /\ StrandIn(reg, rcpts, next_yield + Len(plan))
  BY <1>0, <1>1, <1>2, <1>3, RegisterType, RegisterStrand
<1> HIDE DEF reg, rcpts
<1> QED BY <1>1, <1>2, <1>3, <1>4, StartPlaces

\* How the runs and places of a step's successor state compare.
LEMMA PlaceStep ==
  AccountInv /\ PlaceInv /\ [SmartAccountNext]_automationVars => PlaceInv'
<1> SUFFICES ASSUME AccountInv, PlaceInv, [SmartAccountNext]_automationVars
             PROVE  PlaceInv'
  OBVIOUS
<1>0. /\ AutomationTypeOK /\ TypeOK /\ StrandInv /\ FinishedRunLeavesNothing /\ NonceInv
      /\ \A y \in YieldIds : ordered[y].run <= releases
      /\ releases \in Nat /\ \A y \in YieldIds : ordered[y].run \in Nat
  BY BoundsAssumption DEF AccountInv, AutomationTypeOK, PlaceInv, TypeOK, Place
<1>1. ASSUME NEW m, releases' = releases + 1, PlacesIn(m)
      PROVE  \A y \in YieldIds : ordered'[y].run <= releases'
  <2> SUFFICES ASSUME NEW y \in YieldIds PROVE ordered'[y].run <= releases'
    OBVIOUS
  <2>1. ordered'[y].run = ordered[y].run \/ ordered'[y].run = releases + 1
    BY <1>1 DEF PlacesIn
  <2> QED BY ONLY <1>0, <1>1, <2>1, y \in YieldIds
<1>2. ASSUME NEW ns \in AutoNamespaces, Once(ns)'
      PROVE  Once(ns) /\ Places(ns)
  BY <1>0, <1>2, OnceBefore DEF PlaceInv
<1>3. ASSUME NEW ns \in AutoNamespaces, Frozen(ns)
      PROVE  \A y \in YieldIds : In(y, ns)' <=> In(y, ns)
  BY <1>0, <1>3, FrozenChains DEF Frozen
<1>4. CASE Calm
  <2>1. UNCHANGED <<ordered, releases>>
    BY <1>4 DEF Calm
  <2>2. ASSUME NEW ns \in AutoNamespaces, Once(ns)' PROVE Places(ns)'
    BY <1>2, <1>3, <1>4, <2>1, <2>2, CalmFrozen, SamePlacesKept
  <2> QED BY <1>0, <2>1, <2>2 DEF PlaceInv
<1>5. CASE Manual
  <2>1. ASSUME NEW ns \in AutoNamespaces
        PROVE  \A y \in YieldIds : In(y, ns)' <=> In(y, ns)
    BY <1>0, <1>3, <1>5, ManualFrozen
  <2>2. CASE UNCHANGED <<ordered, releases>>
    BY <1>0, <1>2, <2>1, <2>2, SamePlacesKept DEF PlaceInv
  <2>3. ASSUME NEW m \in ManualNamespaces, releases' = releases + 1, PlacesIn(m)
        PROVE  PlaceInv'
    <3>1. ASSUME NEW ns \in AutoNamespaces, Once(ns)' PROVE Places(ns)'
      <4>1. m \in Namespaces /\ ns # m /\ Places(ns)
        BY <1>2, <3>1, AutoNamespaceFacts DEF Namespaces
      <4> QED BY <1>0, <2>1, <2>3, <4>1, PlacesKept
    <3> QED BY <1>1, <2>3, <3>1 DEF PlaceInv
  <2> QED BY <1>0, <1>5, <2>2, <2>3, ManualPlaces
<1>6. ASSUME NEW y \in YieldIds, Deliver(y) PROVE PlaceInv'
  <2>1. UNCHANGED <<ordered, releases>>
    BY <1>6 DEF Deliver, historyVars
  <2>2. \A ns : \A z \in YieldIds : In(z, ns)' <=> In(z, ns)
    BY <1>0, <1>6, DeliverChains DEF In
  <2>3. ASSUME NEW ns \in AutoNamespaces, Once(ns)' PROVE Places(ns)'
    BY <1>2, <2>1, <2>2, <2>3, SamePlacesKept
  <2> QED BY <1>0, <2>1, <2>3 DEF PlaceInv
<1>7. CASE Executes
  <2>1. PICK who \in Accounts, pk \in PublicKeys \union {None}, t \in Triggers :
          execute_trigger(who, pk, t)
    BY <1>7 DEF Executes
  <2>2. PICK m \in AutoNamespaces :
          m = automation_namespace(t, balance_triggers[t].runs_started + 1)
    BY <1>0, <2>1, ExecuteFacts
  <2>3. PICK plan : plan = sequence_templates[balance_triggers[t].sequence]
    OBVIOUS
  <2>4. releases' = releases + 1 /\ PlacesIn(m)
    BY <1>0, <2>1, <2>2, <2>3, ExecuteNumbers
  <2>5. ASSUME NEW ns \in AutoNamespaces, Once(ns)' PROVE Places(ns)'
    <3>1. Once(ns) /\ Places(ns) /\ m \in Namespaces
      BY <1>2, <2>5, AutoNamespaceFacts
    <3>2. CASE ns = m
      <4>1. StartsIn(m)
        BY <2>1, <2>2 DEF StartsIn
      <4>2. \A z \in YieldIds : ~In(z, m)
        BY <1>0, <3>1, <3>2, <4>1, StartsInUnused
      <4> QED BY <1>0, <2>1, <2>2, <2>3, <3>2, <4>2, ExecutePlaces
    <3>3. CASE ns # m
      <4>1. Frozen(ns)
        BY <1>0, <2>1, <2>2, <3>3, ExecuteFrozen, AutoNamespaceFacts
      <4> QED BY <1>0, <1>3, <2>4, <3>1, <3>3, <4>1, PlacesKept
    <3> QED BY <3>2, <3>3
  <2> QED BY <1>1, <2>4, <2>5 DEF PlaceInv
<1> QED BY <1>0, <1>4, <1>5, <1>6, <1>7, StepCases

LEMMA PlaceAlways == SmartAccountSpec => [](AccountInv /\ PlaceInv)
<1>1. AutomationInit => PlaceInv
  <2> SUFFICES ASSUME AutomationInit PROVE PlaceInv
    OBVIOUS
  <2>1. \A ns : \A y \in YieldIds : ~In(y, ns)
    BY DEF AutomationInit, Init, In
  <2>2. \A ns : Block(ns, 1, 0)
    BY <2>1 DEF Block
  <2>3. \A y \in YieldIds : ordered[y].run <= releases
    BY DEF AutomationInit, Init
  <2> QED BY <2>1, <2>2, <2>3 DEF PlaceInv, Places
<1> QED BY <1>1, AccountInit, AccountStep, PlaceStep, PTL DEF SmartAccountSpec

\* Step N+1 of an automation run is sent only after step N of it resolved
\* successfully, whatever manual runs, other triggers, timeouts and late callbacks
\* come between, in every account that creates no trigger_id twice.
THEOREM AutomationOrdered == SmartAccountSpec => [](NoReuse => OrderedRelease)
<1>1. AccountInv /\ PlaceInv => (NoReuse => OrderedRelease)
  <2> SUFFICES ASSUME AccountInv, PlaceInv, NoReuse, NEW y \in YieldIds, NEW z \in YieldIds,
                      ordered[z].run # 0, ordered[y].run = ordered[z].run,
                      ordered[y].pos + 1 = ordered[z].pos, receipts[z] # None,
                      receipts[z].ns \in AutoNamespaces, Phase(z) \in SentPhases
               PROVE  Phase(y) = "ok"
    BY DEF OrderedRelease, OrderedIn
  <2>1. PICK ns \in AutoNamespaces : In(z, ns)
    BY DEF In
  <2>2. RunInv(ns) /\ Places(ns)
    BY AutoNamespaceFacts DEF NoReuse, AccountInv, PlaceInv, RunsInv, Once
  <2>3. ordered[y].pos \in Nat
    BY DEF AccountInv, AutomationTypeOK, TypeOK, Place
  <2>4. ordered[y].pos < ordered[z].pos
    BY <2>3
  <2>5. In(y, ns) /\ y < z
    BY <2>1, <2>2, <2>4 DEF Places
  <2>6. Started(z)
    BY DEF Started, SentPhases, ReleasedPhases
  <2> QED BY <2>1, <2>2, <2>5, <2>6 DEF RunInv, OrderedChains
<1> QED BY <1>1, PlaceAlways, PTL

----------------------------------------------------------------------------
(* What a namespace has saved is its own.                                  *)

SavedInv ==
  \A ns \in AutoNamespaces, name \in Names :
    sequence_contexts[ns][name] # None => In(sequence_contexts[ns][name], ns)

\* A callback saves its own yield, or forgets what its namespace has saved.
LEMMA DeliverSaves ==
  ASSUME TypeOK, StrandInv, NEW y \in YieldIds, Deliver(y), NEW ns \in AutoNamespaces,
         NEW name \in Names
  PROVE  \/ sequence_contexts'[ns][name] = sequence_contexts[ns][name]
         \/ sequence_contexts'[ns][name] = None
         \/ sequence_contexts'[ns][name] = y /\ In(y, ns)
<1>0. receipts[y] # None /\ ns \in Namespaces
  BY DeliverCases, AutoNamespaceFacts
<1>1. CASE ns # receipts[y].ns
  BY <1>0, <1>1, DeliverUntouched DEF Untouched
<1>2. CASE ns = receipts[y].ns
  <2>1. In(y, ns)
    BY <1>0, <1>2 DEF In
  <2>2. ASSUME sequence_contexts' = [sequence_contexts EXCEPT ![ns] = NoContext]
        PROVE  sequence_contexts'[ns][name] = None
    BY <1>0, <2>2 DEF TypeOK, NoContext
  <2>3. CASE sequence_contexts' = ContextAfter(y)
    <3>1. CASE sequence_contexts' = sequence_contexts
      BY <3>1
    <3>2. CASE sequence_contexts' =
                 [sequence_contexts EXCEPT ![receipts[y].ns][Found(y).call.save] = y]
      BY <1>0, <1>2, <2>1, <3>2 DEF TypeOK
    <3> QED BY <2>3, <3>1, <3>2 DEF ContextAfter
  <2>4. CASE UNCHANGED contractVars
    BY <2>4 DEF contractVars
  <2> QED BY <1>2, <2>2, <2>3, <2>4, CallbackOutcomes DEF Halt, Pops, CompleteSequence
<1> QED BY <1>1, <1>2

LEMMA SavedStep ==
  AccountInv /\ SavedInv /\ [SmartAccountNext]_automationVars => SavedInv'
<1> SUFFICES ASSUME AccountInv, SavedInv, [SmartAccountNext]_automationVars,
                    NEW ns \in AutoNamespaces, NEW name \in Names,
                    sequence_contexts'[ns][name] # None
             PROVE  In(sequence_contexts[ns][name], ns)'
  BY DEF SavedInv
<1>0. /\ AutomationTypeOK /\ TypeOK /\ StrandInv /\ ns \in Namespaces
      /\ sequence_contexts[ns][name] \in YieldIds \union {None}
      /\ sequence_contexts[ns][name] # None => In(sequence_contexts[ns][name], ns)
  BY AutoNamespaceFacts DEF AccountInv, AutomationTypeOK, TypeOK, SavedInv
<1>1. ASSUME sequence_contexts'[ns][name] = sequence_contexts[ns][name],
             \A y \in YieldIds : In(y, ns) => In(y, ns)'
      PROVE  In(sequence_contexts[ns][name], ns)'
  BY <1>0, <1>1 DEF In
<1>2. CASE Frozen(ns)
  <2>1. \A y \in YieldIds : In(y, ns) => In(y, ns)'
    BY <1>0, <1>2, FrozenChains DEF Frozen
  <2> QED BY <1>1, <1>2, <2>1 DEF Frozen, Untouched
<1>3. ASSUME NEW y \in YieldIds, Deliver(y)
      PROVE  In(sequence_contexts[ns][name], ns)'
  <2>1. \A z \in YieldIds : In(z, ns) => In(z, ns)'
    BY <1>0, <1>3, DeliverChains DEF In
  <2>2. CASE sequence_contexts'[ns][name] = y /\ In(y, ns)
    BY <1>3, <2>1, <2>2 DEF In
  <2> QED BY <1>0, <1>1, <1>3, <2>1, <2>2, DeliverSaves
<1>4. CASE StartsIn(ns)
  <2>1. UNCHANGED sequence_contexts
    BY <1>4 DEF StartsIn, execute_trigger
  <2>2. automation_runs[ns] = None
    BY <1>0, <1>4, ExecuteFacts DEF StartsIn
  <2>3. sequence_contexts[ns] = NoContext
    BY <2>2, NoneAssumption DEF AccountInv, FinishedRunLeavesNothing, RunStatus
  <2> QED BY <2>1, <2>3 DEF NoContext
<1> QED BY <1>0, <1>2, <1>3, <1>4, NamespaceCases

\* Only a callback sends a target call.
LEMMA SendsCases ==
  ASSUME AccountInv, NoReuse, [SmartAccountNext]_automationVars, NEW y \in YieldIds,
         NEW ns \in AutoNamespaces, In(y, ns), Sends(y)
  PROVE  Found(y) # None /\ Materializes(y)
<1>0. /\ AutomationTypeOK /\ TypeOK /\ StrandInv /\ NonceInv /\ Once(ns) /\ ns \in Namespaces
  BY AutoNamespaceFacts DEF AccountInv, AutomationTypeOK, NoReuse, Once
<1>1. Phase(y)' # Phase(y) /\ Phase(y)' \in {"target", "asserted_target"}
  BY DEF Sends
<1>2. ~Frozen(ns)
  BY <1>0, <1>1, FrozenChains DEF Frozen
<1>3. ~StartsIn(ns)
  BY <1>0, StartsInUnused
<1>4. PICK z \in YieldIds : Deliver(z)
  BY <1>0, <1>2, <1>3, NamespaceCases
<1>5. receipts[z] # None
  BY <1>0, <1>4, DeliverCases
<1>6. CASE Moves(z)
  <2>1. PICK phase \in Phases : MoveTo(z, phase)
    BY <1>6 DEF Moves, Phases, LivePhases, EndPhases
  <2>2. z = y
    BY <1>0, <1>1, <1>5, <2>1, MoveFacts
  <2> QED BY <1>6, <2>2 DEF Moves
<1>7. CASE Drops(z) \/ Halts(z) \/ Completes(z)
  <2>1. PICK phase \in {"dropped", "halted", "err", "ok"} : MoveTo(z, phase)
    BY <1>7 DEF Drops, Halts, Completes, CompleteSequence
  <2>2. Phase(y)' = Phase(y) \/ Phase(y)' = phase
    BY <1>0, <1>5, <2>1, MoveFacts, PhaseNames
  <2> QED BY <1>1, <2>1, <2>2
<1>8. CASE Releases(z)
  <2> DEFINE h == NextEntry(z).yield
  <2>1. /\ receipts'[h] # None /\ receipts'[h].phase = "resumed"
        /\ receipts'[z] # None /\ receipts'[z].phase = "ok"
        /\ \A w \in YieldIds : w # z /\ w # h => receipts'[w] = receipts[w]
    BY <1>0, <1>5, <1>8, ReleaseFacts
  <2> HIDE DEF h
  <2> QED BY <1>1, <2>1 DEF Phase
<1> QED BY <1>0, <1>4, <1>6, <1>7, <1>8, DeliverCases

LEMMA ReadsOwnStep ==
  ASSUME AccountInv, PlaceInv, SavedInv, NoReuse, [SmartAccountNext]_automationVars,
         NEW y \in YieldIds, Sends(y), receipts[y].ns \in AutoNamespaces,
         Found(y).call.uses # None
  PROVE  LET saver == sequence_contexts[receipts[y].ns][Found(y).call.uses]
         IN  ordered[saver].run = ordered[y].run
<1>0. TypeOK /\ receipts[y] # None
  <2>1. TypeOK
    BY DEF AccountInv, AutomationTypeOK
  <2> QED BY <2>1, LiveHasReceipt, PhaseNames DEF Sends
<1>1. PICK ns \in AutoNamespaces : In(y, ns) /\ ns = receipts[y].ns
  BY <1>0 DEF In
<1>2. Found(y) # None /\ Materializes(y)
  BY <1>1, SendsCases
<1>3. Found(y).call.uses \in Names
  <2>1. Key(y) \in Keys
    BY <1>0, KeyType
  <2>2. Found(y) \in RegisteredStep
    BY <1>0, <1>2, <2>1 DEF Found, TypeOK
  <2>3. Found(y).call \in Steps
    BY <2>2 DEF RegisteredStep
  <2> QED BY <2>3, StepFields
<1> DEFINE saver == sequence_contexts[ns][Found(y).call.uses]
<1>4. saver # None /\ saver \in YieldIds
  BY <1>0, <1>1, <1>2, <1>3, AutoNamespaceFacts DEF Materializes, TypeOK
<1>5. In(saver, ns)
  BY <1>3, <1>4 DEF SavedInv
<1>6. Places(ns)
  BY AutoNamespaceFacts DEF NoReuse, PlaceInv, Once
<1> HIDE DEF saver
<1>7. ordered[saver].run = ordered[y].run
  BY <1>1, <1>4, <1>5, <1>6 DEF Places
<1> QED BY <1>1, <1>7 DEF saver

\* The arguments of a step of an automation run are built from results that its own
\* run saved, never from those of an earlier run or of another trigger, in every
\* account that creates no trigger_id twice.
THEOREM ReadsOwnResults == SmartAccountSpec /\ []NoReuse => ReadsOwnRun
<1>1. AutomationInit => SavedInv
  BY AutoNamespaceFacts DEF AutomationInit, Init, SavedInv, NoContext
<1>2. SmartAccountSpec => []SavedInv
  BY <1>1, AccountAlways, SavedStep, PTL DEF SmartAccountSpec
<1>3. ASSUME AccountInv, PlaceInv, SavedInv, NoReuse, [SmartAccountNext]_automationVars
      PROVE  [\A y \in YieldIds :
                Sends(y) /\ receipts[y].ns \in AutoNamespaces /\ Found(y).call.uses # None =>
                LET saver == sequence_contexts[receipts[y].ns][Found(y).call.uses]
                IN  ordered[saver].run = ordered[y].run]_vars
  BY <1>3, ReadsOwnStep
<1> QED BY <1>2, <1>3, PlaceAlways, PTL DEF SmartAccountSpec, ReadsOwnRun

----------------------------------------------------------------------------
(* Manual chains keep their own registration, whatever automation does.    *)

\* Every chain of m that is alive holds its key.
LiveOwns(m, reg, rcpts) ==
  \A y \in YieldIds :
    rcpts[y] # None /\ rcpts[y].ns = m /\ rcpts[y].phase \in LivePhases
      => LET entry == reg[<<m, rcpts[y].id>>]
         IN  entry # None /\ entry.yield = y

LEMMA RegisterOwns ==
  ASSUME TypeOK, NEW m, LiveOwns(m, registered_steps, receipts),
         NEW n \in Namespaces, NEW plan \in Seq(Steps), DistinctIds(plan), CanRegister(n, plan)
  PROVE  LiveOwns(m, Registered(n, plan), Yielded(n, plan))
<1> DEFINE R == Registered(n, plan)
           Y == Yielded(n, plan)
<1>1. ASSUME NEW y \in YieldIds, Y[y] # None, Y[y].ns = m, Y[y].phase \in LivePhases
      PROVE  R[<<m, Y[y].id>>] # None /\ R[<<m, Y[y].id>>].yield = y
  <2>1. CASE y \in next_yield..(next_yield + Len(plan) - 1)
    <3> DEFINE i == y - next_yield + 1
    <3>1. i \in DOMAIN plan /\ Y[y] = [ns |-> n, id |-> plan[i].id, phase |-> "waiting"]
      BY <2>1, YieldedEntry
    <3>2. next_yield + i - 1 = y
      BY <2>1 DEF TypeOK, YieldIds
    <3> HIDE DEF i, Y, R
    <3>3. m = n /\ Y[y].id = plan[i].id
      BY <1>1, <3>1
    <3>4. /\ R[<<n, plan[i].id>>] # None
          /\ R[<<n, plan[i].id>>] = [yield |-> next_yield + i - 1, call |-> plan[i]]
      BY <3>1, RegisteredEntry DEF R
    <3> QED BY <3>2, <3>3, <3>4
  <2>2. CASE y \notin next_yield..(next_yield + Len(plan) - 1)
    <3>1. Y[y] = receipts[y]
      BY <2>2 DEF Yielded
    <3>2. Key(y) \in Keys /\ Key(y) = <<m, Y[y].id>>
      BY <1>1, <3>1, KeyType DEF Key
    <3>3. registered_steps[Key(y)] # None /\ registered_steps[Key(y)].yield = y
      BY <1>1, <3>1, <3>2 DEF LiveOwns
    <3>4. ~(Key(y)[1] = n /\ \E i \in DOMAIN plan : plan[i].id = Key(y)[2])
      <4> SUFFICES ASSUME Key(y)[1] = n, NEW i \in DOMAIN plan, plan[i].id = Key(y)[2]
                   PROVE  FALSE
        OBVIOUS
      <4>1. Key(y) = <<n, plan[i].id>>
        BY DEF Key
      <4> QED BY <3>3, <4>1 DEF CanRegister
    <3>5. R[Key(y)] = registered_steps[Key(y)]
      BY <3>2, <3>4 DEF Registered
    <3> QED BY <3>2, <3>3, <3>5
  <2> QED BY <2>1, <2>2
<1> QED BY <1>1 DEF LiveOwns

LEMMA StartOwns ==
  ASSUME NEW m \in Namespaces, NEW order \in Seq(StepIds), NEW next,
         NEW reg \in [Keys -> RegisteredStep \union {None}],
         NEW rcpts \in [YieldIds -> Receipt \union {None}],
         StrandIn(reg, rcpts, next), StartRelease(m, order, reg, rcpts),
         NEW ns, LiveOwns(ns, reg, rcpts)
  PROVE  LiveOwns(ns, registered_steps', receipts')
<1>0. Fits(reg, rcpts, next)
  BY DEF Fits
<1>s. ResumesHead(m, order, reg, rcpts)
  BY <1>0, StartHead
<1> DEFINE h == reg[<<m, Head(order)>>].yield
<1>1. /\ h \in YieldIds /\ rcpts[h] # None /\ rcpts[h].phase \in {"waiting", "resumed"}
      /\ receipts'[h] = [rcpts[h] EXCEPT !.phase = "resumed"]
      /\ \A y \in YieldIds : y # h => receipts'[y] = rcpts[y]
  <2>1. /\ h \in YieldIds /\ rcpts[h] # None /\ rcpts[h].ns = m
        /\ receipts'[h] = [rcpts[h] EXCEPT !.phase = "resumed"]
        /\ \A y \in YieldIds : y # h => receipts'[y] = rcpts[y]
    BY ONLY <1>s DEF ResumesHead
  <2>2. rcpts[h].phase \in {"waiting", "resumed"}
    BY ONLY <1>s DEF ResumesHead
  <2> HIDE DEF h
  <2> QED BY <2>1, <2>2
<1>2. registered_steps' = reg
  BY DEF StartRelease
<1> HIDE DEF h
<1>3. /\ receipts'[h].ns = rcpts[h].ns /\ receipts'[h].id = rcpts[h].id
      /\ rcpts[h].phase \in LivePhases
  BY <1>1 DEF Receipt, LivePhases, ReleasedPhases
<1>4. ASSUME NEW y \in YieldIds, receipts'[y] # None, receipts'[y].ns = ns,
             receipts'[y].phase \in LivePhases
      PROVE  /\ rcpts[y] # None /\ rcpts[y].ns = ns /\ rcpts[y].phase \in LivePhases
             /\ receipts'[y].id = rcpts[y].id
  BY <1>1, <1>3, <1>4
<1> QED BY <1>2, <1>4 DEF LiveOwns

\* A callback removes the registration of its own chain only from a manual namespace.
LEMMA DeliverOwns ==
  ASSUME TypeOK, StrandInv, NEW m \in ManualNamespaces,
         LiveOwns(m, registered_steps, receipts), NEW v \in YieldIds, Deliver(v)
  PROVE  LiveOwns(m, registered_steps', receipts')
<1>0. /\ receipts[v] # None /\ Live(v) /\ Key(v) \in Keys /\ m \in Namespaces
      /\ automation_runs[m] = None
  BY DeliverCases, KeyType DEF TypeOK, Namespaces
<1>1. \A z \in YieldIds :
        /\ receipts'[z] # None <=> receipts[z] # None
        /\ receipts[z] # None =>
             receipts'[z].ns = receipts[z].ns /\ receipts'[z].id = receipts[z].id
  BY DeliverChains
<1>2. ASSUME NEW z \in YieldIds, receipts'[z] # None, receipts'[z].phase \in LivePhases
      PROVE  /\ receipts[z] # None /\ receipts[z].phase \in LivePhases
             /\ z = v => UNCHANGED contractVars
  <2>0. receipts[v].phase \in LivePhases /\ LivePhases \intersect EndPhases = {}
    BY <1>0, LiveHasReceipt DEF Live, Phase, LivePhases, ReleasedPhases, EndPhases
  <2>1. ASSUME NEW phase \in Phases, MoveTo(v, phase), phase \in EndPhases \/ UNCHANGED contractVars
        PROVE  /\ receipts[z].phase \in LivePhases
               /\ z = v => UNCHANGED contractVars
    <3>1. receipts'[v].phase = phase /\ \A w \in YieldIds : w # v => receipts'[w] = receipts[w]
      BY <1>0, <2>1, MoveReceipt
    <3> QED BY <1>2, <2>0, <2>1, <3>1
  <2>2. CASE Moves(v)
    <3>1. PICK phase \in Phases : MoveTo(v, phase)
      BY <2>2 DEF Moves, Phases, LivePhases, EndPhases
    <3> QED BY <1>1, <1>2, <2>1, <2>2, <3>1 DEF Moves
  <2>3. CASE Drops(v) \/ Halts(v) \/ Completes(v)
    <3>1. PICK phase \in EndPhases : MoveTo(v, phase)
      BY <2>3 DEF Drops, Halts, Completes, CompleteSequence, EndPhases
    <3>2. phase \in Phases
      BY <3>1 DEF Phases
    <3> QED BY <1>1, <1>2, <2>1, <3>1, <3>2
  <2>4. CASE Releases(v)
    <3> DEFINE h == NextEntry(v).yield
    <3>1. /\ receipts[h].phase \in {"waiting", "resumed"} /\ receipts'[v].phase = "ok"
          /\ \A w \in YieldIds : w # v /\ w # h => receipts'[w] = receipts[w]
      BY <1>0, <2>4, ReleaseFacts
    <3> HIDE DEF h
    <3>2. z # v
      BY <1>2, <3>1 DEF LivePhases, ReleasedPhases
    <3>3. z = h => receipts[z].phase \in LivePhases
      BY <3>1 DEF LivePhases, ReleasedPhases
    <3> QED BY <1>1, <1>2, <3>1, <3>2, <3>3
  <2> QED BY <2>2, <2>3, <2>4, DeliverCases
<1>3. ASSUME NEW k \in Keys, k[1] = m, k # Key(v)
      PROVE  registered_steps'[k] = registered_steps[k]
  <2>0. k = <<m, k[2]>> /\ k[2] \in StepIds
    BY <1>3 DEF Keys
  <2>1. CASE m # receipts[v].ns
    BY <1>0, <2>0, <2>1, DeliverUntouched DEF Untouched
  <2>2. CASE m = receipts[v].ns
    <3>1. ASSUME registered_steps' = Without(Key(v))
          PROVE  registered_steps'[k] = registered_steps[k]
      BY <1>0, <1>3, <3>1 DEF Without, TypeOK
    <3>2. ASSUME NEW status, finish_automation_run(m, status, Without(Key(v)))
          PROVE  registered_steps' = Without(Key(v))
      BY <1>0, <3>2, NoneAssumption DEF finish_automation_run, RunStatus
    <3> QED BY <2>2, <3>1, <3>2, CallbackOutcomes
            DEF contractVars, Halt, Pops, CompleteSequence
  <2> QED BY <2>1, <2>2
<1>4. ASSUME NEW z \in YieldIds, receipts'[z] # None, receipts'[z].ns = m,
             receipts'[z].phase \in LivePhases
      PROVE  LET entry == registered_steps'[<<m, receipts'[z].id>>]
             IN  entry # None /\ entry.yield = z
  <2> DEFINE k == <<m, receipts[z].id>>
  <2>1. /\ receipts[z] # None /\ receipts[z].ns = m /\ receipts'[z].id = receipts[z].id
        /\ receipts[z].phase \in LivePhases /\ (z = v => UNCHANGED contractVars)
    BY <1>1, <1>2, <1>4
  <2>2. k \in Keys /\ k = Key(z) /\ k[1] = m
    BY <2>1, KeyType DEF Key
  <2>3. registered_steps[k] # None /\ registered_steps[k].yield = z
    BY <2>1 DEF LiveOwns
  <2>4. z # v => k # Key(v)
    <3> SUFFICES ASSUME z # v, Key(z) = Key(v) PROVE FALSE
      BY <2>2
    <3>1. receipts[v].ns = m /\ receipts[v].id = receipts[z].id
      BY <2>1, <2>2 DEF Key
    <3>2. receipts[v].phase \in LivePhases
      BY <1>0 DEF Live, Phase
    <3>3. registered_steps[k].yield = v
      BY <1>0, <3>1, <3>2 DEF LiveOwns
    <3> QED BY <2>3, <3>3
  <2> HIDE DEF k
  <2>5. registered_steps'[k] = registered_steps[k]
    BY <1>3, <2>1, <2>2, <2>4 DEF contractVars
  <2> QED BY <2>1, <2>3, <2>5 DEF k
<1> QED BY <1>4 DEF LiveOwns

ManualLive ==
  \A m \in ManualNamespaces : LiveOwns(m, registered_steps, receipts)

LEMMA ManualLiveStep ==
  AutomationTypeOK /\ StrandInv /\ ManualLive /\ [SmartAccountNext]_automationVars
    => ManualLive'
<1> SUFFICES ASSUME AutomationTypeOK, StrandInv, ManualLive,
                    [SmartAccountNext]_automationVars, NEW m \in ManualNamespaces
             PROVE  LiveOwns(m, registered_steps', receipts')
  BY DEF ManualLive, LiveOwns
<1>0. TypeOK /\ LiveOwns(m, registered_steps, receipts)
  BY DEF AutomationTypeOK, ManualLive
<1>1. ASSUME UNCHANGED <<registered_steps, receipts>>
      PROVE  LiveOwns(m, registered_steps', receipts')
  BY <1>0, <1>1
<1>2. ASSUME NEW n \in Namespaces, NEW plan \in Plans, CanRegister(n, plan),
             StartRelease(n, IdsOf(plan), Registered(n, plan), Yielded(n, plan))
      PROVE  LiveOwns(m, registered_steps', receipts')
  <2> DEFINE reg == Registered(n, plan)
             rcpts == Yielded(n, plan)
  <2>1. plan \in Seq(Steps) /\ IdsOf(plan) \in Seq(StepIds) /\ DistinctIds(plan)
    BY PlanFacts, IdsOfType
  <2>2. LiveOwns(m, reg, rcpts)
    BY <1>0, <1>2, <2>1, RegisterOwns
  <2>3. /\ reg \in [Keys -> RegisteredStep \union {None}]
        /\ rcpts \in [YieldIds -> Receipt \union {None}]
        /\ StrandIn(reg, rcpts, next_yield + Len(plan))
    BY <1>0, <1>2, <2>1, RegisterType, RegisterStrand
  <2>4. StartRelease(n, IdsOf(plan), reg, rcpts)
    BY <1>2
  <2> HIDE DEF reg, rcpts
  <2> QED BY <2>1, <2>2, <2>3, <2>4, StartOwns
<1>3. \A caller \in Callers : manual_namespace(caller) \in Namespaces
  BY DEF ManualNamespaces, Namespaces
<1>4. ASSUME NEW account, set_authorized_executor(account)
      PROVE  LiveOwns(m, registered_steps', receipts')
  BY <1>1, <1>4 DEF set_authorized_executor, contractVars
<1>5. ASSUME NEW caller \in Callers, NEW step \in Steps, register_step(caller, step)
      PROVE  LiveOwns(m, registered_steps', receipts')
  <2> DEFINE n == manual_namespace(caller)
  <2>1. /\ n \in Namespaces /\ <<step>> \in Seq(Steps) /\ DistinctIds(<<step>>)
        /\ CanRegister(n, <<step>>)
    BY <1>3, <1>5 DEF register_step, DistinctIds
  <2>2. registered_steps' = Registered(n, <<step>>) /\ receipts' = Yielded(n, <<step>>)
    BY <1>5 DEF register_step
  <2> HIDE DEF n
  <2> QED BY <1>0, <2>1, <2>2, RegisterOwns
<1>6. ASSUME NEW caller \in Callers, NEW plan \in Plans, execute_steps(caller, plan)
      PROVE  LiveOwns(m, registered_steps', receipts')
  BY <1>2, <1>3, <1>6 DEF execute_steps
<1>7. ASSUME NEW who \in Accounts, NEW caller \in Callers, NEW order \in Orders,
             run_sequence(who, caller, order)
      PROVE  LiveOwns(m, registered_steps', receipts')
  <2> DEFINE n == manual_namespace(caller)
  <2>1. n \in Namespaces /\ order \in Seq(StepIds)
    BY <1>3, PlansAssumption
  <2>2. StartRelease(n, order, registered_steps, receipts)
    BY <1>7 DEF run_sequence
  <2>3. /\ registered_steps \in [Keys -> RegisteredStep \union {None}]
        /\ receipts \in [YieldIds -> Receipt \union {None}]
        /\ StrandIn(registered_steps, receipts, next_yield)
    BY <1>0 DEF TypeOK, StrandInv
  <2> HIDE DEF n
  <2> QED BY <1>0, <2>1, <2>2, <2>3, StartOwns
<1>8. ASSUME NEW v \in YieldIds, Deliver(v)
      PROVE  LiveOwns(m, registered_steps', receipts')
  BY <1>0, <1>8, DeliverOwns
<1>9. CASE Executes
  <2>1. PICK who \in Accounts, pk \in PublicKeys \union {None}, t \in Triggers :
          execute_trigger(who, pk, t)
    BY <1>9 DEF Executes
  <2> DEFINE n == automation_namespace(t, balance_triggers[t].runs_started + 1)
             plan == sequence_templates[balance_triggers[t].sequence]
  <2>2. n \in Namespaces /\ plan \in Plans
    BY <2>1, ExecuteFacts, AutoNamespaceFacts
  <2>3. /\ CanRegister(n, plan)
        /\ StartRelease(n, IdsOf(plan), Registered(n, plan), Yielded(n, plan))
    BY <2>1 DEF execute_trigger
  <2> HIDE DEF n, plan
  <2> QED BY <1>2, <2>2, <2>3
<1>10. CASE Calm
  BY <1>1, <1>10 DEF Calm
<1> QED BY <1>4, <1>5, <1>6, <1>7, <1>8, <1>9, <1>10, StepCases DEF Manual

\* A callback of a manual or of an automation run only ever meets the registration it
\* was created with, in every account that creates no trigger_id twice: the lookup by
\* namespace and id finds the step of another yield in none.
THEOREM AccountCallbackSafe == SmartAccountSpec => [](NoReuse => CallbackFindsOwnStep)
<1>1. AutomationInit => ManualLive
  BY DEF AutomationInit, Init, ManualLive, LiveOwns
<1>2. AccountInv /\ ManualLive /\ [SmartAccountNext]_automationVars => ManualLive'
  BY ManualLiveStep DEF AccountInv
<1>3. AccountInv /\ ManualLive => (NoReuse => CallbackFindsOwnStep)
  <2> SUFFICES ASSUME AccountInv, ManualLive, NoReuse, NEW y \in YieldIds, Live(y),
                      Found(y) # None
               PROVE  Found(y).yield = y
    BY DEF CallbackFindsOwnStep
  <2>0. TypeOK /\ StrandInv
    BY DEF AccountInv, AutomationTypeOK
  <2>1. receipts[y] # None
    BY <2>0, LiveHasReceipt DEF Live, Phases
  <2>2. /\ Key(y) \in Keys /\ receipts[y].ns \in Namespaces
        /\ Key(y) = <<receipts[y].ns, receipts[y].id>>
        /\ receipts[y].phase \in LivePhases
    BY <2>0, <2>1, KeyType DEF Key, Live
  <2>3. CASE receipts[y].ns \in ManualNamespaces
    BY <2>1, <2>2, <2>3 DEF ManualLive, LiveOwns, Found
  <2>4. CASE receipts[y].ns \in AutoNamespaces
    <3>1. PICK ns \in AutoNamespaces : receipts[y].ns = ns
      BY <2>4
    <3>2. RunInv(ns)
      BY AutoNamespaceFacts DEF NoReuse, AccountInv, RunsInv, Once
    <3> DEFINE z == Found(y).yield
    <3>3. z \in YieldIds /\ receipts[z] # None /\ Key(z) = Key(y)
      BY <2>0, <2>2 DEF Found, StrandInv, StrandIn, TypeOK, RegisteredStep, Key
    <3> HIDE DEF z
    <3>4. z = y
      BY <2>1, <3>1, <3>2, <3>3 DEF RunInv, DistinctChains, In, Key
    <3> QED BY <3>4 DEF z
  <2> QED BY <2>2, <2>3, <2>4 DEF Namespaces
<1> QED BY <1>1, <1>2, <1>3, AccountInit, AccountStep, PTL DEF SmartAccountSpec


----------------------------------------------------------------------------
(* Automation runs implement OrderedRun.                                   *)

\* What the callback of a chain does to its phase, and to that of the others.
LEMMA CallbackPhases ==
  ASSUME TypeOK, StrandInv, NEW y \in YieldIds, Deliver(y)
  PROVE  /\ Phase(y) \in SentPhases => Phase(y)' \in SentPhases
         /\ Phase(y) \notin SentPhases /\ Phase(y)' \in SentPhases =>
              Phase(y) \in {"resumed", "gate"} /\ Phase(y)' # "ok"
         /\ Phase(y)' = "ok" <=> Phase(y) = "resolve_ok"
         /\ Phase(y) # "ok"
         /\ \A z \in YieldIds : z # y /\ Phase(z)' # Phase(z) =>
              Phase(z) \in {"waiting", "resumed"} /\ Phase(z)' = "resumed"
<1>0. receipts[y] # None /\ Live(y)
  BY DeliverCases
<1>1. ASSUME NEW phase \in Phases, MoveTo(y, phase)
      PROVE  Phase(y)' = phase /\ \A z \in YieldIds : z # y => Phase(z)' = Phase(z)
  BY <1>0, <1>1, MoveReceipt DEF Phase
<1>2. Phases = {"waiting", "resumed", "gate", "target", "asserted_target", "check",
                "resolve_ok", "resolve_err", "ok", "err", "halted", "dropped", "aborted"}
  BY DEF Phases, LivePhases, ReleasedPhases, EndPhases
<1>3. Phase(y) # "ok"
  BY <1>0 DEF Live, LivePhases, ReleasedPhases
<1>4. CASE on_step_resumed(y) \/ on_pre_gate_checked(y)
  <2>1. /\ Phase(y) \in {"waiting", "resumed", "gate"}
        /\ \/ \E phase \in {"gate", "aborted", "dropped", "halted"} : MoveTo(y, phase)
           \/ /\ Phase(y) \in {"resumed", "gate"}
              /\ \E phase \in {"target", "asserted_target"} : MoveTo(y, phase)
    BY <1>4 DEF on_step_resumed, on_step_resumed_ok, on_step_resumed_err, WakesUpLate,
       on_pre_gate_checked, on_pre_gate_checked_ungated, on_pre_gate_checked_in_range,
       halt_sequence_on_pre_gate_failure, halt_on_materialize_failure,
       dispatch_promise_for_call
  <2> QED BY <1>1, <1>2, <1>3, <2>1 DEF SentPhases
<1>5. ASSUME NEW ok \in BOOLEAN,
             \/ TargetReturns(y, ok)
             \/ on_asserted_run_postcheck(y, ok)
             \/ on_asserted_evaluate_postcheck(y, ok)
      PROVE  /\ Phase(y) \in {"target", "asserted_target", "check"}
             /\ \E phase \in {"check", "resolve_ok", "resolve_err"} : MoveTo(y, phase)
  BY <1>5 DEF TargetReturns, on_asserted_run_postcheck, on_asserted_evaluate_postcheck
<1>6. CASE \E ok \in BOOLEAN : \/ TargetReturns(y, ok)
                               \/ on_asserted_run_postcheck(y, ok)
                               \/ on_asserted_evaluate_postcheck(y, ok)
  BY <1>1, <1>2, <1>3, <1>5, <1>6 DEF SentPhases
<1>7. CASE on_step_resolved_ok(y)
  <2>1. Phase(y) = "resolve_ok" /\ (ReleaseNext(y) \/ CompleteSequence(y))
    BY <1>7 DEF on_step_resolved_ok
  <2>2. CASE MoveTo(y, "ok")
    BY <1>1, <1>2, <1>3, <2>1, <2>2 DEF SentPhases
  <2>3. CASE Releases(y)
    BY <1>0, <1>2, <1>3, <2>1, <2>3, ReleaseFacts DEF Phase, SentPhases
  <2>4. ReleaseNext(y) /\ ~CanRelease(y) => MoveTo(y, "ok")
    BY DEF ReleaseNext, CanRelease, NextEntry
  <2>5. ReleaseNext(y) /\ CanRelease(y) => Releases(y)
    BY <2>1 DEF ReleaseNext, CanRelease, NextEntry, Releases, Pops
  <2> QED BY <2>1, <2>2, <2>3, <2>4, <2>5 DEF CompleteSequence
<1>8. CASE on_step_resolved_err(y)
  BY <1>1, <1>2, <1>3, <1>8 DEF on_step_resolved_err, SentPhases
<1> QED BY <1>4, <1>6, <1>7, <1>8 DEF Deliver
\* The ids of the chains of a block, each at its chain's place.
PlacedIds(first, chains) ==
  [i \in {y - first + 1 : y \in chains} |-> receipts[first + i - 1].id]

BlockIds ==
  \A ns, first, last : Block(ns, first, last) =>
    \A chains \in SUBSET (first..last) : IdsAtPlaces(ns, chains) = PlacedIds(first, chains)

LEMMA BlockIdsNow == BlockIds
<1> SUFFICES ASSUME NEW ns, NEW first, NEW last, Block(ns, first, last),
                    NEW chains \in SUBSET (first..last)
             PROVE  IdsAtPlaces(ns, chains) = PlacedIds(first, chains)
  BY DEF BlockIds
<1>0. first \in Nat /\ first # 0 /\ last \in Nat
  BY DEF Block
<1>1. \A y \in first..last :
        y \in YieldIds /\ In(y, ns) /\ ordered[y].pos = y - first + 1
  BY DEF Block
<1>2. \A y : y \in ChainsOf(ns) <=> y \in first..last
  BY DEF Block, ChainsOf, In
<1>3. {ordered[y].pos : y \in chains} = {y - first + 1 : y \in chains}
  BY <1>1
<1>4. ASSUME NEW z \in chains PROVE IdAt(ns, z - first + 1) = receipts[z].id
  <2> DEFINE i == z - first + 1
             y == CHOOSE y \in ChainsOf(ns) : ordered[y].pos = i
  <2>1. z \in ChainsOf(ns) /\ ordered[z].pos = i
    BY <1>1, <1>2
  <2>2. y \in ChainsOf(ns) /\ ordered[y].pos = i
    BY <2>1
  <2>3. IdAt(ns, i) = receipts[y].id
    BY DEF IdAt
  <2> HIDE DEF y
  <2>4. y \in first..last /\ y - first + 1 = z - first + 1
    BY <1>1, <1>2, <2>2
  <2>5. y = z
    BY <1>0, <2>4
  <2> QED BY <2>3, <2>5
<1>5. ASSUME NEW i \in {y - first + 1 : y \in chains}
      PROVE  IdAt(ns, i) = receipts[first + i - 1].id
  <2>1. PICK z \in chains : i = z - first + 1
    OBVIOUS
  <2>2. first + i - 1 = z
    BY <1>0, <2>1
  <2> QED BY <1>4, <2>1, <2>2
<1>6. IdsAtPlaces(ns, chains) = [i \in {y - first + 1 : y \in chains} |-> IdAt(ns, i)]
  BY <1>3 DEF IdsAtPlaces
<1> QED BY <1>5, <1>6 DEF PlacedIds

LEMMA BlockIdsNext == BlockIds'
BY BlockIdsNow, PTL

\* A step that keeps the ids of a block keeps them at their places.
LEMMA PlacedIdsKept ==
  ASSUME NEW first \in Nat, NEW last \in Nat, NEW chains \in SUBSET (first..last),
         \A y \in first..last : receipts'[y].id = receipts[y].id
  PROVE  PlacedIds(first, chains)' = PlacedIds(first, chains)
<1>1. ASSUME NEW i \in {y - first + 1 : y \in chains}
      PROVE  receipts'[first + i - 1].id = receipts[first + i - 1].id
  <2>1. PICK z \in chains : i = z - first + 1
    OBVIOUS
  <2>2. first + i - 1 = z
    BY <2>1
  <2> QED BY <2>2
<1> QED BY <1>1 DEF PlacedIds

\* The first chains of a block are at the first places.
LEMMA FirstPlaces ==
  ASSUME NEW first \in Nat, NEW n \in Nat
  PROVE  {y - first + 1 : y \in first..(first + n - 1)} = 1..n
<1>1. ASSUME NEW i \in 1..n PROVE \E y \in first..(first + n - 1) : y - first + 1 = i
  <2>1. first + i - 1 \in first..(first + n - 1) /\ (first + i - 1) - first + 1 = i
    OBVIOUS
  <2> QED BY <2>1
<1>2. \A y \in first..(first + n - 1) : y - first + 1 \in 1..n
  OBVIOUS
<1> QED BY <1>1, <1>2

\* The order of a run whose chains are a block.
LEMMA BlockOrder ==
  ASSUME NEW ns, NEW first, NEW last, Block(ns, first, last)
  PROVE  ChainsOf(ns) = first..last /\ OrderOf(ns) = PlacedIds(first, first..last)
<1>1. ChainsOf(ns) = first..last
  BY DEF Block, ChainsOf, In
<1> QED BY <1>1, BlockIdsNow DEF BlockIds, OrderOf

LEMMA BlockOrderNext ==
  ASSUME NEW ns, NEW first, NEW last, Block(ns, first, last)'
  PROVE  ChainsOf(ns)' = first..last /\ OrderOf(ns)' = PlacedIds(first, first..last)'
<1>1. ChainsOf(ns)' = first..last
  BY DEF Block, ChainsOf, In
<1> QED BY <1>1, BlockIdsNext DEF BlockIds, OrderOf
\* The ids of the first n chains of a block are a sequence of n step ids.
Prefix(first, n) == PlacedIds(first, first..(first + n - 1))

PrefixIds ==
  TypeOK => \A ns, first, last : Block(ns, first, last) =>
    \A n \in Nat : n <= last - first + 1 =>
      /\ Prefix(first, n) \in Seq(StepIds) /\ Len(Prefix(first, n)) = n
      /\ \A i \in 1..n : Prefix(first, n)[i] = receipts[first + i - 1].id

LEMMA PrefixIdsNow == PrefixIds
<1> SUFFICES ASSUME TypeOK, NEW ns, NEW first, NEW last, Block(ns, first, last),
                    NEW n \in Nat, n <= last - first + 1
             PROVE  /\ Prefix(first, n) \in Seq(StepIds) /\ Len(Prefix(first, n)) = n
                    /\ \A i \in 1..n : Prefix(first, n)[i] = receipts[first + i - 1].id
  BY DEF PrefixIds
<1>0. first \in Nat /\ first # 0 /\ last \in Nat
  BY DEF Block
<1>1. Prefix(first, n) = [i \in 1..n |-> receipts[first + i - 1].id]
  BY <1>0, FirstPlaces DEF Prefix, PlacedIds
<1>2. ASSUME NEW i \in 1..n PROVE receipts[first + i - 1].id \in StepIds
  <2>1. first + i - 1 \in first..last
    BY <1>0
  <2>2. first + i - 1 \in YieldIds /\ receipts[first + i - 1] # None
    BY <2>1 DEF Block, In
  <2> QED BY <2>2 DEF TypeOK, Receipt
<1>3. Prefix(first, n) \in Seq(StepIds)
  <2> DEFINE e(i) == receipts[first + i - 1].id
  <2>1. \A i \in 1..n : e(i) \in StepIds
    BY <1>2
  <2> HIDE DEF e
  <2>2. [i \in 1..n |-> e(i)] \in Seq(StepIds)
    BY ONLY <2>1, n \in Nat, IsASeq
  <2> QED BY <1>1, <2>2 DEF e
<1>4. DOMAIN Prefix(first, n) = 1..n
  BY <1>1
<1>5. Len(Prefix(first, n)) = n
  BY ONLY <1>3, <1>4, n \in Nat, LenProperties
<1> QED BY <1>1, <1>3, <1>5

LEMMA PrefixIdsNext == PrefixIds'
BY PrefixIdsNow, PTL

\* The three steps of OrderedRun, as a step of the account shows them of a run.
StaysAt(ns) ==
  OrderOf(ns)' = OrderOf(ns) /\ CallsOf(ns)' = CallsOf(ns) /\ AnswersOf(ns)' = AnswersOf(ns)

BeginsAt(ns) ==
  /\ OrderOf(ns) = <<>> /\ OrderOf(ns)' \in Seq(StepIds)
  /\ CallsOf(ns)' = CallsOf(ns) /\ AnswersOf(ns)' = AnswersOf(ns)

CallsAt(ns) ==
  /\ AnswersOf(ns) = Len(CallsOf(ns)) /\ Len(CallsOf(ns)) < Len(OrderOf(ns))
  /\ CallsOf(ns)' = Append(CallsOf(ns), OrderOf(ns)[Len(CallsOf(ns)) + 1])
  /\ OrderOf(ns)' = OrderOf(ns) /\ AnswersOf(ns)' = AnswersOf(ns)

AnswersAt(ns) ==
  /\ AnswersOf(ns) < Len(CallsOf(ns)) /\ AnswersOf(ns)' = AnswersOf(ns) + 1
  /\ OrderOf(ns)' = OrderOf(ns) /\ CallsOf(ns)' = CallsOf(ns)

\* A block that keeps its chains and their ids shows no step while the same targets
\* have been called and the same calls answered.
LEMMA BlockStays ==
  ASSUME NEW ns, NEW first, NEW last, Block(ns, first, last), Block(ns, first, last)',
         \A y \in first..last : receipts'[y].id = receipts[y].id
  PROVE  /\ OrderOf(ns)' = OrderOf(ns)
         /\ Called(ns)' = Called(ns) => CallsOf(ns)' = CallsOf(ns)
         /\ Answered(ns)' = Answered(ns) => AnswersOf(ns)' = AnswersOf(ns)
<1>0. first \in Nat /\ last \in Nat
  BY DEF Block
<1>1. OrderOf(ns)' = OrderOf(ns)
  <2>1. PICK chains \in SUBSET (first..last) : chains = first..last
    OBVIOUS
  <2>2. PlacedIds(first, chains)' = PlacedIds(first, chains)
    BY <1>0, <2>1, PlacedIdsKept
  <2>3. OrderOf(ns) = PlacedIds(first, chains) /\ OrderOf(ns)' = PlacedIds(first, chains)'
    BY <2>1, BlockOrder, BlockOrderNext
  <2> QED BY <2>2, <2>3
<1>2. ASSUME Called(ns)' = Called(ns) PROVE CallsOf(ns)' = CallsOf(ns)
  <2>1. Called(ns) \in SUBSET (first..last)
    BY BlockOrder DEF Called
  <2>2. CallsOf(ns) = PlacedIds(first, Called(ns))
    BY <2>1, BlockIdsNow DEF BlockIds, CallsOf
  <2>3. CallsOf(ns)' = PlacedIds(first, Called(ns))'
    BY <1>2, <2>1, BlockIdsNext DEF BlockIds, CallsOf
  <2>4. PICK chains \in SUBSET (first..last) : chains = Called(ns)
    BY <2>1
  <2>5. PlacedIds(first, chains)' = PlacedIds(first, chains)
    BY <1>0, PlacedIdsKept
  <2> QED BY <1>2, <2>2, <2>3, <2>4, <2>5 DEF PlacedIds
<1> QED BY <1>1, <1>2 DEF AnswersOf
\* The prefix of a block that has been called, or answered.
LEMMA PrefixCalls ==
  ASSUME TypeOK, NEW ns, NEW first, NEW last, Block(ns, first, last), NEW n \in Nat,
         n <= last - first + 1
  PROVE  /\ Called(ns) = first..(first + n - 1) => CallsOf(ns) = Prefix(first, n)
         /\ Answered(ns) = first..(first + n - 1) => AnswersOf(ns) = n
<1>0. first \in Nat /\ last \in Nat
  BY DEF Block
<1>1. first..(first + n - 1) \in SUBSET (first..last)
  BY <1>0
<1>2. Called(ns) = first..(first + n - 1) => CallsOf(ns) = Prefix(first, n)
  BY <1>1, BlockIdsNow DEF BlockIds, CallsOf, Prefix
<1>3. Cardinality(first..(first + n - 1)) = n
  <2>1. first \in Int /\ first + n - 1 \in Int
    BY <1>0
  <2>2. Cardinality(first..(first + n - 1)) =
          IF first > first + n - 1 THEN 0 ELSE (first + n - 1) - first + 1
    BY ONLY <2>1, FS_Interval
  <2> QED BY <1>0, <2>2
<1> QED BY <1>2, <1>3 DEF AnswersOf

\* In an ordered run, what lies before a chain that has started is answered, and what
\* lies behind it has not started.
LEMMA AroundStarted ==
  ASSUME NEW ns, NEW first, NEW last, Block(ns, first, last), OrderedChains(ns),
         NEW y \in first..last, Started(y), Phase(y) # "ok"
  PROVE  /\ Answered(ns) = first..(y - 1)
         /\ Called(ns) = first..(IF Phase(y) \in SentPhases THEN y ELSE y - 1)
<1>0. first \in Nat /\ last \in Nat /\ y \in Nat /\ ChainsOf(ns) = first..last
  <2>1. first \in Nat /\ last \in Nat
    BY DEF Block
  <2> QED BY <2>1, BlockOrder
<1>1. \A z \in first..last : z \in YieldIds /\ In(z, ns)
  BY DEF Block
<1>2. \A z \in first..last : z < y => Phase(z) = "ok"
  BY <1>1 DEF OrderedChains
<1>3. \A z \in first..last : y < z => ~Started(z)
  BY <1>1 DEF OrderedChains
<1>4. \A z : Phase(z) \in SentPhases => Started(z)
  BY DEF SentPhases, Started, ReleasedPhases
<1>5. "ok" \in SentPhases
  BY DEF SentPhases
<1>6. \A z \in first..last : Phase(z) = "ok" <=> z < y
  BY <1>0, <1>2, <1>3, <1>4, <1>5
<1>7. \A z \in first..last :
        Phase(z) \in SentPhases <=> z < y \/ (z = y /\ Phase(y) \in SentPhases)
  BY <1>0, <1>2, <1>3, <1>4, <1>5
<1>8. Answered(ns) = first..(y - 1)
  BY <1>0, <1>6 DEF Answered
<1>9. Called(ns) = first..(IF Phase(y) \in SentPhases THEN y ELSE y - 1)
  BY <1>0, <1>7 DEF Called
<1> QED BY <1>8, <1>9

\* A callback in a run shows one of the steps of OrderedRun, or none.
LEMMA DeliverKeepsPromise ==
  ASSUME TypeOK, TypeOK', StrandInv, NEW ns, OrderedChains(ns), NEW y \in YieldIds,
         Deliver(y), In(y, ns), NEW first, NEW last,
         Block(ns, first, last), Block(ns, first, last)'
  PROVE  StaysAt(ns) \/ CallsAt(ns) \/ AnswersAt(ns)
<1>0. /\ first \in Nat /\ last \in Nat /\ y \in Nat /\ y \in first..last
      /\ ChainsOf(ns) = first..last /\ ChainsOf(ns)' = first..last
      /\ \A z \in first..last : z \in YieldIds /\ In(z, ns)
  <2>1. /\ first \in Nat /\ last \in Nat /\ y \in first..last
        /\ \A z \in first..last : z \in YieldIds /\ In(z, ns)
    BY DEF Block
  <2> QED BY <2>1, BlockOrder, BlockOrderNext
<1>1. /\ Phase(y) \in SentPhases => Phase(y)' \in SentPhases
      /\ Phase(y) \notin SentPhases /\ Phase(y)' \in SentPhases =>
           Phase(y) \in {"resumed", "gate"} /\ Phase(y)' # "ok"
      /\ Phase(y)' = "ok" <=> Phase(y) = "resolve_ok"
      /\ Phase(y) # "ok"
      /\ \A z \in YieldIds : z # y /\ Phase(z)' # Phase(z) =>
           Phase(z) \in {"waiting", "resumed"} /\ Phase(z)' = "resumed"
  BY CallbackPhases
<1>2. \A z \in first..last : receipts'[z].id = receipts[z].id
  BY <1>0, DeliverChains DEF In
<1>3. /\ OrderOf(ns)' = OrderOf(ns)
      /\ Called(ns)' = Called(ns) => CallsOf(ns)' = CallsOf(ns)
      /\ Answered(ns)' = Answered(ns) => AnswersOf(ns)' = AnswersOf(ns)
  BY <1>2, BlockStays
<1>4. \A z \in first..last : z # y =>
        /\ Phase(z)' \in SentPhases <=> Phase(z) \in SentPhases
        /\ Phase(z)' = "ok" <=> Phase(z) = "ok"
  BY <1>0, <1>1 DEF SentPhases
<1>5. "ok" \in SentPhases /\ "resolve_ok" \in SentPhases
  BY DEF SentPhases
<1>6. CASE Phase(y)' \in SentPhases <=> Phase(y) \in SentPhases
  <2>1. Called(ns)' = Called(ns)
    BY <1>0, <1>4, <1>6 DEF Called
  <2>2. CASE Phase(y) # "resolve_ok"
    <3>1. Answered(ns)' = Answered(ns)
      BY <1>0, <1>1, <1>4, <2>2 DEF Answered
    <3> QED BY <1>3, <2>1, <3>1 DEF StaysAt
  <2>3. CASE Phase(y) = "resolve_ok"
    <3> DEFINE n == y - first
    <3>1. Started(y)
      BY <2>3 DEF Started, ReleasedPhases
    <3>2. Answered(ns) = first..(y - 1) /\ Called(ns) = first..y
      BY <1>0, <1>1, <1>5, <2>3, <3>1, AroundStarted
    <3>3. Answered(ns)' = first..y
      BY <1>0, <1>1, <1>4, <2>3, <3>2 DEF Answered
    <3>4. /\ n \in Nat /\ n + 1 <= last - first + 1 /\ n <= last - first + 1
          /\ first + n - 1 = y - 1 /\ first + (n + 1) - 1 = y /\ n + 1 \in Nat
      BY <1>0
    <3>5. AnswersOf(ns) = n /\ CallsOf(ns) = Prefix(first, n + 1)
      BY <3>2, <3>4, PrefixCalls
    <3>6. Len(CallsOf(ns)) = n + 1
      BY <3>4, <3>5, PrefixIdsNow DEF PrefixIds
    <3>7. AnswersOf(ns)' = n + 1
      <4>1. Cardinality(first..y) = y - first + 1
        BY <1>0, FS_Interval
      <4> QED BY <1>0, <3>3, <4>1 DEF AnswersOf
    <3> QED BY <1>3, <2>1, <3>4, <3>5, <3>6, <3>7 DEF AnswersAt
  <2> QED BY <2>2, <2>3
<1>7. CASE Phase(y) \notin SentPhases /\ Phase(y)' \in SentPhases
  <2> DEFINE n == y - first
  <2>1. Started(y)
    BY <1>1, <1>7 DEF Started, ReleasedPhases
  <2>2. Answered(ns) = first..(y - 1) /\ Called(ns) = first..(y - 1)
    BY <1>0, <1>1, <1>7, <2>1, AroundStarted
  <2>3. Answered(ns)' = Answered(ns)
    BY <1>0, <1>1, <1>4, <1>7 DEF Answered
  <2>4. Called(ns)' = first..y
    <3>1. \A z \in first..last : Phase(z)' \in SentPhases <=> z \in Called(ns) \/ z = y
      BY <1>0, <1>4, <1>7 DEF Called
    <3>2. Called(ns)' = {z \in first..last : z \in first..(y - 1) \/ z = y}
      BY <1>0, <2>2, <3>1 DEF Called
    <3> QED BY <1>0, <3>2
  <2>5. /\ n \in Nat /\ n + 1 <= last - first + 1 /\ n <= last - first + 1
        /\ first + n - 1 = y - 1 /\ first + (n + 1) - 1 = y /\ n + 1 \in Nat
        /\ first + (last - first + 1) - 1 = last /\ last - first + 1 \in Nat
        /\ n + 1 \in 1..(last - first + 1)
    BY <1>0
  <2>6. AnswersOf(ns) = n /\ CallsOf(ns) = Prefix(first, n)
    BY <2>2, <2>5, PrefixCalls
  <2>7. CallsOf(ns)' = Prefix(first, n + 1)'
    <3>1. first..y \in SUBSET (first..last)
      BY <1>0
    <3>2. CallsOf(ns)' = PlacedIds(first, first..y)'
      BY <2>4, <3>1, BlockIdsNext DEF BlockIds, CallsOf
    <3>3. Prefix(first, n + 1)' = PlacedIds(first, first..y)'
      BY <2>5 DEF Prefix, PlacedIds
    <3> QED BY <3>2, <3>3
  <2>8. OrderOf(ns) = Prefix(first, last - first + 1)
    BY <2>5, BlockOrder DEF Prefix
  <2> HIDE DEF n
  <2>9. /\ Prefix(first, n) \in Seq(StepIds) /\ Len(Prefix(first, n)) = n
        /\ \A i \in 1..n : Prefix(first, n)[i] = receipts[first + i - 1].id
        /\ Len(OrderOf(ns)) = last - first + 1
        /\ OrderOf(ns)[n + 1] = receipts[first + (n + 1) - 1].id
        /\ OrderOf(ns)[n + 1] \in StepIds
    <3>1. PrefixIds
      BY PrefixIdsNow
    <3>2. /\ Prefix(first, n) \in Seq(StepIds) /\ Len(Prefix(first, n)) = n
          /\ \A i \in 1..n : Prefix(first, n)[i] = receipts[first + i - 1].id
      BY <2>5, <3>1 DEF PrefixIds
    <3>3. /\ OrderOf(ns) \in Seq(StepIds) /\ Len(OrderOf(ns)) = last - first + 1
          /\ OrderOf(ns)[n + 1] = receipts[first + (n + 1) - 1].id
      BY <2>5, <2>8, <3>1 DEF PrefixIds
    <3> QED BY <2>5, <3>2, <3>3
  <2>10. /\ Prefix(first, n + 1)' \in Seq(StepIds) /\ Len(Prefix(first, n + 1)') = n + 1
         /\ \A i \in 1..(n + 1) : Prefix(first, n + 1)'[i] = receipts'[first + i - 1].id
    BY <2>5, PrefixIdsNext DEF PrefixIds
  <2>11. \A i \in 1..(n + 1) : receipts'[first + i - 1].id = receipts[first + i - 1].id
    <3> SUFFICES ASSUME NEW i \in 1..(n + 1)
                 PROVE  receipts'[first + i - 1].id = receipts[first + i - 1].id
      OBVIOUS
    <3>1. first + i - 1 \in first..last
      BY <1>0, <2>5
    <3> QED BY <1>2, <3>1
  <2>12. CallsOf(ns)' = Append(CallsOf(ns), OrderOf(ns)[n + 1])
    <3> DEFINE a == Append(CallsOf(ns), OrderOf(ns)[n + 1])
    <3>1. /\ a \in Seq(StepIds) /\ Len(a) = n + 1
          /\ \A i \in 1..n : a[i] = CallsOf(ns)[i]
          /\ a[n + 1] = OrderOf(ns)[n + 1]
      BY <2>5, <2>6, <2>9, AppendProperties
    <3> HIDE DEF a
    <3>2. ASSUME NEW i \in 1..(n + 1) PROVE CallsOf(ns)'[i] = a[i]
      <4>1. CallsOf(ns)'[i] = receipts[first + i - 1].id
        BY <2>7, <2>10, <2>11
      <4>2. i \in 1..n \/ i = n + 1
        BY ONLY <2>5, i \in 1..(n + 1)
      <4>3. CASE i \in 1..n
        BY <2>6, <2>9, <3>1, <4>1, <4>3
      <4>4. CASE i = n + 1
        BY <2>9, <3>1, <4>1, <4>4
      <4> QED BY <4>2, <4>3, <4>4
    <3>3. CallsOf(ns)' = a
      BY <2>5, <2>7, <2>10, <3>1, <3>2, SeqEqual
    <3> QED BY <3>3 DEF a
  <2>13. Len(CallsOf(ns)) = n /\ n < last - first + 1
    BY <2>5, <2>6, <2>9
  <2>14. AnswersOf(ns)' = AnswersOf(ns) /\ OrderOf(ns)' = OrderOf(ns)
    BY <1>3, <2>3
  <2> QED BY <2>6, <2>9, <2>12, <2>13, <2>14 DEF CallsAt
<1> QED BY <1>1, <1>6, <1>7
LEMMA FrozenStays ==
  ASSUME TypeOK, NEW ns, Frozen(ns), NEW first, NEW last,
         Block(ns, first, last), Block(ns, first, last)'
  PROVE  StaysAt(ns)
<1>0. SameChains(ns, receipts') /\ Untouched(ns)
  BY DEF Frozen
<1>1. /\ ChainsOf(ns) = first..last /\ ChainsOf(ns)' = first..last
      /\ \A y \in first..last : y \in YieldIds /\ In(y, ns)
  <2>1. \A y \in first..last : y \in YieldIds /\ In(y, ns)
    BY DEF Block
  <2> QED BY <2>1, BlockOrder, BlockOrderNext
<1>2. \A y \in first..last : receipts'[y] = receipts[y] /\ Phase(y)' = Phase(y)
  BY <1>0, <1>1, FrozenChains
<1>3. Called(ns)' = Called(ns) /\ Answered(ns)' = Answered(ns)
  BY <1>1, <1>2 DEF Called, Answered
<1> QED BY <1>2, <1>3, BlockStays DEF StaysAt

\* A step that starts no run in a namespace keeps the places of its chains.
LEMMA FrozenPlaces ==
  ASSUME AutomationTypeOK, StrandInv, [SmartAccountNext]_automationVars,
         NEW ns \in AutoNamespaces, ~StartsIn(ns),
         NEW y \in YieldIds, In(y, ns)'
  PROVE  ordered'[y] = ordered[y]
<1>0. TypeOK
  BY DEF AutomationTypeOK
<1>1. ASSUME NEW m, m # ns, PlacesIn(m) PROVE ordered'[y] = ordered[y]
  BY <1>1 DEF PlacesIn, In
<1>2. CASE Manual
  BY <1>0, <1>1, <1>2, ManualPlaces, AutoNamespaceFacts
<1>3. CASE Executes
  <2>1. PICK who \in Accounts, pk \in PublicKeys \union {None}, t \in Triggers :
          execute_trigger(who, pk, t)
    BY <1>3 DEF Executes
  <2>2. PICK m : m = automation_namespace(t, balance_triggers[t].runs_started + 1)
    OBVIOUS
  <2>3. PICK plan : plan = sequence_templates[balance_triggers[t].sequence]
    OBVIOUS
  <2>4. PlacesIn(m)
    BY <2>1, <2>2, <2>3, ExecuteNumbers
  <2>5. m # ns
    BY <2>1, <2>2 DEF StartsIn
  <2> QED BY <1>1, <2>4, <2>5
<1>4. CASE \E z \in YieldIds : Deliver(z)
  BY <1>4 DEF Deliver, historyVars
<1> QED BY <1>2, <1>3, <1>4, StepCases DEF Calm

\* execute_trigger begins a run whose plan has called nothing yet.
LEMMA ExecuteBegins ==
  ASSUME AutomationTypeOK, TypeOK', StrandInv, NEW who, NEW pk, NEW t \in Triggers,
         execute_trigger(who, pk, t), NEW ns,
         ns = automation_namespace(t, balance_triggers[t].runs_started + 1),
         \A z \in YieldIds : ~In(z, ns),
         NEW first, NEW last, Block(ns, first, last)'
  PROVE  BeginsAt(ns)
<1>1. ChainsOf(ns) = {}
  BY DEF ChainsOf, In
<1>2. Called(ns) = {} /\ Answered(ns) = {}
  BY <1>1 DEF Called, Answered
<1>3. \A z \in YieldIds : In(z, ns)' => Phase(z)' \in {"resumed", "waiting"}
  BY ExecuteChains
<1>4. Called(ns)' = {} /\ Answered(ns)' = {}
  BY <1>3 DEF Called, Answered, ChainsOf, In, SentPhases
<1>5. OrderOf(ns) = <<>> /\ CallsOf(ns) = <<>>
  BY <1>1, <1>2 DEF OrderOf, CallsOf, IdsAtPlaces
<1>6. CallsOf(ns)' = <<>>
  BY <1>4 DEF CallsOf, IdsAtPlaces
<1>7. AnswersOf(ns)' = AnswersOf(ns)
  BY <1>2, <1>4 DEF AnswersOf
<1>8. OrderOf(ns)' \in Seq(StepIds)
  <2> DEFINE n == last - first + 1
  <2>1. n \in Nat /\ first + n - 1 = last /\ n <= last - first + 1
    BY DEF Block
  <2>2. OrderOf(ns)' = PlacedIds(first, first..last)'
    BY BlockOrderNext
  <2>3. Prefix(first, n)' = PlacedIds(first, first..last)'
    BY <2>1 DEF Prefix, PlacedIds
  <2> HIDE DEF n
  <2>4. Prefix(first, n)' \in Seq(StepIds)
    BY <2>1, PrefixIdsNext DEF PrefixIds
  <2> QED BY <2>2, <2>3, <2>4
<1> QED BY <1>5, <1>6, <1>7, <1>8 DEF BeginsAt

\* A step of the account is a step of OrderedRun for each run that is promised one.
LEMMA PromiseAt ==
  ASSUME AccountInv, PlaceInv, AccountInv', PlaceInv', [SmartAccountNext]_automationVars,
         NEW ns \in AutoNamespaces, Once(ns)'
  PROVE  StaysAt(ns) \/ BeginsAt(ns) \/ CallsAt(ns) \/ AnswersAt(ns)
<1>0. /\ AutomationTypeOK /\ TypeOK /\ TypeOK' /\ StrandInv /\ NonceInv
      /\ Once(ns) /\ RunInv(ns) /\ Places(ns) /\ Places(ns)'
  BY OnceBefore DEF AccountInv, AutomationTypeOK, RunsInv, PlaceInv
<1>1. PICK first \in Nat, last \in Nat : Block(ns, first, last)'
  BY <1>0 DEF Places
<1>2. ASSUME \A y \in YieldIds : In(y, ns)' <=> In(y, ns),
             \A y \in YieldIds : In(y, ns) => ordered'[y] = ordered[y]
      PROVE  Block(ns, first, last)
  BY <1>1, <1>2 DEF Block
<1>3. CASE StartsIn(ns)
  <2>1. PICK who \in Accounts, pk \in PublicKeys \union {None}, t \in Triggers :
          /\ execute_trigger(who, pk, t)
          /\ ns = automation_namespace(t, balance_triggers[t].runs_started + 1)
    BY <1>3 DEF StartsIn
  <2>2. \A z \in YieldIds : ~In(z, ns)
    BY <1>0, <1>3, StartsInUnused
  <2> QED BY <1>0, <1>1, <2>1, <2>2, ExecuteBegins
<1>4. ASSUME NEW y \in YieldIds, Deliver(y), In(y, ns)
      PROVE  StaysAt(ns) \/ CallsAt(ns) \/ AnswersAt(ns)
  <2>1. UNCHANGED ordered
    BY <1>4 DEF Deliver, historyVars
  <2>2. \A z \in YieldIds : In(z, ns)' <=> In(z, ns)
    BY <1>0, <1>4, DeliverChains DEF In
  <2>3. Block(ns, first, last)
    BY <1>2, <2>1, <2>2
  <2> QED BY <1>0, <1>1, <1>4, <2>3, DeliverKeepsPromise DEF RunInv
<1>5. ASSUME ~StartsIn(ns), \A y \in YieldIds : Deliver(y) => ~In(y, ns)
      PROVE  StaysAt(ns)
  <2>1. Frozen(ns)
    <3>1. ASSUME NEW y \in YieldIds, Deliver(y) PROVE Frozen(ns)
      <4>1. receipts[y] # None
        BY <1>0, <3>1, DeliverCases
      <4> QED BY <1>0, <1>5, <3>1, <4>1, DeliverFrozen, AutoNamespaceFacts DEF In
    <3> QED BY <1>0, <1>5, <3>1, NamespaceCases
  <2>2. \A y \in YieldIds : In(y, ns)' <=> In(y, ns)
    BY <1>0, <2>1, FrozenChains DEF Frozen
  <2>3. \A y \in YieldIds : In(y, ns) => ordered'[y] = ordered[y]
    BY <1>0, <1>5, <2>2, FrozenPlaces
  <2>4. Block(ns, first, last)
    BY <1>2, <2>2, <2>3
  <2> QED BY <1>0, <1>1, <2>1, <2>4, FrozenStays
<1> QED BY <1>3, <1>4, <1>5

\* The smart account implements OrderedRun: an automation run calls its targets one at a
\* time, in the order of its plan, each after the call before it was answered with
\* success, and none twice, unless its trigger_id has been created twice.
THEOREM AutomationPromiseKept == SmartAccountSpec => KeepsPromise
<1> DEFINE I == AccountInv /\ PlaceInv
<1>1. ASSUME AutomationInit, I PROVE AccountPromise!Init
  <2>1. \A ns : ChainsOf(ns) = {}
    BY <1>1 DEF AutomationInit, Init, ChainsOf
  <2>2. \A ns : OrderOf(ns) = <<>> /\ CallsOf(ns) = <<>> /\ AnswersOf(ns) = 0
    BY <2>1, FS_EmptySet DEF OrderOf, CallsOf, AnswersOf, Called, Answered, IdsAtPlaces
  <2>3. {ns \in AutoNamespaces : creations[ns.name] > 1} = {}
    BY <1>1, AutoNamespaceFacts DEF AutomationInit
  <2> QED BY <2>2, <2>3 DEF AccountPromise!Init
<1>2. ASSUME I, I', [SmartAccountNext]_automationVars
      PROVE  [AccountPromise!Next]_AccountPromise!orderedVars
  <2>0. AutomationTypeOK /\ AutomationTypeOK'
    BY <1>2 DEF AccountInv
  <2>1. ASSUME NEW ns \in AutoNamespaces, Once(ns)'
        PROVE  \/ AccountPromise!Stays(ns) \/ AccountPromise!Begin(ns)
               \/ AccountPromise!Call(ns) \/ AccountPromise!Answer(ns)
    <3>1. StaysAt(ns) \/ BeginsAt(ns) \/ CallsAt(ns) \/ AnswersAt(ns)
      BY <1>2, <2>1, PromiseAt
    <3> QED BY <3>1 DEF StaysAt, BeginsAt, CallsAt, AnswersAt, AccountPromise!Stays,
            AccountPromise!Begin, AccountPromise!Call, AccountPromise!Answer
  <2>2. \A ns \in AutoNamespaces :
          creations[ns.name] \in Nat /\ creations'[ns.name] \in Nat
    BY <2>0, AutoNamespaceFacts, MinimaAssumption DEF AutomationTypeOK
  <2>3. \A ns \in AutoNamespaces : creations[ns.name] > 1 => creations'[ns.name] > 1
    BY <1>2, <2>0, <2>2, OnceBefore DEF Once
  <2>4. \A ns \in AutoNamespaces : ~(creations'[ns.name] > 1) => Once(ns)'
    BY <2>2 DEF Once
  <2>5. AccountPromise!Next
    BY <2>1, <2>3, <2>4 DEF AccountPromise!Next
  <2> QED BY <2>5
<1>3. SmartAccountSpec => []I
  BY PlaceAlways
<1> QED BY <1>1, <1>2, <1>3, PTL DEF SmartAccountSpec, KeepsPromise, AccountPromise!Spec
=============================================================================
