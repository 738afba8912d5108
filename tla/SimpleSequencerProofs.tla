----------------------- MODULE SimpleSequencerProofs -----------------------
(***************************************************************************)
(* Proofs about simple-sequencer, for any callers, steps, orders and       *)
(* bounds: its types, that a callback finds the registration it was        *)
(* created with, that its runs implement OrderedRun, and that the recorder *)
(* has their steps in the order given.                                     *)
(*                                                                         *)
(* The invariant has three parts.  Sound relates the map of registered     *)
(* steps to the receipts of the runtime.  RunsInv follows the runs: which  *)
(* run released a step, that a run which has met no other run of its       *)
(* caller has one released step at most, and that this step and then the   *)
(* caller's queue are the part of the run's order that is not answered yet.*)
(* EntriesRight adds the recorder, one entry ahead of the answers at most. *)
(***************************************************************************)
EXTENDS SimpleSequencer, SequenceTheorems, FiniteSetTheorems, TLAPS

----------------------------------------------------------------------------
(* Registrations and receipts.                                             *)

\* Every registration names a receipt under its own key, every live receipt is
\* registered under its key, and yields from n on are still to be created.
Sound(reg, rcpts, n) ==
  /\ n \in 1..(MaxYields + 1)
  /\ reg \in [Keys -> YieldIds \union {None}]
  /\ rcpts \in [YieldIds -> Receipt \union {None}]
  /\ \A y \in YieldIds : y >= n => rcpts[y] = None
  /\ \A k \in Keys : reg[k] # None =>
       rcpts[reg[k]] # None /\ <<rcpts[reg[k]].caller, rcpts[reg[k]].id>> = k
  /\ \A y \in YieldIds : rcpts[y] # None /\ rcpts[y].phase \in LivePhases =>
       reg[<<rcpts[y].caller, rcpts[y].id>>] = y

\* The receipts of the yields in rcpts2 are those in rcpts, in phases that are live
\* only where they were live before.
Advances(rcpts, rcpts2) ==
  /\ rcpts2 \in [YieldIds -> Receipt \union {None}]
  /\ \A y \in YieldIds :
       /\ rcpts2[y] = None <=> rcpts[y] = None
       /\ rcpts[y] # None =>
            /\ rcpts2[y].caller = rcpts[y].caller /\ rcpts2[y].id = rcpts[y].id
            /\ rcpts2[y].phase \in LivePhases => rcpts[y].phase \in LivePhases

LEMMA AdvanceKeepsSound ==
  ASSUME NEW reg, NEW rcpts, NEW rcpts2, NEW n, Sound(reg, rcpts, n),
         Advances(rcpts, rcpts2)
  PROVE  Sound(reg, rcpts2, n)
<1>1. ASSUME NEW k \in Keys, reg[k] # None
      PROVE  rcpts2[reg[k]] # None /\ <<rcpts2[reg[k]].caller, rcpts2[reg[k]].id>> = k
  <2>1. reg[k] \in YieldIds
    BY <1>1 DEF Sound
  <2> QED  BY <1>1, <2>1 DEF Sound, Advances
<1>2. ASSUME NEW y \in YieldIds, rcpts2[y] # None, rcpts2[y].phase \in LivePhases
      PROVE  reg[<<rcpts2[y].caller, rcpts2[y].id>>] = y
  BY <1>2 DEF Sound, Advances
<1>3. \A y \in YieldIds : y >= n => rcpts2[y] = None
  BY DEF Sound, Advances
<1> QED  BY <1>1, <1>2, <1>3 DEF Sound, Advances

\* A chain that ends takes its registration along.
LEMMA EndKeepsSound ==
  ASSUME NEW reg, NEW rcpts, NEW rcpts2, NEW n, Sound(reg, rcpts, n),
         Advances(rcpts, rcpts2), NEW y \in YieldIds, rcpts[y] # None,
         rcpts[y].phase \in LivePhases, rcpts2[y].phase \notin LivePhases
  PROVE  Sound([reg EXCEPT ![<<rcpts[y].caller, rcpts[y].id>>] = None], rcpts2, n)
<1> DEFINE key == <<rcpts[y].caller, rcpts[y].id>>
           reg2 == [reg EXCEPT ![key] = None]
<1>1. Sound(reg, rcpts2, n)
  BY AdvanceKeepsSound
<1>2. key \in Keys /\ reg[key] = y
  BY DEF Sound, Keys, Receipt
<1>3. reg2 \in [Keys -> YieldIds \union {None}]
      /\ reg2[key] = None /\ \A k \in Keys : k # key => reg2[k] = reg[k]
  BY <1>2 DEF Sound
<1>4. ASSUME NEW z \in YieldIds, rcpts2[z] # None, rcpts2[z].phase \in LivePhases
      PROVE  reg2[<<rcpts2[z].caller, rcpts2[z].id>>] = z
  <2>1. <<rcpts2[z].caller, rcpts2[z].id>> \in Keys
        /\ reg[<<rcpts2[z].caller, rcpts2[z].id>>] = z
    BY <1>1, <1>4 DEF Sound, Keys, Receipt
  <2>2. z # y
    BY <1>4
  <2> HIDE DEF key, reg2
  <2> QED  BY <1>2, <1>3, <2>1, <2>2
<1>5. ASSUME NEW k \in Keys, reg2[k] # None
      PROVE  rcpts2[reg2[k]] # None
             /\ <<rcpts2[reg2[k]].caller, rcpts2[reg2[k]].id>> = k
  <2>1. k # key /\ reg2[k] = reg[k]
    BY <1>3, <1>5
  <2> HIDE DEF key, reg2
  <2> QED  BY <1>1, <1>5, <2>1 DEF Sound
<1> HIDE DEF reg2
<1>6. Sound(reg2, rcpts2, n)
  BY <1>1, <1>3, <1>4, <1>5 DEF Sound
<1> QED  BY <1>6 DEF reg2

\* register_step_for_caller for the ids of a plan.
LEMMA RegisterKeepsSound ==
  ASSUME Sound(registered_steps, receipts, next_yield), NEW c \in Callers,
         NEW plan \in Seq(StepIds), IsInjective(plan), CanRegister(c, plan)
  PROVE  /\ Sound(Registered(c, plan), Yielded(c, plan), next_yield + Len(plan))
         /\ \A y \in YieldIds : \/ Yielded(c, plan)[y] = receipts[y]
                                \/ /\ receipts[y] = None /\ Yielded(c, plan)[y] # None
                                   /\ Yielded(c, plan)[y].phase = "waiting"
<1> DEFINE reg == Registered(c, plan)
           rcpts == Yielded(c, plan)
           n == next_yield + Len(plan)
           At(id) == CHOOSE i \in DOMAIN plan : plan[i] = id
<1>1. /\ DOMAIN plan = 1..Len(plan) /\ Len(plan) \in Nat
      /\ \A i \in DOMAIN plan : plan[i] \in StepIds
      /\ next_yield \in Nat /\ next_yield >= 1 /\ MaxYields \in Nat
      /\ next_yield + Len(plan) - 1 <= MaxYields
  BY SimpleBounds DEF Sound, CanRegister
<1>2. n \in 1..(MaxYields + 1)
  BY <1>1
<1>3. ASSUME NEW i \in DOMAIN plan
      PROVE  /\ At(plan[i]) = i
             /\ next_yield - 1 + i \in YieldIds
             /\ reg[<<c, plan[i]>>] = next_yield - 1 + i
             /\ rcpts[next_yield - 1 + i] = [caller |-> c, id |-> plan[i], phase |-> "waiting"]
  <2>1. At(plan[i]) \in DOMAIN plan /\ plan[At(plan[i])] = plan[i]
    OBVIOUS
  <2>2. At(plan[i]) = i
    BY <2>1 DEF IsInjective
  <2>3. next_yield - 1 + i \in YieldIds
    BY <1>1 DEF YieldIds
  <2>4. <<c, plan[i]>> \in Keys
    BY <1>1 DEF Keys
  <2>5. reg[<<c, plan[i]>>] = next_yield - 1 + At(plan[i])
    BY <2>4 DEF Registered
  <2>6. next_yield - 1 + i \in next_yield..(next_yield + Len(plan) - 1)
        /\ (next_yield - 1 + i) - next_yield + 1 = i
    BY <1>1
  <2>7. rcpts[next_yield - 1 + i] =
          [caller |-> c, id |-> plan[(next_yield - 1 + i) - next_yield + 1],
           phase |-> "waiting"]
    BY <2>3, <2>6 DEF Yielded
  <2> HIDE DEF At, reg, rcpts
  <2> QED  BY <2>2, <2>3, <2>5, <2>6, <2>7
<1>4. ASSUME NEW y \in YieldIds
      PROVE  \/ /\ y < next_yield \/ y >= n
                /\ rcpts[y] = receipts[y]
             \/ /\ receipts[y] = None
                /\ \E i \in DOMAIN plan : y = next_yield - 1 + i
  <2>1. CASE y \in next_yield..(next_yield + Len(plan) - 1)
    <3>1. y - next_yield + 1 \in DOMAIN plan /\ y = next_yield - 1 + (y - next_yield + 1)
      BY <1>1, <2>1
    <3>2. receipts[y] = None
      BY <2>1 DEF Sound
    <3> QED  BY <3>1, <3>2
  <2>2. CASE y \notin next_yield..(next_yield + Len(plan) - 1)
    <3>1. rcpts[y] = receipts[y]
      BY <2>2 DEF Yielded
    <3>2. y < next_yield \/ y >= n
      BY <1>1, <2>2 DEF YieldIds
    <3> QED  BY <3>1, <3>2
  <2> QED  BY <2>1, <2>2
<1>5. ASSUME NEW y \in YieldIds
      PROVE  /\ rcpts[y] \in Receipt \union {None}
             /\ y >= n => rcpts[y] = None
             /\ rcpts[y] # None /\ rcpts[y].phase \in LivePhases =>
                  reg[<<rcpts[y].caller, rcpts[y].id>>] = y
             /\ \/ rcpts[y] = receipts[y]
                \/ receipts[y] = None /\ rcpts[y] # None /\ rcpts[y].phase = "waiting"
  <2>1. CASE rcpts[y] = receipts[y] /\ (y < next_yield \/ y >= n)
    <3>1. y >= n => rcpts[y] = None
      BY <1>1, <2>1 DEF Sound, YieldIds
    <3>2. ASSUME rcpts[y] # None, rcpts[y].phase \in LivePhases
          PROVE  reg[<<rcpts[y].caller, rcpts[y].id>>] = y
      <4> DEFINE key == <<receipts[y].caller, receipts[y].id>>
      <4>1. key \in Keys /\ registered_steps[key] = y /\ y # None
        BY <2>1, <3>2, SimpleNone DEF Sound, Keys, Receipt, YieldIds
      <4>2. ~(receipts[y].caller = c /\ \E i \in DOMAIN plan : plan[i] = receipts[y].id)
        BY <4>1 DEF CanRegister
      <4>3. reg[key] = registered_steps[key]
        BY <4>1, <4>2 DEF Registered
      <4> HIDE DEF reg, rcpts
      <4> QED  BY <2>1, <4>1, <4>3
    <3> QED  BY <2>1, <3>1, <3>2 DEF Sound
  <2>2. CASE receipts[y] = None /\ \E i \in DOMAIN plan : y = next_yield - 1 + i
    <3>1. PICK i \in DOMAIN plan : y = next_yield - 1 + i
      BY <2>2
    <3>2. rcpts[y] = [caller |-> c, id |-> plan[i], phase |-> "waiting"]
          /\ reg[<<c, plan[i]>>] = y
      BY <1>3, <3>1
    <3>3. rcpts[y] \in Receipt
      BY <1>1, <3>2 DEF Receipt, Phases, LivePhases
    <3>4. rcpts[y] # None
      BY <3>3, SimpleNone
    <3>5. ~(y >= n)
      BY <1>1, <3>1
    <3> HIDE DEF reg, rcpts
    <3> QED  BY <2>2, <3>2, <3>3, <3>4, <3>5
  <2> QED  BY <1>4, <2>1, <2>2
<1>6. ASSUME NEW k \in Keys
      PROVE  /\ reg[k] \in YieldIds \union {None}
             /\ reg[k] # None =>
                  rcpts[reg[k]] # None /\ <<rcpts[reg[k]].caller, rcpts[reg[k]].id>> = k
  <2>1. CASE k[1] = c /\ \E i \in DOMAIN plan : plan[i] = k[2]
    <3>1. PICK i \in DOMAIN plan : plan[i] = k[2]
      BY <2>1
    <3>2. k = <<c, plan[i]>>
      BY <2>1, <3>1 DEF Keys
    <3>3. next_yield - 1 + i \in YieldIds /\ reg[k] = next_yield - 1 + i
          /\ rcpts[reg[k]] = [caller |-> c, id |-> plan[i], phase |-> "waiting"]
      BY <1>3, <3>2
    <3>4. rcpts[reg[k]] \in Receipt
      BY <1>1, <3>3 DEF Receipt, Phases, LivePhases
    <3> HIDE DEF reg, rcpts
    <3> QED  BY <3>2, <3>3, <3>4, SimpleNone
  <2>2. CASE ~(k[1] = c /\ \E i \in DOMAIN plan : plan[i] = k[2])
    <3>1. reg[k] = registered_steps[k]
      BY <2>2 DEF Registered
    <3>2. ASSUME reg[k] # None
          PROVE  /\ rcpts[reg[k]] # None
                 /\ <<rcpts[reg[k]].caller, rcpts[reg[k]].id>> = k
      <4>1. reg[k] \in YieldIds /\ receipts[reg[k]] # None
            /\ <<receipts[reg[k]].caller, receipts[reg[k]].id>> = k
        BY <3>1, <3>2 DEF Sound
      <4>2. rcpts[reg[k]] = receipts[reg[k]]
        BY <1>5, <4>1
      <4> HIDE DEF reg, rcpts
      <4> QED  BY <4>1, <4>2
    <3>3. reg[k] \in YieldIds \union {None}
      BY <3>1 DEF Sound
    <3> QED  BY <3>2, <3>3
  <2> QED  BY <2>1, <2>2
<1>7. reg = [k \in Keys |-> reg[k]] /\ rcpts = [y \in YieldIds |-> rcpts[y]]
  BY DEF Registered, Yielded
<1> HIDE DEF reg, rcpts, n
<1>8. Sound(reg, rcpts, n)
  BY <1>2, <1>5, <1>6, <1>7 DEF Sound
<1> QED  BY <1>5, <1>8 DEF reg, rcpts, n
----------------------------------------------------------------------------
(* The runs.                                                               *)

\* A run number is used once, and nothing is recorded of a run not begun yet.
Begun ==
  /\ \A c \in Callers : current[c] <= runs
  /\ \A c, d \in Callers : current[c] = current[d] /\ current[c] # 0 => c = d
  /\ \A c \in Callers : sequence_queue[c] # <<>> => current[c] # 0
  /\ \A r \in Runs : r > runs =>
       order[r] = <<>> /\ calls[r] = <<>> /\ answers[r] = 0 /\ r \notin shared

\* A released step belongs to the current run of its caller, or that run and its
\* own have both met another one.
ReleasedByRun ==
  \A y \in YieldIds : Released(y) =>
    /\ run_of[y] # 0 /\ run_of[y] <= runs
    /\ \/ run_of[y] = current[receipts[y].caller]
       \/ run_of[y] \in shared /\ current[receipts[y].caller] \in shared

OneReleased ==
  \A y, z \in YieldIds :
    Released(y) /\ Released(z) /\ y # z /\ receipts[y].caller = receipts[z].caller =>
      run_of[y] \in shared

\* id and then the queue q are what follows the first n of ids.
Follows(ids, n, id, q) ==
  /\ n < Len(ids)
  /\ ids[n + 1] = id
  /\ \A i \in 1..Len(q) : n + 1 + i <= Len(ids) /\ q[i] = ids[n + 1 + i]

Progressing ==
  \A y \in YieldIds : Released(y) /\ run_of[y] \notin shared =>
    /\ Follows(order[run_of[y]], answers[run_of[y]], receipts[y].id,
               sequence_queue[receipts[y].caller])
    /\ Len(calls[run_of[y]])
         = answers[run_of[y]] + (IF receipts[y].phase = "resumed" THEN 0 ELSE 1)

RunsInv == Begun /\ ReleasedByRun /\ OneReleased /\ Progressing

Inv == TypeOK /\ Sound(registered_steps, receipts, next_yield) /\ RunsInv

\* The head of a queue and the queue that is left.
LEMMA HeadAndTail ==
  ASSUME NEW q \in Seq(StepIds), q # <<>>
  PROVE  /\ Head(q) \in StepIds /\ Tail(q) \in Seq(StepIds)
         /\ Len(q) \in Nat /\ Len(q) >= 1
         /\ Head(q) = q[1] /\ Len(Tail(q)) = Len(q) - 1
         /\ \A i \in 1..Len(Tail(q)) : Tail(q)[i] = q[i + 1]
  OBVIOUS

LEMMA FollowsShifts ==
  ASSUME NEW ids \in Seq(StepIds), NEW n \in Nat, NEW id, NEW q \in Seq(StepIds),
         q # <<>>, Follows(ids, n, id, q)
  PROVE  Follows(ids, n + 1, Head(q), Tail(q))
<1>1. /\ Len(q) \in Nat /\ Len(q) >= 1 /\ Head(q) = q[1] /\ Len(Tail(q)) = Len(q) - 1
      /\ \A i \in 1..Len(Tail(q)) : Tail(q)[i] = q[i + 1]
      /\ Len(ids) \in Nat
  BY HeadAndTail
<1>2. n + 1 + 1 <= Len(ids) /\ q[1] = ids[n + 1 + 1]
  BY <1>1 DEF Follows
<1>3. ASSUME NEW i \in 1..Len(Tail(q))
      PROVE  (n + 1) + 1 + i <= Len(ids) /\ Tail(q)[i] = ids[(n + 1) + 1 + i]
  <2>1. i + 1 \in 1..Len(q) /\ Tail(q)[i] = q[i + 1] /\ i \in Nat
    BY <1>1
  <2>2. n + 1 + (i + 1) = (n + 1) + 1 + i
    BY <2>1
  <2>3. n + 1 + (i + 1) <= Len(ids) /\ q[i + 1] = ids[n + 1 + (i + 1)]
    BY <2>1 DEF Follows
  <2> QED  BY <2>1, <2>2, <2>3
<1> DEFINE head == Head(q)
           rest == Tail(q)
<1>4. n + 1 < Len(ids) /\ ids[n + 1 + 1] = head
  BY <1>1, <1>2
<1>5. \A i \in 1..Len(rest) :
        (n + 1) + 1 + i <= Len(ids) /\ rest[i] = ids[(n + 1) + 1 + i]
  BY <1>3
<1> HIDE DEF head, rest
<1>6. Follows(ids, n + 1, head, rest)
  BY <1>4, <1>5 DEF Follows
<1> QED  BY <1>6 DEF head, rest

\* Two released steps of one run: the run has met another one.
LEMMA OneStepPerRun ==
  ASSUME Inv, NEW y \in YieldIds, NEW z \in YieldIds, Released(y), Released(z), y # z,
         run_of[z] \notin shared
  PROVE  run_of[y] # run_of[z]
<1> SUFFICES ASSUME run_of[y] = run_of[z] PROVE FALSE
  OBVIOUS
<1>1. receipts[y].caller \in Callers /\ receipts[z].caller \in Callers
  BY SimpleNone DEF Inv, TypeOK, Released, Phase, ReleasedPhases, LivePhases, Phases, Receipt
<1>2. run_of[y] = current[receipts[y].caller] /\ run_of[z] = current[receipts[z].caller]
      /\ run_of[z] # 0
  BY DEF Inv, RunsInv, ReleasedByRun
<1>3. receipts[y].caller = receipts[z].caller
  BY <1>1, <1>2 DEF Inv, RunsInv, Begun
<1> QED  BY <1>3 DEF Inv, RunsInv, OneReleased

LEMMA ReleasedTypes ==
  ASSUME Inv, NEW y \in YieldIds, Released(y)
  PROVE  /\ receipts[y] # None /\ receipts[y] \in Receipt
         /\ receipts[y].phase \in ReleasedPhases
         /\ receipts[y].caller \in Callers /\ receipts[y].id \in StepIds
         /\ run_of[y] \in Runs
<1>1. receipts[y] # None /\ receipts[y] \in Receipt /\ receipts[y].phase \in ReleasedPhases
  BY SimpleNone DEF Inv, TypeOK, Released, Phase, ReleasedPhases, LivePhases, Phases
<1>2. run_of[y] \in Runs
  BY SimpleBounds DEF Inv, TypeOK, RunsInv, ReleasedByRun, Runs
<1> QED  BY <1>1, <1>2 DEF Receipt

\* A step that releases nothing and answers nothing.
LEMMA QuietKeepsRuns ==
  ASSUME Inv, TypeOK',
         UNCHANGED <<runs, current, run_of, order, answers, shared>>,
         \A z \in YieldIds : Released(z)' =>
           Released(z) /\ receipts'[z].caller = receipts[z].caller
                       /\ receipts'[z].id = receipts[z].id,
         \A c \in Callers :
           sequence_queue'[c] = sequence_queue[c] \/ sequence_queue'[c] = <<>>,
         \A r \in Runs : r > runs => calls'[r] = calls[r],
         \A z \in YieldIds : Released(z)' /\ run_of[z] \notin shared =>
           Len(calls'[run_of[z]])
             = answers[run_of[z]] + (IF receipts'[z].phase = "resumed" THEN 0 ELSE 1)
  PROVE  RunsInv'
<1>1. Begun'
  BY DEF Inv, RunsInv, Begun
<1>2. ReleasedByRun'
  BY DEF Inv, RunsInv, ReleasedByRun
<1>3. OneReleased'
  BY DEF Inv, RunsInv, OneReleased
<1>4. Progressing'
  <2> SUFFICES ASSUME NEW z \in YieldIds, Released(z)', run_of[z] \notin shared
               PROVE  Follows(order[run_of[z]], answers[run_of[z]], receipts'[z].id,
                              sequence_queue'[receipts'[z].caller])
    BY DEF Progressing
  <2>1. Follows(order[run_of[z]], answers[run_of[z]], receipts[z].id,
                sequence_queue[receipts[z].caller])
    BY DEF Inv, RunsInv, Progressing
  <2>2. CASE sequence_queue'[receipts[z].caller] = sequence_queue[receipts[z].caller]
    BY <2>1, <2>2
  <2>3. CASE sequence_queue'[receipts[z].caller] = <<>>
    BY <2>1, <2>3 DEF Follows
  <2>4. receipts[z].caller \in Callers
    BY ReleasedTypes
  <2> QED  BY <2>2, <2>3, <2>4
<1> QED  BY <1>1, <1>2, <1>3, <1>4 DEF RunsInv

----------------------------------------------------------------------------
(* Entry points.                                                           *)

\* A sequence that starts over a map reg and receipts rcpts which differ from the
\* present ones in steps just registered.
LEMMA StartKeepsTypes ==
  ASSUME Inv, NEW c \in Callers, NEW ids \in Orders, NEW reg, NEW rcpts, NEW n,
         Sound(reg, rcpts, n), next_yield' = n,
         start_sequence_release_for_caller(c, ids, reg, rcpts)
  PROVE  TypeOK' /\ Sound(registered_steps, receipts, next_yield)'
<1> DEFINE first == reg[<<c, Head(ids)>>]
<1>1. ids \in Seq(StepIds) /\ ids # <<>> /\ Head(ids) \in StepIds
      /\ Tail(ids) \in Seq(StepIds)
  BY SimpleInputs
<1>2. <<c, Head(ids)>> \in Keys
  BY <1>1 DEF Keys
<1>3. CanResume(rcpts, first)
  BY DEF start_sequence_release_for_caller
<1>4. first \in YieldIds /\ rcpts[first] # None /\ rcpts[first] \in Receipt
      /\ rcpts[first].phase \in {"waiting", "resumed"}
  BY <1>2, <1>3 DEF Sound, CanResume
<1> HIDE DEF first
<1>5. receipts' = [rcpts EXCEPT ![first].phase = "resumed"] /\ registered_steps' = reg
  BY DEF start_sequence_release_for_caller, first
<1>6. Advances(rcpts, receipts')
  <2>1. rcpts \in [YieldIds -> Receipt \union {None}]
    BY DEF Sound
  <2>2. receipts'[first] = [rcpts[first] EXCEPT !.phase = "resumed"]
        /\ \A y \in YieldIds : y # first => receipts'[y] = rcpts[y]
    BY <1>4, <1>5, <2>1
  <2>3. receipts'[first] \in Receipt /\ receipts'[first].caller = rcpts[first].caller
        /\ receipts'[first].id = rcpts[first].id
    BY <1>4, <2>2 DEF Receipt, Phases, LivePhases, ReleasedPhases
  <2>4. receipts' \in [YieldIds -> Receipt \union {None}]
    BY <1>4, <1>5, <2>1, <2>3
  <2>5. rcpts[first].phase \in LivePhases /\ receipts'[first] # None
    BY <1>4, <2>3, SimpleNone DEF LivePhases, ReleasedPhases
  <2> SUFFICES ASSUME NEW y \in YieldIds
               PROVE  /\ receipts'[y] = None <=> rcpts[y] = None
                      /\ rcpts[y] # None =>
                           /\ receipts'[y].caller = rcpts[y].caller
                           /\ receipts'[y].id = rcpts[y].id
                           /\ receipts'[y].phase \in LivePhases =>
                                rcpts[y].phase \in LivePhases
    BY <2>4 DEF Advances
  <2> QED  BY <1>4, <2>2, <2>3, <2>5
<1>7. Sound(registered_steps, receipts, next_yield)'
  BY <1>5, <1>6, AdvanceKeepsSound
<1>8. runs + 1 \in Runs /\ runs' = runs + 1
  <2>1. runs < MaxRuns /\ runs' = runs + 1
    BY DEF start_sequence_release_for_caller
  <2> QED  BY <2>1, SimpleBounds DEF Inv, TypeOK, Runs
<1>9. shared' \subseteq Runs
  <2> DEFINE met == {run_of[y] : y \in ReleasedOf(c)}
  <2>1. ASSUME NEW y \in ReleasedOf(c)
        PROVE  run_of[y] \in Runs
    <3>1. y \in YieldIds /\ Released(y)
      BY DEF ReleasedOf
    <3> QED  BY <3>1, ReleasedTypes
  <2>2. met \subseteq Runs
    BY <2>1
  <2>3. shared' = shared \/ shared' = shared \union {runs + 1} \union met
    BY DEF start_sequence_release_for_caller
  <2>4. shared \subseteq Runs
    BY DEF Inv, TypeOK
  <2> HIDE DEF met
  <2> QED  BY <1>8, <2>2, <2>3, <2>4
<1>10. /\ sequence_queue' \in [Callers -> Seq(StepIds)]
       /\ current' \in [Callers -> 0..MaxRuns]
       /\ run_of' \in [YieldIds -> 0..MaxRuns]
       /\ order' \in [Runs -> Seq(StepIds)]
  <2>1. /\ sequence_queue' = [sequence_queue EXCEPT ![c] = Tail(ids)]
        /\ current' = [current EXCEPT ![c] = runs + 1]
        /\ run_of' = [run_of EXCEPT ![first] = runs + 1]
        /\ order' = [order EXCEPT ![runs + 1] = ids]
    BY DEF start_sequence_release_for_caller, first
  <2>2. runs + 1 \in 0..MaxRuns
    BY <1>8, SimpleBounds DEF Runs
  <2> QED  BY <1>1, <2>1, <2>2 DEF Inv, TypeOK
<1>11. runs' \in 0..MaxRuns /\ UNCHANGED <<entries, calls, answers>>
  BY <1>8 DEF Runs, start_sequence_release_for_caller
<1> QED  BY <1>7, <1>9, <1>10, <1>11 DEF Inv, TypeOK, Sound

\* It begins a run that is promised the order, or that has met another run.
LEMMA StartKeepsRuns ==
  ASSUME Inv, NEW c \in Callers, NEW ids \in Orders, NEW reg, NEW rcpts, NEW n,
         Sound(reg, rcpts, n), next_yield' = n,
         \A y \in YieldIds : \/ rcpts[y] = receipts[y]
                             \/ /\ receipts[y] = None /\ rcpts[y] # None
                                /\ rcpts[y].phase = "waiting",
         start_sequence_release_for_caller(c, ids, reg, rcpts)
  PROVE  RunsInv' /\ Promise!Next
<1> DEFINE first == reg[<<c, Head(ids)>>]
           run == runs + 1
<1>1. ids \in Seq(StepIds) /\ ids # <<>> /\ Head(ids) \in StepIds /\ Len(ids) \in Nat
      /\ Len(ids) >= 1 /\ ids[1] = Head(ids)
  BY SimpleInputs
<1>2. <<c, Head(ids)>> \in Keys
  BY <1>1 DEF Keys
<1>3. CanResume(rcpts, first)
  BY DEF start_sequence_release_for_caller
<1>4. first \in YieldIds /\ rcpts[first] # None /\ rcpts[first] \in Receipt
      /\ rcpts[first].caller = c /\ rcpts[first].id = Head(ids)
  BY <1>2, <1>3 DEF Sound, CanResume
<1> HIDE DEF first
<1>5. run \in Runs /\ runs \in Nat /\ runs' = run /\ runs < run
  <2>1. runs < MaxRuns /\ runs' = run
    BY DEF start_sequence_release_for_caller
  <2> QED  BY <2>1, SimpleBounds DEF Inv, TypeOK, Runs
<1>6. /\ receipts' = [rcpts EXCEPT ![first].phase = "resumed"]
      /\ run_of' = [run_of EXCEPT ![first] = run]
      /\ current' = [current EXCEPT ![c] = run]
      /\ order' = [order EXCEPT ![run] = ids]
      /\ sequence_queue' = [sequence_queue EXCEPT ![c] = Tail(ids)]
      /\ UNCHANGED <<calls, answers>>
  BY DEF start_sequence_release_for_caller, first
<1>7. shared' = IF ReleasedOf(c) = {} THEN shared
                ELSE shared \union {run} \union {run_of[y] : y \in ReleasedOf(c)}
  BY DEF start_sequence_release_for_caller
<1>8. rcpts \in [YieldIds -> Receipt \union {None}]
  BY DEF Sound
<1>9. /\ receipts'[first].phase = "resumed" /\ receipts'[first].caller = c
      /\ receipts'[first].id = Head(ids)
      /\ \A y \in YieldIds : y # first => receipts'[y] = rcpts[y]
  BY <1>4, <1>6, <1>8 DEF Receipt
<1>10. ASSUME NEW y \in YieldIds, Released(y)', y # first
       PROVE  /\ Released(y) /\ receipts'[y] = receipts[y]
              /\ run_of'[y] = run_of[y]
  <2>1. Phase(y)' \in ReleasedPhases
    BY <1>10 DEF Released
  <2>2. rcpts[y] # None /\ rcpts[y].phase \in ReleasedPhases
    BY <1>9, <1>10, <2>1, SimpleNone DEF Phase, ReleasedPhases, Phases, LivePhases
  <2>3. receipts[y] = rcpts[y]
    BY <2>2 DEF ReleasedPhases
  <2>4. run_of'[y] = run_of[y]
    BY <1>6, <1>10 DEF Inv, TypeOK
  <2> QED  BY <1>9, <1>10, <2>2, <2>3, <2>4 DEF Released, Phase
<1>11. /\ run_of'[first] = run /\ current'[c] = run /\ order'[run] = ids
       /\ sequence_queue'[c] = Tail(ids)
       /\ \A d \in Callers : d # c => current'[d] = current[d]
                                      /\ sequence_queue'[d] = sequence_queue[d]
       /\ \A r \in Runs : r # run => order'[r] = order[r]
  BY <1>4, <1>5, <1>6 DEF Inv, TypeOK
<1>12. /\ \A r \in Runs : r > runs =>
            order[r] = <<>> /\ calls[r] = <<>> /\ answers[r] = 0 /\ r \notin shared
       /\ \A d \in Callers : current[d] <= runs /\ current[d] \in Nat
       /\ \A r \in Runs : r \in Nat
  BY DEF Inv, TypeOK, RunsInv, Begun, Runs
<1>13. \A y \in YieldIds : Released(y) => run_of[y] # 0 /\ run_of[y] <= runs
  BY DEF Inv, RunsInv, ReleasedByRun
<1>14. shared \subseteq shared'
  BY <1>7
<1>15. \A y \in YieldIds : Released(y) /\ receipts[y].caller = c =>
         run_of[y] \in shared' /\ run \in shared'
  BY <1>7 DEF ReleasedOf
<1>16. ASSUME NEW r \in Runs, r > run
       PROVE  r \notin shared' /\ r # run /\ r > runs
  BY <1>5, <1>7, <1>12, <1>13, <1>16, ReleasedTypes DEF ReleasedOf
<1> HIDE DEF run
<1>20. Begun'
  <2>1. \A d \in Callers : current'[d] <= run
    BY <1>5, <1>11, <1>12
  <2>2. \A d, e \in Callers : current'[d] = current'[e] /\ current'[d] # 0 => d = e
    <3>1. \A d, e \in Callers : current[d] = current[e] /\ current[d] # 0 => d = e
      BY DEF Inv, RunsInv, Begun
    <3>2. \A d \in Callers : current[d] # run
      BY <1>5, <1>12
    <3> QED  BY <1>11, <3>1, <3>2
  <2>3. \A d \in Callers : sequence_queue'[d] # <<>> => current'[d] # 0
    BY <1>5, <1>11, <1>12 DEF Inv, RunsInv, Begun
  <2>4. \A r \in Runs : r > run =>
          order'[r] = <<>> /\ calls'[r] = <<>> /\ answers'[r] = 0 /\ r \notin shared'
    BY <1>6, <1>11, <1>12, <1>16
  <2> QED  BY <1>5, <2>1, <2>2, <2>3, <2>4 DEF Begun
<1>21. ReleasedByRun'
  <2> SUFFICES ASSUME NEW y \in YieldIds, Released(y)'
               PROVE  /\ run_of'[y] # 0 /\ run_of'[y] <= runs'
                      /\ \/ run_of'[y] = current'[receipts'[y].caller]
                         \/ run_of'[y] \in shared' /\ current'[receipts'[y].caller] \in shared'
    BY DEF ReleasedByRun
  <2>1. CASE y = first
    BY <1>5, <1>9, <1>11, <1>12, <2>1
  <2>2. CASE y # first
    <3>1. Released(y) /\ receipts'[y] = receipts[y] /\ run_of'[y] = run_of[y]
      BY <1>10, <2>2
    <3>2. run_of[y] # 0 /\ run_of[y] <= runs /\ run_of[y] \in Runs
          /\ receipts[y].caller \in Callers
      BY <1>13, <3>1, ReleasedTypes
    <3>3. CASE receipts[y].caller = c
      BY <1>5, <1>11, <1>12, <1>15, <3>1, <3>2, <3>3
    <3>4. CASE receipts[y].caller # c
      <4>1. \/ run_of[y] = current[receipts[y].caller]
            \/ run_of[y] \in shared /\ current[receipts[y].caller] \in shared
        BY <3>1 DEF Inv, RunsInv, ReleasedByRun
      <4> QED  BY <1>5, <1>11, <1>12, <1>14, <3>1, <3>2, <3>4, <4>1
    <3> QED  BY <3>3, <3>4
  <2> QED  BY <2>1, <2>2
<1>22. OneReleased'
  <2> SUFFICES ASSUME NEW y \in YieldIds, NEW z \in YieldIds, Released(y)', Released(z)',
                      y # z, receipts'[y].caller = receipts'[z].caller
               PROVE  run_of'[y] \in shared'
    BY DEF OneReleased
  <2>1. CASE y = first
    <3>1. Released(z) /\ receipts[z].caller = c
      BY <1>9, <1>10, <2>1
    <3> QED  BY <1>11, <1>15, <2>1, <3>1
  <2>2. CASE y # first /\ z = first
    <3>1. Released(y) /\ receipts[y].caller = c /\ run_of'[y] = run_of[y]
      BY <1>9, <1>10, <2>2
    <3> QED  BY <1>15, <3>1
  <2>3. CASE y # first /\ z # first
    <3>1. /\ Released(y) /\ receipts'[y] = receipts[y] /\ run_of'[y] = run_of[y]
          /\ Released(z) /\ receipts'[z] = receipts[z]
      BY <1>10, <2>3
    <3>2. run_of[y] \in shared
      BY <3>1 DEF Inv, RunsInv, OneReleased
    <3> QED  BY <1>14, <3>1, <3>2
  <2> QED  BY <2>1, <2>2, <2>3
<1>23. Progressing'
  <2> SUFFICES ASSUME NEW y \in YieldIds, Released(y)', run_of'[y] \notin shared'
               PROVE  /\ Follows(order'[run_of'[y]], answers'[run_of'[y]], receipts'[y].id,
                                 sequence_queue'[receipts'[y].caller])
                      /\ Len(calls'[run_of'[y]])
                           = answers'[run_of'[y]]
                             + (IF receipts'[y].phase = "resumed" THEN 0 ELSE 1)
    BY DEF Progressing
  <2>1. CASE y = first
    <3>1. calls'[run] = <<>> /\ answers'[run] = 0
      BY <1>5, <1>6, <1>12
    <3>2. Len(Tail(ids)) = Len(ids) - 1
          /\ \A i \in 1..Len(Tail(ids)) : Tail(ids)[i] = ids[i + 1]
      BY <1>1
    <3>3. Follows(ids, 0, Head(ids), Tail(ids))
      <4>1. \A i \in 1..Len(Tail(ids)) :
              0 + 1 + i <= Len(ids) /\ Tail(ids)[i] = ids[0 + 1 + i]
        BY <1>1, <3>2
      <4> QED  BY <1>1, <4>1 DEF Follows
    <3>4. run_of'[y] = run /\ order'[run] = ids /\ receipts'[y].id = Head(ids)
          /\ sequence_queue'[receipts'[y].caller] = Tail(ids)
          /\ receipts'[y].phase = "resumed"
      BY <1>9, <1>11, <2>1
    <3>5. Len(<<>>) = 0 + 0
      OBVIOUS
    <3> QED  BY <3>1, <3>3, <3>4, <3>5
  <2>2. CASE y # first
    <3>1. Released(y) /\ receipts'[y] = receipts[y] /\ run_of'[y] = run_of[y]
      BY <1>10, <2>2
    <3>2. receipts[y].caller # c /\ receipts[y].caller \in Callers /\ run_of[y] \in Runs
      BY <1>15, <3>1, ReleasedTypes
    <3>3. run_of[y] \notin shared /\ run_of[y] # run
      BY <1>5, <1>12, <1>13, <1>14, <3>1, <3>2
    <3>4. order'[run_of[y]] = order[run_of[y]]
          /\ sequence_queue'[receipts[y].caller] = sequence_queue[receipts[y].caller]
      BY <1>11, <3>2, <3>3
    <3>5. /\ Follows(order[run_of[y]], answers[run_of[y]], receipts[y].id,
                     sequence_queue[receipts[y].caller])
          /\ Len(calls[run_of[y]])
               = answers[run_of[y]] + (IF receipts[y].phase = "resumed" THEN 0 ELSE 1)
      BY <3>1, <3>3 DEF Inv, RunsInv, Progressing
    <3>6. calls' = calls /\ answers' = answers
      BY <1>6
    <3> QED  BY <3>1, <3>4, <3>5, <3>6
  <2> QED  BY <2>1, <2>2
<1>24. Promise!Next
  <2>1. Promise!Begin(run)
    BY <1>1, <1>5, <1>6, <1>11, <1>12 DEF Promise!Begin
  <2>2. \A r \in Runs : r # run => Promise!Stays(r)
    BY <1>6, <1>11 DEF Promise!Stays
  <2> QED  BY <1>14, <2>1, <2>2 DEF Promise!Next
<1> QED  BY <1>20, <1>21, <1>22, <1>23, <1>24 DEF RunsInv

LEMMA EntryKeepsInv ==
  ASSUME Inv, Entry
  PROVE  Inv' /\ [Promise!Next]_Promise!orderedVars
<1>1. ASSUME NEW c \in Callers, NEW id \in StepIds, register_step(c, id)
      PROVE  Inv' /\ UNCHANGED Promise!orderedVars
  <2>1. <<id>> \in Seq(StepIds) /\ IsInjective(<<id>>) /\ Len(<<id>>) = 1
    BY DEF IsInjective
  <2>2. /\ Sound(Registered(c, <<id>>), Yielded(c, <<id>>), next_yield + 1)
        /\ \A y \in YieldIds : \/ Yielded(c, <<id>>)[y] = receipts[y]
                               \/ /\ receipts[y] = None /\ Yielded(c, <<id>>)[y] # None
                                  /\ Yielded(c, <<id>>)[y].phase = "waiting"
    <3>1. CanRegister(c, <<id>>)
      BY <1>1 DEF register_step
    <3>2. /\ Sound(Registered(c, <<id>>), Yielded(c, <<id>>), next_yield + Len(<<id>>))
          /\ \A y \in YieldIds : \/ Yielded(c, <<id>>)[y] = receipts[y]
                                 \/ /\ receipts[y] = None /\ Yielded(c, <<id>>)[y] # None
                                    /\ Yielded(c, <<id>>)[y].phase = "waiting"
      BY <2>1, <3>1, RegisterKeepsSound DEF Inv
    <3> QED  BY <2>1, <3>2
  <2>3. Sound(registered_steps, receipts, next_yield)'
    BY <1>1, <2>2 DEF register_step
  <2>4. UNCHANGED <<sequence_queue, entries, runs, current, run_of, order, calls, answers,
                    shared>>
    BY <1>1 DEF register_step, runVars
  <2>5. TypeOK'
    BY <2>3, <2>4 DEF Inv, TypeOK, Sound
  <2>6. ASSUME NEW z \in YieldIds, Released(z)'
        PROVE  Released(z) /\ receipts'[z] = receipts[z]
    BY <1>1, <2>2, <2>6 DEF register_step, Released, Phase, ReleasedPhases
  <2>7. \A z \in YieldIds : Released(z)' /\ run_of[z] \notin shared =>
          Len(calls'[run_of[z]])
            = answers[run_of[z]] + (IF receipts'[z].phase = "resumed" THEN 0 ELSE 1)
    BY <2>4, <2>6 DEF Inv, RunsInv, Progressing
  <2>8. RunsInv'
    BY <2>4, <2>5, <2>6, <2>7, QuietKeepsRuns
  <2> QED  BY <2>3, <2>4, <2>5, <2>8 DEF Inv, Promise!orderedVars
<1>2. ASSUME NEW c \in Callers, NEW plan \in Orders, execute_steps(c, plan)
      PROVE  Inv' /\ Promise!Next
  <2>1. /\ Sound(Registered(c, plan), Yielded(c, plan), next_yield')
        /\ \A y \in YieldIds : \/ Yielded(c, plan)[y] = receipts[y]
                               \/ /\ receipts[y] = None /\ Yielded(c, plan)[y] # None
                                  /\ Yielded(c, plan)[y].phase = "waiting"
    BY <1>2, RegisterKeepsSound, SimpleInputs DEF Inv, execute_steps
  <2>2. start_sequence_release_for_caller(c, plan, Registered(c, plan), Yielded(c, plan))
    BY <1>2 DEF execute_steps
  <2>3. TypeOK' /\ Sound(registered_steps, receipts, next_yield)'
    BY <2>1, <2>2, StartKeepsTypes
  <2>4. RunsInv' /\ Promise!Next
    BY <2>1, <2>2, StartKeepsRuns
  <2> QED  BY <2>3, <2>4 DEF Inv
<1>3. ASSUME NEW c \in Callers, NEW ids \in Orders, run_sequence(c, ids)
      PROVE  Inv' /\ Promise!Next
  <2>1. Sound(registered_steps, receipts, next_yield')
    BY <1>3 DEF Inv, run_sequence
  <2>2. start_sequence_release_for_caller(c, ids, registered_steps, receipts)
    BY <1>3 DEF run_sequence
  <2>3. TypeOK' /\ Sound(registered_steps, receipts, next_yield)'
    BY <2>1, <2>2, StartKeepsTypes
  <2>4. RunsInv' /\ Promise!Next
    BY <2>1, <2>2, StartKeepsRuns
  <2> QED  BY <2>3, <2>4 DEF Inv
<1> QED  BY <1>1, <1>2, <1>3 DEF Entry

----------------------------------------------------------------------------
(* Callbacks.                                                              *)

LEMMA LiveTypes ==
  ASSUME Inv, NEW y \in YieldIds, Phase(y) \in LivePhases
  PROVE  /\ receipts[y] # None /\ receipts[y] \in Receipt
         /\ receipts[y].phase = Phase(y)
         /\ receipts[y].caller \in Callers /\ receipts[y].id \in StepIds
         /\ Key(y) \in Keys /\ registered_steps[Key(y)] = y
<1>1. receipts[y] # None /\ receipts[y] \in Receipt /\ receipts[y].phase = Phase(y)
  BY SimpleNone DEF Inv, TypeOK, Phase, Phases, LivePhases
<1>2. receipts[y].caller \in Callers /\ receipts[y].id \in StepIds
  BY <1>1 DEF Receipt
<1>3. registered_steps[Key(y)] = y
  BY <1>1 DEF Inv, Sound, Key
<1> QED  BY <1>1, <1>2, <1>3 DEF Key, Keys

\* What MoveTo does to the receipts.
LEMMA Moves ==
  ASSUME Inv, NEW y \in YieldIds, Phase(y) \in LivePhases, NEW phase \in Phases,
         MoveTo(y, phase)
  PROVE  /\ Advances(receipts, receipts')
         /\ receipts'[y].phase = phase /\ receipts'[y].caller = receipts[y].caller
         /\ receipts'[y].id = receipts[y].id
         /\ \A z \in YieldIds : z # y => receipts'[z] = receipts[z]
                                         /\ (Released(z)' <=> Released(z))
         /\ Released(y)' => phase \in ReleasedPhases
<1>1. receipts[y] # None /\ receipts[y] \in Receipt /\ receipts[y].phase \in LivePhases
  BY LiveTypes
<1>2. receipts \in [YieldIds -> Receipt \union {None}]
  BY DEF Inv, TypeOK
<1>3. receipts' = [receipts EXCEPT ![y] = [receipts[y] EXCEPT !.phase = phase]]
  BY DEF MoveTo
<1>4. receipts'[y] = [receipts[y] EXCEPT !.phase = phase]
      /\ \A z \in YieldIds : z # y => receipts'[z] = receipts[z]
  BY <1>2, <1>3
<1>5. receipts'[y] \in Receipt /\ receipts'[y].caller = receipts[y].caller
      /\ receipts'[y].id = receipts[y].id /\ receipts'[y].phase = phase
  BY <1>1, <1>4 DEF Receipt
<1>6. receipts' \in [YieldIds -> Receipt \union {None}]
  BY <1>2, <1>3, <1>4, <1>5
<1>7. receipts'[y] # None
  BY <1>5, SimpleNone
<1>8. \A z \in YieldIds : z # y => (Released(z)' <=> Released(z))
  BY <1>4 DEF Released, Phase
<1>9. Released(y)' => phase \in ReleasedPhases
  BY <1>5, <1>7 DEF Released, Phase
<1>10. Advances(receipts, receipts')
  <2> SUFFICES ASSUME NEW z \in YieldIds
               PROVE  /\ receipts'[z] = None <=> receipts[z] = None
                      /\ receipts[z] # None =>
                           /\ receipts'[z].caller = receipts[z].caller
                           /\ receipts'[z].id = receipts[z].id
                           /\ receipts'[z].phase \in LivePhases =>
                                receipts[z].phase \in LivePhases
    BY <1>6 DEF Advances
  <2> QED  BY <1>1, <1>4, <1>5, <1>7
<1> QED  BY <1>4, <1>5, <1>8, <1>9, <1>10

\* The chain of y ends.
LEMMA EndsSound ==
  ASSUME Inv, NEW y \in YieldIds, Phase(y) \in LivePhases, UNCHANGED next_yield,
         Advances(receipts, receipts'), receipts'[y].phase \notin LivePhases,
         registered_steps' = Without(Key(y))
  PROVE  Sound(registered_steps, receipts, next_yield)'
<1>1. receipts[y] # None /\ receipts[y].phase \in LivePhases
  BY LiveTypes
<1>2. Sound([registered_steps EXCEPT ![<<receipts[y].caller, receipts[y].id>>] = None],
            receipts', next_yield)
  BY <1>1, EndKeepsSound DEF Inv
<1> QED  BY <1>2 DEF Without, Key

LEMMA ResumedOkKeepsInv ==
  ASSUME Inv, NEW y \in YieldIds, on_step_resumed_ok(y), UNCHANGED <<next_yield, runs>>
  PROVE  Inv' /\ [Promise!Next]_Promise!orderedVars
<1>1. Phase(y) = "resumed" /\ Phase(y) \in LivePhases /\ Released(y)
  BY DEF on_step_resumed_ok, LivePhases, ReleasedPhases, Released
<1>2. UNCHANGED <<registered_steps, sequence_queue, entries, current, run_of, order,
                  answers, shared>>
  BY DEF on_step_resumed_ok
<1>3. \/ MoveTo(y, "target") /\ calls' = [calls EXCEPT ![run_of[y]] = Append(@, receipts[y].id)]
      \/ MoveTo(y, "aborted") /\ UNCHANGED calls
  BY DEF on_step_resumed_ok
<1>4. run_of[y] \in Runs /\ receipts[y].id \in StepIds /\ receipts[y].phase = "resumed"
  BY <1>1, ReleasedTypes, LiveTypes
<1>5. calls \in [Runs -> Seq(StepIds)] /\ answers \in [Runs -> Nat]
  BY DEF Inv, TypeOK
<1>6. run_of[y] \notin shared =>
        /\ Follows(order[run_of[y]], answers[run_of[y]], receipts[y].id,
                   sequence_queue[receipts[y].caller])
        /\ Len(calls[run_of[y]]) = answers[run_of[y]]
  BY <1>1, <1>4, <1>5 DEF Inv, RunsInv, Progressing
<1>7. CASE MoveTo(y, "target")
           /\ calls' = [calls EXCEPT ![run_of[y]] = Append(@, receipts[y].id)]
  <2>1. /\ Advances(receipts, receipts')
        /\ receipts'[y].phase = "target" /\ receipts'[y].caller = receipts[y].caller
        /\ receipts'[y].id = receipts[y].id
        /\ \A z \in YieldIds : z # y => receipts'[z] = receipts[z]
                                        /\ (Released(z)' <=> Released(z))
    BY <1>1, <1>7, Moves DEF Phases, LivePhases, ReleasedPhases
  <2>2. calls' \in [Runs -> Seq(StepIds)]
        /\ calls'[run_of[y]] = Append(calls[run_of[y]], receipts[y].id)
        /\ \A r \in Runs : r # run_of[y] => calls'[r] = calls[r]
    BY <1>4, <1>5, <1>7
  <2>3. Len(calls'[run_of[y]]) = Len(calls[run_of[y]]) + 1
    BY <1>4, <1>5, <2>2
  <2>4. Sound(registered_steps, receipts, next_yield)'
    BY <1>2, <2>1, AdvanceKeepsSound DEF Inv
  <2>5. TypeOK'
    BY <1>2, <2>1, <2>2, <2>4 DEF Inv, TypeOK, Sound
  <2>6. ASSUME NEW z \in YieldIds, Released(z)', run_of[z] \notin shared
        PROVE  Len(calls'[run_of[z]])
                 = answers[run_of[z]] + (IF receipts'[z].phase = "resumed" THEN 0 ELSE 1)
    <3>1. CASE z = y
      BY <1>4, <1>5, <1>6, <2>1, <2>3, <2>6, <3>1
    <3>2. CASE z # y
      <4>1. Released(z) /\ receipts'[z] = receipts[z]
        BY <2>1, <2>6, <3>2
      <4>2. run_of[z] # run_of[y] /\ run_of[z] \in Runs
        BY <1>1, <2>6, <3>2, <4>1, OneStepPerRun, ReleasedTypes
      <4> QED  BY <2>2, <2>6, <4>1, <4>2 DEF Inv, RunsInv, Progressing
    <3> QED  BY <3>1, <3>2
  <2>7. run_of[y] <= runs
    BY <1>1 DEF Inv, RunsInv, ReleasedByRun
  <2>8. \A r \in Runs : r > runs => calls'[r] = calls[r]
    BY <2>2, <2>7, SimpleBounds DEF Inv, TypeOK, Runs
  <2>9. \A z \in YieldIds : Released(z)' =>
          Released(z) /\ receipts'[z].caller = receipts[z].caller
                      /\ receipts'[z].id = receipts[z].id
    BY <1>1, <2>1
  <2>10. RunsInv'
    BY <1>2, <2>5, <2>6, <2>8, <2>9, QuietKeepsRuns
  <2>11. Promise!Next
    <3>1. run_of[y] \notin shared => Promise!Call(run_of[y])
      BY <1>2, <1>4, <1>5, <1>6, <2>2 DEF Follows, Promise!Call
    <3>2. \A r \in Runs : r # run_of[y] => Promise!Stays(r)
      BY <1>2, <2>2 DEF Promise!Stays
    <3> QED  BY <1>2, <3>1, <3>2 DEF Promise!Next
  <2> QED  BY <2>4, <2>5, <2>10, <2>11 DEF Inv
<1>8. CASE MoveTo(y, "aborted") /\ UNCHANGED calls
  <2>1. /\ Advances(receipts, receipts')
        /\ \A z \in YieldIds : Released(z)' => z # y
        /\ \A z \in YieldIds : z # y => receipts'[z] = receipts[z]
                                        /\ (Released(z)' <=> Released(z))
    BY <1>1, <1>8, Moves DEF Phases, ReleasedPhases
  <2>2. Sound(registered_steps, receipts, next_yield)'
    BY <1>2, <2>1, AdvanceKeepsSound DEF Inv
  <2>3. TypeOK'
    BY <1>2, <1>8, <2>1, <2>2 DEF Inv, TypeOK, Sound
  <2>4. RunsInv'
    <3>1. \A z \in YieldIds : Released(z)' /\ run_of[z] \notin shared =>
            Len(calls'[run_of[z]])
              = answers[run_of[z]] + (IF receipts'[z].phase = "resumed" THEN 0 ELSE 1)
      BY <1>8, <2>1 DEF Inv, RunsInv, Progressing
    <3> QED  BY <1>2, <1>8, <2>1, <2>3, <3>1, QuietKeepsRuns
  <2> QED  BY <1>2, <1>8, <2>2, <2>3, <2>4 DEF Inv, Promise!orderedVars
<1> QED  BY <1>3, <1>7, <1>8

\* The chain of y ends, the queue of its caller with it.
LEMMA HaltKeepsInv ==
  ASSUME Inv, NEW y \in YieldIds, Phase(y) \in LivePhases, NEW phase \in Phases \ LivePhases,
         MoveTo(y, phase), registered_steps' = Without(Key(y)),
         clear_queue_for_caller(receipts[y].caller),
         UNCHANGED <<entries, next_yield, runs, current, run_of, runVars>>
  PROVE  Inv' /\ UNCHANGED Promise!orderedVars
<1>1. /\ Advances(receipts, receipts') /\ receipts'[y].phase = phase
      /\ \A z \in YieldIds : Released(z)' => z # y
      /\ \A z \in YieldIds : z # y => receipts'[z] = receipts[z]
                                      /\ (Released(z)' <=> Released(z))
  BY Moves DEF LivePhases
<1>2. Sound(registered_steps, receipts, next_yield)'
  BY <1>1, EndsSound
<1>3. /\ sequence_queue' \in [Callers -> Seq(StepIds)]
      /\ \A c \in Callers : sequence_queue'[c] = sequence_queue[c] \/ sequence_queue'[c] = <<>>
  <2>1. sequence_queue' = [sequence_queue EXCEPT ![receipts[y].caller] = <<>>]
    BY DEF clear_queue_for_caller
  <2>2. sequence_queue \in [Callers -> Seq(StepIds)] /\ <<>> \in Seq(StepIds)
    BY DEF Inv, TypeOK
  <2> QED  BY <2>1, <2>2
<1>4. TypeOK'
  BY <1>1, <1>2, <1>3 DEF Inv, TypeOK, Sound, runVars
<1>5. \A z \in YieldIds : Released(z)' /\ run_of[z] \notin shared =>
        Len(calls'[run_of[z]])
          = answers[run_of[z]] + (IF receipts'[z].phase = "resumed" THEN 0 ELSE 1)
  BY <1>1 DEF Inv, RunsInv, Progressing, runVars
<1>6. RunsInv'
  BY <1>1, <1>3, <1>4, <1>5, QuietKeepsRuns DEF runVars
<1> QED  BY <1>2, <1>4, <1>6 DEF Inv, Promise!orderedVars, runVars

LEMMA TargetKeepsInv ==
  ASSUME Inv, NEW y \in YieldIds, NEW ok \in BOOLEAN, TargetRuns(y, ok),
         UNCHANGED <<next_yield, runs>>
  PROVE  Inv' /\ UNCHANGED Promise!orderedVars
<1>1. Phase(y) = "target" /\ Phase(y) \in LivePhases /\ Released(y)
  BY DEF TargetRuns, LivePhases, ReleasedPhases, Released
<1>2. UNCHANGED <<registered_steps, sequence_queue, current, run_of, runVars>>
  BY DEF TargetRuns
<1>3. PICK phase \in {"resolve_ok", "resolve_err"} : MoveTo(y, phase)
  BY DEF TargetRuns
<1>4. phase \in Phases
  BY DEF Phases, LivePhases, ReleasedPhases
<1>5. /\ Advances(receipts, receipts')
      /\ receipts'[y].phase = phase /\ receipts'[y].caller = receipts[y].caller
      /\ receipts'[y].id = receipts[y].id
      /\ \A z \in YieldIds : z # y => receipts'[z] = receipts[z]
                                      /\ (Released(z)' <=> Released(z))
  BY <1>1, <1>3, <1>4, Moves
<1>6. Sound(registered_steps, receipts, next_yield)'
  BY <1>2, <1>5, AdvanceKeepsSound DEF Inv
<1>7. entries' \in Seq(RecordEntry)
  <2>1. [step_id |-> receipts[y].id, signer_id |-> receipts[y].caller, run |-> run_of[y]]
          \in RecordEntry
    BY <1>1, ReleasedTypes DEF RecordEntry
  <2>2. entries \in Seq(RecordEntry)
    BY DEF Inv, TypeOK
  <2>3. \/ entries' = entries
        \/ entries' = Append(entries, [step_id |-> receipts[y].id,
                                       signer_id |-> receipts[y].caller, run |-> run_of[y]])
    BY DEF TargetRuns, record
  <2> QED  BY <2>1, <2>2, <2>3
<1>8. TypeOK'
  BY <1>2, <1>5, <1>6, <1>7 DEF Inv, TypeOK, Sound, runVars
<1>9. ASSUME NEW z \in YieldIds, Released(z)', run_of[z] \notin shared
      PROVE  Len(calls'[run_of[z]])
               = answers[run_of[z]] + (IF receipts'[z].phase = "resumed" THEN 0 ELSE 1)
  <2>1. Released(z) /\ (receipts'[z].phase = "resumed" <=> receipts[z].phase = "resumed")
    BY <1>1, <1>5, <1>9, LiveTypes
  <2>2. calls' = calls
    BY <1>2 DEF runVars
  <2> QED  BY <1>9, <2>1, <2>2 DEF Inv, RunsInv, Progressing
<1>10. RunsInv'
  BY <1>1, <1>2, <1>5, <1>8, <1>9, QuietKeepsRuns DEF runVars
<1> QED  BY <1>2, <1>6, <1>8, <1>10 DEF Inv, Promise!orderedVars, runVars

\* The answer of y's target, counted.
Answered(y) == answers' = [answers EXCEPT ![run_of[y]] = @ + 1]

LEMMA AnswersProgress ==
  ASSUME Inv, NEW y \in YieldIds, Phase(y) = "resolve_ok", Answered(y),
         UNCHANGED <<order, calls, shared>>
  PROVE  /\ Promise!Next
         /\ run_of[y] \in Runs /\ answers'[run_of[y]] = answers[run_of[y]] + 1
         /\ answers' \in [Runs -> Nat]
         /\ \A r \in Runs : r # run_of[y] => answers'[r] = answers[r]
<1>1. Released(y) /\ receipts[y].phase = "resolve_ok"
  BY LiveTypes DEF Released, ReleasedPhases, LivePhases
<1>2. run_of[y] \in Runs
  BY <1>1, ReleasedTypes
<1>3. answers \in [Runs -> Nat] /\ calls \in [Runs -> Seq(StepIds)]
  BY DEF Inv, TypeOK
<1>4. answers'[run_of[y]] = answers[run_of[y]] + 1 /\ answers' \in [Runs -> Nat]
      /\ \A r \in Runs : r # run_of[y] => answers'[r] = answers[r]
  BY <1>2, <1>3 DEF Answered
<1>5. run_of[y] \notin shared => Len(calls[run_of[y]]) = answers[run_of[y]] + 1
  BY <1>1, <1>2 DEF Inv, RunsInv, Progressing
<1>6. run_of[y] \notin shared => Promise!Answer(run_of[y])
  BY <1>2, <1>3, <1>4, <1>5 DEF Promise!Answer
<1>7. \A r \in Runs : r # run_of[y] => Promise!Stays(r)
  BY <1>4 DEF Promise!Stays
<1> QED  BY <1>2, <1>4, <1>6, <1>7 DEF Promise!Next

\* The sequence of y's caller ends with it.
LEMMA LastResolvedKeepsInv ==
  ASSUME Inv, NEW y \in YieldIds, Phase(y) = "resolve_ok", Answered(y),
         MoveTo(y, "ok"), registered_steps' = Without(Key(y)),
         \A c \in Callers : sequence_queue'[c] = sequence_queue[c] \/ sequence_queue'[c] = <<>>,
         sequence_queue' \in [Callers -> Seq(StepIds)],
         UNCHANGED <<entries, next_yield, runs, current, run_of, order, calls, shared>>
  PROVE  Inv' /\ Promise!Next
<1>1. Phase(y) \in LivePhases /\ Released(y)
  BY DEF Released, ReleasedPhases, LivePhases
<1>2. /\ Advances(receipts, receipts') /\ receipts'[y].phase = "ok"
      /\ \A z \in YieldIds : Released(z)' => z # y
      /\ \A z \in YieldIds : z # y => receipts'[z] = receipts[z]
                                      /\ (Released(z)' <=> Released(z))
  BY <1>1, Moves DEF Phases, LivePhases, ReleasedPhases
<1>3. Sound(registered_steps, receipts, next_yield)'
  BY <1>1, <1>2, EndsSound DEF LivePhases, ReleasedPhases
<1>4. /\ Promise!Next
      /\ run_of[y] \in Runs /\ answers'[run_of[y]] = answers[run_of[y]] + 1
      /\ answers' \in [Runs -> Nat]
      /\ \A r \in Runs : r # run_of[y] => answers'[r] = answers[r]
  BY AnswersProgress
<1>5. TypeOK'
  BY <1>2, <1>3, <1>4 DEF Inv, TypeOK, Sound
<1>6. Begun'
  <2>1. run_of[y] <= runs
    BY <1>1 DEF Inv, RunsInv, ReleasedByRun
  <2>2. \A r \in Runs : r > runs => r # run_of[y]
    BY <2>1, <1>4, SimpleBounds DEF Inv, TypeOK, Runs
  <2> QED  BY <1>4, <2>2 DEF Inv, RunsInv, Begun
<1>7. ReleasedByRun'
  BY <1>2 DEF Inv, RunsInv, ReleasedByRun
<1>8. OneReleased'
  BY <1>2 DEF Inv, RunsInv, OneReleased
<1>9. Progressing'
  <2> SUFFICES ASSUME NEW z \in YieldIds, Released(z)', run_of[z] \notin shared
               PROVE  /\ Follows(order[run_of[z]], answers'[run_of[z]], receipts'[z].id,
                                 sequence_queue'[receipts'[z].caller])
                      /\ Len(calls[run_of[z]])
                           = answers'[run_of[z]]
                             + (IF receipts'[z].phase = "resumed" THEN 0 ELSE 1)
    BY DEF Progressing
  <2>1. z # y /\ Released(z) /\ receipts'[z] = receipts[z]
    BY <1>2
  <2>2. run_of[z] \in Runs /\ run_of[z] # run_of[y] /\ receipts[z].caller \in Callers
    BY <1>1, <2>1, OneStepPerRun, ReleasedTypes
  <2>3. answers'[run_of[z]] = answers[run_of[z]]
    BY <1>4, <2>2
  <2>4. /\ Follows(order[run_of[z]], answers[run_of[z]], receipts[z].id,
                   sequence_queue[receipts[z].caller])
        /\ Len(calls[run_of[z]])
             = answers[run_of[z]] + (IF receipts[z].phase = "resumed" THEN 0 ELSE 1)
    BY <2>1 DEF Inv, RunsInv, Progressing
  <2>5. Follows(order[run_of[z]], answers[run_of[z]], receipts[z].id, <<>>)
    BY <2>4 DEF Follows
  <2>6. \/ sequence_queue'[receipts[z].caller] = sequence_queue[receipts[z].caller]
        \/ sequence_queue'[receipts[z].caller] = <<>>
    BY <2>2
  <2> QED  BY <2>1, <2>3, <2>4, <2>5, <2>6
<1> QED  BY <1>3, <1>4, <1>5, <1>6, <1>7, <1>8, <1>9 DEF Inv, RunsInv

\* The next step of y's caller is resumed.
LEMMA NextResumedKeepsInv ==
  ASSUME Inv, NEW y \in YieldIds, Phase(y) = "resolve_ok", Answered(y),
         registered_steps' = Without(Key(y)), NEW c, c = receipts[y].caller,
         NEW next, next = registered_steps'[<<c, Head(sequence_queue[c])>>],
         sequence_queue[c] # <<>>, CanResume(receipts, next),
         receipts' = [receipts EXCEPT ![y].phase = "ok", ![next].phase = "resumed"],
         sequence_queue' = [sequence_queue EXCEPT ![c] = Tail(@)],
         run_of' = [run_of EXCEPT ![next] = current[c]],
         UNCHANGED <<entries, next_yield, runs, current, order, calls, shared>>
  PROVE  Inv' /\ Promise!Next
<1> DEFINE q == sequence_queue[c]
           r == run_of[y]
<1>1. Phase(y) \in LivePhases /\ Released(y) /\ receipts[y].phase = "resolve_ok"
      /\ receipts[y] \in Receipt /\ receipts[y] # None /\ c \in Callers
      /\ r \in Runs /\ r # 0 /\ r <= runs
  BY LiveTypes, ReleasedTypes
     DEF Released, ReleasedPhases, LivePhases, Inv, RunsInv, ReleasedByRun
<1>2. q \in Seq(StepIds) /\ q # <<>>
  BY <1>1 DEF Inv, TypeOK
<1>3. /\ Head(q) \in StepIds /\ Tail(q) \in Seq(StepIds) /\ Len(q) \in Nat /\ Len(q) >= 1
      /\ Head(q) = q[1] /\ Len(Tail(q)) = Len(q) - 1
      /\ \A i \in 1..Len(Tail(q)) : Tail(q)[i] = q[i + 1]
  BY ONLY <1>2, HeadAndTail
<1>4. /\ next \in YieldIds /\ next # y /\ receipts[next] # None
      /\ receipts[next] \in Receipt
      /\ receipts[next].phase \in {"waiting", "resumed"}
      /\ receipts[next].caller = c /\ receipts[next].id = Head(q)
  <2>1. <<c, Head(q)>> \in Keys /\ registered_steps \in [Keys -> YieldIds \union {None}]
    BY <1>1, <1>3 DEF Keys, Inv, TypeOK
  <2>2. next # None /\ receipts[next] # None /\ receipts[next].phase \in {"waiting", "resumed"}
    BY DEF CanResume
  <2>3. next = registered_steps[<<c, Head(q)>>]
    BY <2>1, <2>2 DEF Without
  <2>4. next \in YieldIds /\ receipts[next].caller = c /\ receipts[next].id = Head(q)
    BY ONLY Inv, <2>1, <2>2, <2>3 DEF Inv, Sound
  <2>5. next # y
    BY <1>1, <2>2
  <2> QED  BY <2>2, <2>4, <2>5 DEF Inv, TypeOK
<1>5. receipts \in [YieldIds -> Receipt \union {None}]
  BY DEF Inv, TypeOK
<1>6. /\ receipts'[y] = [receipts[y] EXCEPT !.phase = "ok"]
      /\ receipts'[next] = [receipts[next] EXCEPT !.phase = "resumed"]
      /\ \A z \in YieldIds : z # y /\ z # next => receipts'[z] = receipts[z]
      /\ DOMAIN receipts' = YieldIds
  BY <1>4, <1>5
<1>7. /\ receipts'[y] \in Receipt /\ receipts'[next] \in Receipt
      /\ receipts'[y].phase = "ok" /\ receipts'[next].phase = "resumed"
      /\ receipts'[y].caller = c /\ receipts'[next].caller = c
      /\ receipts'[y].id = receipts[y].id /\ receipts'[next].id = Head(q)
  BY <1>1, <1>4, <1>6 DEF Receipt, Phases, LivePhases, ReleasedPhases
<1>8. Advances(receipts, receipts')
  <2>1. receipts' \in [YieldIds -> Receipt \union {None}]
    <3>1. \A z \in YieldIds : receipts'[z] \in Receipt \union {None}
      BY <1>5, <1>6, <1>7
    <3>2. receipts' = [z \in YieldIds |-> receipts'[z]]
      BY <1>5
    <3> QED  BY <3>1, <3>2
  <2>2. receipts'[y] # None /\ receipts'[next] # None
        /\ receipts[next].phase \in LivePhases
        /\ receipts'[y].phase \notin LivePhases
    BY <1>4, <1>7, SimpleNone DEF LivePhases, ReleasedPhases
  <2> SUFFICES ASSUME NEW z \in YieldIds
               PROVE  /\ receipts'[z] = None <=> receipts[z] = None
                      /\ receipts[z] # None =>
                           /\ receipts'[z].caller = receipts[z].caller
                           /\ receipts'[z].id = receipts[z].id
                           /\ receipts'[z].phase \in LivePhases =>
                                receipts[z].phase \in LivePhases
    BY <2>1 DEF Advances
  <2>3. CASE z = y
    BY <1>1, <1>7, <2>2, <2>3
  <2>4. CASE z = next
    BY <1>4, <1>7, <2>2, <2>4
  <2>5. CASE z # y /\ z # next
    BY <1>6, <2>5
  <2> QED  BY <2>3, <2>4, <2>5
<1>9. Sound(registered_steps, receipts, next_yield)'
  BY <1>1, <1>7, <1>8, EndsSound DEF LivePhases, ReleasedPhases
<1>10. /\ Promise!Next
       /\ answers'[r] = answers[r] + 1
       /\ answers' \in [Runs -> Nat]
       /\ \A s \in Runs : s # r => answers'[s] = answers[s]
  BY AnswersProgress
<1>11. /\ current[c] \in 0..MaxRuns /\ current[c] # 0 /\ current[c] <= runs
       /\ \/ r = current[c]
          \/ r \in shared /\ current[c] \in shared
  BY <1>1, <1>2 DEF Inv, TypeOK, RunsInv, Begun, ReleasedByRun
<1>12. /\ sequence_queue' \in [Callers -> Seq(StepIds)]
       /\ sequence_queue'[c] = Tail(q)
       /\ \A d \in Callers : d # c => sequence_queue'[d] = sequence_queue[d]
       /\ run_of' \in [YieldIds -> 0..MaxRuns]
       /\ run_of'[next] = current[c]
       /\ \A z \in YieldIds : z # next => run_of'[z] = run_of[z]
  BY <1>1, <1>3, <1>4, <1>11 DEF Inv, TypeOK
<1>13. TypeOK'
  BY <1>9, <1>10, <1>12 DEF Inv, TypeOK, Sound
<1>14. ASSUME NEW z \in YieldIds, Released(z)', z # next
       PROVE  z # y /\ Released(z) /\ receipts'[z] = receipts[z] /\ run_of'[z] = run_of[z]
  <2>1. z # y
    BY <1>7, <1>14, SimpleNone DEF Released, Phase, ReleasedPhases
  <2> QED  BY <1>6, <1>12, <1>14, <2>1 DEF Released, Phase
<1>15. \A z \in YieldIds : z # y /\ Released(z) /\ receipts[z].caller = c =>
         run_of[z] \in shared /\ r \in shared
  BY <1>1 DEF Inv, RunsInv, OneReleased
<1>16. Begun'
  <2>1. \A s \in Runs : s > runs => s # r
    BY <1>1, SimpleBounds DEF Inv, TypeOK, Runs
  <2>2. \A d \in Callers : sequence_queue'[d] # <<>> => current[d] # 0
    BY <1>11, <1>12 DEF Inv, RunsInv, Begun
  <2> QED  BY <1>10, <2>1, <2>2 DEF Inv, RunsInv, Begun
<1>17. ReleasedByRun'
  <2> SUFFICES ASSUME NEW z \in YieldIds, Released(z)'
               PROVE  /\ run_of'[z] # 0 /\ run_of'[z] <= runs
                      /\ \/ run_of'[z] = current[receipts'[z].caller]
                         \/ run_of'[z] \in shared /\ current[receipts'[z].caller] \in shared
    BY DEF ReleasedByRun
  <2>1. CASE z = next
    BY <1>7, <1>11, <1>12, <2>1
  <2>2. CASE z # next
    BY <1>14, <2>2 DEF Inv, RunsInv, ReleasedByRun
  <2> QED  BY <2>1, <2>2
<1>18. OneReleased'
  <2> SUFFICES ASSUME NEW z \in YieldIds, NEW w \in YieldIds, Released(z)', Released(w)',
                      z # w, receipts'[z].caller = receipts'[w].caller
               PROVE  run_of'[z] \in shared
    BY DEF OneReleased
  <2>1. CASE z = next
    <3>1. Released(w) /\ w # y /\ receipts[w].caller = c
      BY ZenonT(30), <1>7, <1>14, <2>1
    <3> QED  BY <1>11, <1>12, <1>15, <2>1, <3>1
  <2>2. CASE z # next /\ w = next
    <3>1. Released(z) /\ z # y /\ receipts[z].caller = c /\ run_of'[z] = run_of[z]
      BY ZenonT(30), <1>7, <1>14, <2>2
    <3> QED  BY <1>15, <3>1
  <2>3. CASE z # next /\ w # next
    <3>1. /\ Released(z) /\ receipts'[z] = receipts[z] /\ run_of'[z] = run_of[z]
          /\ Released(w) /\ receipts'[w] = receipts[w]
      BY <1>14, <2>3
    <3> QED  BY <3>1 DEF Inv, RunsInv, OneReleased
  <2> QED  BY <2>1, <2>2, <2>3
<1>19. Progressing'
  <2> SUFFICES ASSUME NEW z \in YieldIds, Released(z)', run_of'[z] \notin shared
               PROVE  /\ Follows(order[run_of'[z]], answers'[run_of'[z]], receipts'[z].id,
                                 sequence_queue'[receipts'[z].caller])
                      /\ Len(calls[run_of'[z]])
                           = answers'[run_of'[z]]
                             + (IF receipts'[z].phase = "resumed" THEN 0 ELSE 1)
    BY DEF Progressing
  <2>1. CASE z = next
    <3>1. r \notin shared /\ run_of'[z] = r
      BY <1>11, <1>12, <2>1
    <3>2. Follows(order[r], answers[r], receipts[y].id, q) /\ Len(calls[r]) = answers[r] + 1
      BY <1>1, <3>1 DEF Inv, RunsInv, Progressing
    <3>3. order[r] \in Seq(StepIds) /\ answers[r] \in Nat
      BY <1>1 DEF Inv, TypeOK
    <3>4. Follows(order[r], answers[r] + 1, Head(q), Tail(q))
      <4> HIDE DEF q, r
      <4> QED  BY <1>2, <3>2, <3>3, FollowsShifts
    <3>5. Len(calls[r]) = (answers[r] + 1) + 0
      BY ONLY <3>2, <3>3
    <3>6. receipts'[z].id = Head(q) /\ receipts'[z].phase = "resumed"
          /\ sequence_queue'[receipts'[z].caller] = Tail(q) /\ answers'[r] = answers[r] + 1
      BY ZenonT(30), <1>7, <1>10, <1>12, <2>1
    <3> HIDE DEF q, r
    <3> QED  BY <3>1, <3>4, <3>5, <3>6
  <2>2. CASE z # next
    <3>1. z # y /\ Released(z) /\ receipts'[z] = receipts[z] /\ run_of'[z] = run_of[z]
      BY <1>14, <2>2
    <3>2. run_of[z] \in Runs /\ run_of[z] # r /\ receipts[z].caller \in Callers
          /\ receipts[z].caller # c
      BY <1>1, <1>15, <3>1, OneStepPerRun, ReleasedTypes
    <3>3. answers'[run_of[z]] = answers[run_of[z]]
          /\ sequence_queue'[receipts[z].caller] = sequence_queue[receipts[z].caller]
      BY <1>10, <1>12, <3>2
    <3>4. /\ Follows(order[run_of[z]], answers[run_of[z]], receipts[z].id,
                     sequence_queue[receipts[z].caller])
          /\ Len(calls[run_of[z]])
               = answers[run_of[z]] + (IF receipts[z].phase = "resumed" THEN 0 ELSE 1)
      BY <3>1 DEF Inv, RunsInv, Progressing
    <3> QED  BY <3>1, <3>3, <3>4
  <2> QED  BY <2>1, <2>2
<1> QED  BY <1>9, <1>10, <1>13, <1>16, <1>17, <1>18, <1>19 DEF Inv, RunsInv

LEMMA DeliverKeepsInv ==
  ASSUME Inv, NEW y \in YieldIds, Deliver(y)
  PROVE  Inv' /\ [Promise!Next]_Promise!orderedVars
<1>1. UNCHANGED <<next_yield, runs>>
  BY DEF Deliver
<1>2. CASE WakesUpLate(y)
  BY <1>2, LiveTypes, SimpleNone DEF WakesUpLate, LivePhases, ReleasedPhases, YieldIds
<1>3. CASE on_step_resumed_ok(y)
  BY <1>1, <1>3, ResumedOkKeepsInv
<1>4. CASE on_step_resumed_err(y)
  BY <1>1, <1>4, HaltKeepsInv
     DEF on_step_resumed_err, Phases, LivePhases, ReleasedPhases
<1>5. CASE \E ok \in BOOLEAN : TargetRuns(y, ok)
  BY <1>1, <1>5, TargetKeepsInv
<1>6. CASE on_step_resolved_err(y)
  BY <1>1, <1>6, HaltKeepsInv
     DEF on_step_resolved_err, Phases, LivePhases, ReleasedPhases
<1>7. CASE on_step_resolved_ok(y)
  <2> DEFINE c == receipts[y].caller
             next == registered_steps'[<<c, Head(sequence_queue[c])>>]
  <2>1. /\ Phase(y) = "resolve_ok" /\ registered_steps' = Without(Key(y)) /\ Answered(y)
        /\ UNCHANGED <<entries, current, order, calls, shared>>
    BY <1>7 DEF on_step_resolved_ok, Answered
  <2>2. \/ MoveTo(y, "ok") /\ UNCHANGED <<sequence_queue, run_of>>
        \/ /\ sequence_queue[c] # <<>> /\ CanResume(receipts, next)
           /\ receipts' = [receipts EXCEPT ![y].phase = "ok", ![next].phase = "resumed"]
           /\ sequence_queue' = [sequence_queue EXCEPT ![c] = Tail(@)]
           /\ run_of' = [run_of EXCEPT ![next] = current[c]]
        \/ MoveTo(y, "ok") /\ clear_queue_for_caller(c) /\ UNCHANGED run_of
    BY <1>7 DEF on_step_resolved_ok, progress_after_successful_resolution
  <2> HIDE DEF next
  <2>3. CASE MoveTo(y, "ok") /\ UNCHANGED <<sequence_queue, run_of>>
    <3>1. sequence_queue' \in [Callers -> Seq(StepIds)]
      BY <2>3 DEF Inv, TypeOK
    <3> QED  BY <1>1, <2>1, <2>3, <3>1, LastResolvedKeepsInv
  <2>4. CASE MoveTo(y, "ok") /\ clear_queue_for_caller(c) /\ UNCHANGED run_of
    <3>1. sequence_queue' = [sequence_queue EXCEPT ![c] = <<>>]
      BY <2>4 DEF clear_queue_for_caller
    <3>2. sequence_queue \in [Callers -> Seq(StepIds)] /\ <<>> \in Seq(StepIds)
      BY DEF Inv, TypeOK
    <3>3. /\ sequence_queue' \in [Callers -> Seq(StepIds)]
          /\ \A d \in Callers :
               sequence_queue'[d] = sequence_queue[d] \/ sequence_queue'[d] = <<>>
      BY <3>1, <3>2
    <3> QED  BY <1>1, <2>1, <2>4, <3>3, LastResolvedKeepsInv
  <2>5. CASE /\ sequence_queue[c] # <<>> /\ CanResume(receipts, next)
             /\ receipts' = [receipts EXCEPT ![y].phase = "ok", ![next].phase = "resumed"]
             /\ sequence_queue' = [sequence_queue EXCEPT ![c] = Tail(@)]
             /\ run_of' = [run_of EXCEPT ![next] = current[c]]
    <3>1. next = registered_steps'[<<c, Head(sequence_queue[c])>>]
      BY DEF next
    <3> QED  BY <1>1, <2>1, <2>5, <3>1, NextResumedKeepsInv
  <2> QED  BY <2>2, <2>3, <2>4, <2>5
<1> QED  BY <1>2, <1>3, <1>4, <1>5, <1>6, <1>7 DEF Deliver

----------------------------------------------------------------------------
(* The recorder.  An entry is written before the call that wrote it is     *)
(* answered, so RecordedInOrder needs to know which entry has no answer    *)
(* yet: that of a chain whose on_step_resolved is on its way with success. *)

Unanswered(r) == \E y \in YieldIds : Phase(y) = "resolve_ok" /\ run_of[y] = r
InBetween(r) == IF Unanswered(r) THEN 1 ELSE 0

EntriesRight ==
  \A r \in Runs \ shared :
    /\ Recorded(r, Len(entries)) = answers[r] + InBetween(r)
    /\ \A i \in DOMAIN entries : entries[i].run = r =>
         Recorded(r, i) <= Len(order[r]) /\ entries[i].step_id = order[r][Recorded(r, i)]

LEMMA AnswerDue ==
  /\ \A z : Phase(z) = "resolve_ok" <=> receipts[z] # None /\ receipts[z].phase = "resolve_ok"
  /\ \A z : Phase(z)' = "resolve_ok" <=> receipts'[z] # None /\ receipts'[z].phase = "resolve_ok"
<1>1. None # "resolve_ok"
  BY SimpleNone DEF Phases, LivePhases, ReleasedPhases
<1> QED  BY <1>1 DEF Phase

\* Counting in an initial part of the entries.
LEMMA RecordedCounts ==
  ASSUME NEW r, NEW n \in Nat
  PROVE  /\ IsFiniteSet({i \in 1..n : entries[i].run = r})
         /\ Recorded(r, n) \in Nat
         /\ Recorded(r, n) = 0 => \A i \in 1..n : entries[i].run # r
<1>1. IsFiniteSet(1..n)
  BY FS_Interval
<1>2. IsFiniteSet({i \in 1..n : entries[i].run = r})
  BY <1>1, FS_Subset
<1>3. Cardinality({i \in 1..n : entries[i].run = r}) \in Nat
  BY <1>2, FS_CardinalityType
<1>4. Cardinality({i \in 1..n : entries[i].run = r}) = 0
        => {i \in 1..n : entries[i].run = r} = {}
  BY <1>2, FS_EmptySet
<1> QED  BY <1>2, <1>3, <1>4 DEF Recorded

\* recorder.record: one more entry, for one run.
LEMMA RecordCounts ==
  ASSUME NEW es \in Seq(RecordEntry), entries = es, NEW e \in RecordEntry,
         entries' = Append(es, e), NEW r
  PROVE  /\ \A n \in 0..Len(es) : Recorded(r, n)' = Recorded(r, n)
         /\ Recorded(r, Len(es) + 1)' =
              Recorded(r, Len(es)) + (IF e.run = r THEN 1 ELSE 0)
<1>1. /\ Len(es) \in Nat /\ entries'[Len(es) + 1] = e
      /\ \A i \in 1..Len(es) : entries'[i] = es[i]
  OBVIOUS
<1>2. ASSUME NEW n \in 0..Len(es)
      PROVE  {i \in 1..n : entries'[i].run = r} = {i \in 1..n : es[i].run = r}
  BY <1>1
<1>3. \A n \in 0..Len(es) : Recorded(r, n)' = Recorded(r, n)
  BY <1>2 DEF Recorded
<1> DEFINE some == {i \in 1..Len(es) : es[i].run = r}
           all == {i \in 1..(Len(es) + 1) : entries'[i].run = r}
<1>4. IsFiniteSet(some) /\ Recorded(r, Len(es)) = Cardinality(some)
      /\ Recorded(r, Len(es)) \in Nat
  <2>1. \A n \in Nat : IsFiniteSet({i \in 1..n : entries[i].run = r}) /\ Recorded(r, n) \in Nat
    BY RecordedCounts
  <2> QED  BY <1>1, <2>1 DEF Recorded
<1>5. Recorded(r, Len(es) + 1)' = Cardinality(all)
  BY <1>1 DEF Recorded
<1>6. 1..(Len(es) + 1) = 1..Len(es) \union {Len(es) + 1} /\ Len(es) + 1 \notin 1..Len(es)
  BY <1>1
<1>7. CASE e.run = r
  <2>1. all = some \union {Len(es) + 1} /\ Len(es) + 1 \notin some
    BY <1>1, <1>6, <1>7
  <2>2. Cardinality(all) = Cardinality(some) + 1
    <3> HIDE DEF some, all
    <3> QED  BY <1>4, <2>1, FS_AddElement
  <2> HIDE DEF some, all
  <2> QED  BY <1>3, <1>4, <1>5, <1>7, <2>2
<1>8. CASE e.run # r
  <2>1. all = some
    BY <1>1, <1>6, <1>8
  <2> HIDE DEF some, all
  <2> QED  BY <1>3, <1>4, <1>5, <1>8, <2>1
<1> QED  BY <1>7, <1>8

\* Steps that record nothing.
LEMMA NothingRecorded ==
  ASSUME Inv, EntriesRight, UNCHANGED entries, shared \subseteq shared',
         \A r \in Runs \ shared' : answers'[r] + InBetween(r)' = answers[r] + InBetween(r),
         \A r \in Runs \ shared' : order'[r] = order[r] \/ answers[r] + InBetween(r) = 0
  PROVE  EntriesRight'
<1>1. entries \in Seq(RecordEntry) /\ Len(entries) \in Nat /\ DOMAIN entries = 1..Len(entries)
  BY DEF Inv, TypeOK
<1>2. \A r, n : Recorded(r, n)' = Recorded(r, n)
  BY DEF Recorded
<1> SUFFICES ASSUME NEW r \in Runs \ shared'
             PROVE  /\ Recorded(r, Len(entries)) = answers'[r] + InBetween(r)'
                    /\ \A i \in DOMAIN entries : entries[i].run = r =>
                         /\ Recorded(r, i) <= Len(order'[r])
                         /\ entries[i].step_id = order'[r][Recorded(r, i)]
  BY <1>2 DEF EntriesRight
<1>3. /\ Recorded(r, Len(entries)) = answers[r] + InBetween(r)
      /\ \A i \in DOMAIN entries : entries[i].run = r =>
           Recorded(r, i) <= Len(order[r]) /\ entries[i].step_id = order[r][Recorded(r, i)]
  BY DEF EntriesRight
<1>4. CASE order'[r] = order[r]
  BY <1>3, <1>4
<1>5. CASE answers[r] + InBetween(r) = 0
  <2>1. \A i \in DOMAIN entries : entries[i].run # r
    BY <1>1, <1>3, <1>5, RecordedCounts
  <2> QED  BY <1>3, <2>1
<1> QED  BY <1>4, <1>5

\* A run has no chain in between but released ones, so none before it begins.
LEMMA UnansweredIsReleased ==
  ASSUME Inv, NEW r, Unanswered(r)
  PROVE  r # 0 /\ r <= runs /\ \E y \in YieldIds : Released(y) /\ run_of[y] = r
<1>1. PICK y \in YieldIds : Phase(y) = "resolve_ok" /\ run_of[y] = r
  BY DEF Unanswered
<1>2. Released(y)
  BY <1>1 DEF Released, ReleasedPhases
<1> QED  BY <1>1, <1>2 DEF Inv, RunsInv, ReleasedByRun

\* start_sequence_release_for_caller: the run that begins has recorded nothing.
LEMMA StartKeepsEntries ==
  ASSUME Inv, EntriesRight, NEW c \in Callers, NEW ids \in Orders, NEW reg, NEW rcpts, NEW n,
         Sound(reg, rcpts, n),
         \A y \in YieldIds : \/ rcpts[y] = receipts[y]
                             \/ /\ receipts[y] = None /\ rcpts[y] # None
                                /\ rcpts[y].phase = "waiting",
         start_sequence_release_for_caller(c, ids, reg, rcpts)
  PROVE  EntriesRight'
<1> DEFINE first == reg[<<c, Head(ids)>>]
           run == runs + 1
<1>1. CanResume(rcpts, first)
  BY DEF start_sequence_release_for_caller
<1>2. /\ receipts' = [rcpts EXCEPT ![first].phase = "resumed"]
      /\ run_of' = [run_of EXCEPT ![first] = run]
      /\ order' = [order EXCEPT ![run] = ids]
      /\ runs < MaxRuns /\ shared \subseteq shared'
      /\ UNCHANGED <<entries, answers>>
  BY DEF start_sequence_release_for_caller
<1>3. first \in YieldIds
  <2>1. ids \in Seq(StepIds) /\ ids # <<>>
    BY SimpleInputs
  <2>2. <<c, Head(ids)>> \in Keys
    BY <2>1 DEF Keys
  <2> QED  BY <1>1, <2>2 DEF Sound, CanResume
<1>4. /\ rcpts \in [YieldIds -> Receipt \union {None}]
      /\ run_of \in [YieldIds -> 0..MaxRuns] /\ order \in [Runs -> Seq(StepIds)]
      /\ runs \in Nat
  BY DEF Sound, Inv, TypeOK
<1>5. /\ receipts'[first] = [rcpts[first] EXCEPT !.phase = "resumed"]
      /\ rcpts[first] \in Receipt /\ rcpts[first].phase \in {"waiting", "resumed"}
      /\ \A z \in YieldIds : z # first => receipts'[z] = rcpts[z] /\ run_of'[z] = run_of[z]
      /\ \A r \in Runs : r # run => order'[r] = order[r]
  BY <1>1, <1>2, <1>3, <1>4 DEF CanResume
<1> HIDE DEF first
<1>6. \A z \in YieldIds : Phase(z)' = "resolve_ok" <=> z # first /\ Phase(z) = "resolve_ok"
  <2> SUFFICES ASSUME NEW z \in YieldIds
               PROVE  Phase(z)' = "resolve_ok" <=> z # first /\ Phase(z) = "resolve_ok"
    OBVIOUS
  <2>1. CASE z = first
    <3>1. receipts'[z].phase = "resumed"
      BY <1>5, <2>1 DEF Receipt
    <3>2. ~(Phase(z)' = "resolve_ok")
      BY <3>1, AnswerDue
    <3> QED  BY <2>1, <3>2
  <2>2. CASE z # first
    <3>1. receipts'[z] = rcpts[z]
      BY <1>5, <2>2
    <3>2. \/ rcpts[z] = receipts[z]
          \/ receipts[z] = None /\ rcpts[z].phase = "waiting"
      OBVIOUS
    <3> QED  BY <2>2, <3>1, <3>2, AnswerDue
  <2> QED  BY <2>1, <2>2
<1>7. Phase(first) # "resolve_ok"
  <2>1. \/ rcpts[first] = receipts[first]
        \/ receipts[first] = None
    BY <1>3
  <2> QED  BY <1>5, <2>1, AnswerDue
<1>8. \A r : InBetween(r)' = InBetween(r)
  <2>1. \A r : Unanswered(r)' <=> Unanswered(r)
    BY <1>5, <1>6, <1>7 DEF Unanswered
  <2> QED  BY <2>1 DEF InBetween
<1>9. run \in Runs => answers[run] + InBetween(run) = 0
  <2>1. ASSUME run \in Runs PROVE answers[run] = 0
    BY <1>4, <2>1 DEF Inv, RunsInv, Begun
  <2>2. ~Unanswered(run)
    BY <1>4, UnansweredIsReleased
  <2> QED  BY <2>1, <2>2 DEF InBetween
<1> QED  BY <1>2, <1>5, <1>8, <1>9, NothingRecorded

\* Steps of a chain that end or move it without an entry or an answer.
LEMMA MoveKeepsEntries ==
  ASSUME Inv, EntriesRight, NEW y \in YieldIds, Phase(y) \in LivePhases,
         Phase(y) # "resolve_ok", NEW phase \in Phases \ {"resolve_ok"}, MoveTo(y, phase),
         UNCHANGED <<entries, run_of, order, answers, shared>>
  PROVE  EntriesRight'
<1>1. /\ receipts'[y].phase = phase
      /\ \A z \in YieldIds : z # y => receipts'[z] = receipts[z]
  BY Moves
<1>2. \A z \in YieldIds : Phase(z)' = "resolve_ok" <=> Phase(z) = "resolve_ok"
  BY <1>1, SimpleNone DEF Phase, Phases, LivePhases, ReleasedPhases
<1>3. \A r : InBetween(r)' = InBetween(r)
  BY <1>2 DEF Unanswered, InBetween
<1> QED  BY <1>3, NothingRecorded

\* The recorder records: an entry more, not answered yet.
LEMMA RecordKeepsEntries ==
  ASSUME Inv, EntriesRight, NEW y \in YieldIds, TargetRuns(y, TRUE)
  PROVE  EntriesRight'
<1> DEFINE e == [step_id |-> receipts[y].id, signer_id |-> receipts[y].caller,
                 run |-> run_of[y]]
           own == run_of[y]
<1>1. /\ Phase(y) = "target" /\ Phase(y) \in LivePhases /\ Released(y)
      /\ MoveTo(y, "resolve_ok") /\ entries' = Append(entries, e)
      /\ UNCHANGED <<run_of, order, answers, shared>>
  BY DEF TargetRuns, record, LivePhases, ReleasedPhases, Released, runVars
<1>2. own \in Runs /\ e \in RecordEntry /\ e.run = own /\ e.step_id = receipts[y].id
  BY <1>1, ReleasedTypes DEF RecordEntry
<1>3. entries \in Seq(RecordEntry) /\ Len(entries) \in Nat /\ answers \in [Runs -> Nat]
      /\ order \in [Runs -> Seq(StepIds)]
  BY DEF Inv, TypeOK
<1>4. /\ Len(entries') = Len(entries) + 1 /\ entries'[Len(entries) + 1] = e
      /\ DOMAIN entries = 1..Len(entries) /\ DOMAIN entries' = 1..(Len(entries) + 1)
      /\ \A i \in 1..Len(entries) : entries'[i] = entries[i]
  BY <1>1, <1>2, <1>3
<1>5. /\ receipts'[y].phase = "resolve_ok"
      /\ \A z \in YieldIds : z # y => receipts'[z] = receipts[z]
  BY <1>1, Moves DEF Phases, LivePhases, ReleasedPhases
<1>6. \A z \in YieldIds : Phase(z)' = "resolve_ok" <=> z = y \/ Phase(z) = "resolve_ok"
  <2>1. receipts'[y] # None
    <3>1. receipts[y] \in Receipt /\ receipts \in [YieldIds -> Receipt \union {None}]
      BY <1>1, LiveTypes DEF Inv, TypeOK
    <3>2. receipts'[y] = [receipts[y] EXCEPT !.phase = "resolve_ok"]
      BY <1>1, <3>1 DEF MoveTo
    <3>3. receipts'[y] \in Receipt
      BY <3>1, <3>2 DEF Receipt, Phases, LivePhases, ReleasedPhases
    <3> QED  BY <3>3, SimpleNone
  <2> QED  BY <1>1, <1>5, <2>1, AnswerDue
<1>7. \A r : Unanswered(r)' <=> r = own \/ Unanswered(r)
  BY <1>1, <1>6 DEF Unanswered
<1>8. PICK es, new : es = entries /\ new = e
  OBVIOUS
<1> DEFINE len == Len(es)
<1>9. /\ es \in Seq(RecordEntry) /\ new \in RecordEntry /\ entries' = Append(es, new)
      /\ len \in Nat
  BY <1>1, <1>2, <1>3, <1>8
<1> HIDE DEF e
<1>10. ASSUME NEW r
       PROVE  /\ \A n \in 0..len : Recorded(r, n)' = Recorded(r, n)
              /\ Recorded(r, len + 1)' = Recorded(r, len) + (IF new.run = r THEN 1 ELSE 0)
  BY <1>8, <1>9, RecordCounts
<1> HIDE DEF len
<1>11. ASSUME NEW r \in Runs \ shared
       PROVE  /\ Recorded(r, len) = answers[r] + InBetween(r)
              /\ \A i \in 1..len : entries[i].run = r =>
                   Recorded(r, i) <= Len(order[r]) /\ entries[i].step_id = order[r][Recorded(r, i)]
  BY <1>3, <1>4, <1>8 DEF EntriesRight, len
<1>12. /\ \A i \in 1..len : entries'[i] = entries[i]
       /\ entries'[len + 1] = new /\ new.run = own /\ new.step_id = receipts[y].id
       /\ DOMAIN entries' = 1..(len + 1)
  BY <1>2, <1>4, <1>8 DEF len
<1>13. ASSUME NEW r \in Runs \ shared
       PROVE  \A i \in 1..len : entries'[i].run = r =>
                /\ Recorded(r, i)' <= Len(order[r])
                /\ entries'[i].step_id = order[r][Recorded(r, i)']
  <2> SUFFICES ASSUME NEW i \in 1..len, entries'[i].run = r
               PROVE  /\ Recorded(r, i)' <= Len(order[r])
                      /\ entries'[i].step_id = order[r][Recorded(r, i)']
    OBVIOUS
  <2>1. Recorded(r, i)' = Recorded(r, i)
    <3>1. i \in 0..len
      BY <1>9
    <3> QED  BY <1>10, <3>1
  <2>2. entries'[i] = entries[i]
    BY <1>12
  <2>3. /\ Recorded(r, i) <= Len(order[r])
        /\ entries[i].step_id = order[r][Recorded(r, i)]
    BY <1>11, <2>2
  <2> QED  BY ONLY <2>1, <2>2, <2>3
<1>14. ASSUME NEW r \in Runs \ shared
       PROVE  /\ Recorded(r, len + 1)' = answers[r] + InBetween(r)'
              /\ new.run = r => /\ Recorded(r, len + 1)' <= Len(order[r])
                                /\ new.step_id = order[r][Recorded(r, len + 1)']
  <2>1. CASE r # own
    <3>1. Recorded(r, len + 1)' = Recorded(r, len) + 0
      BY <1>10, <1>12, <2>1
    <3>2. InBetween(r)' = InBetween(r)
      BY <1>7, <2>1 DEF InBetween
    <3>3. Recorded(r, len) \in Nat
      BY <1>9, RecordedCounts
    <3> QED  BY <1>11, <1>12, <2>1, <3>1, <3>2, <3>3
  <2>2. CASE r = own
    <3>1. ~Unanswered(r)
      <4> SUFFICES ASSUME NEW z \in YieldIds, Phase(z) = "resolve_ok", run_of[z] = own
                   PROVE  FALSE
        BY <2>2 DEF Unanswered
      <4>1. Released(z) /\ z # y
        BY <1>1 DEF Released, ReleasedPhases
      <4> QED  BY <1>1, <2>2, <4>1, OneStepPerRun
    <3>2. Recorded(r, len) = answers[r] /\ answers[r] \in Nat
      BY <1>3, <1>11, <3>1 DEF InBetween
    <3>3. Recorded(r, len + 1)' = answers[r] + 1
      BY <1>10, <1>12, <2>2, <3>2
    <3>4. InBetween(r)' = 1
      BY <1>7, <2>2 DEF InBetween
    <3>5. Follows(order[r], answers[r], receipts[y].id, sequence_queue[receipts[y].caller])
      BY <1>1, <2>2 DEF Inv, RunsInv, Progressing
    <3>6. answers[r] + 1 <= Len(order[r]) /\ order[r][answers[r] + 1] = new.step_id
      BY <1>3, <1>12, <3>5 DEF Follows
    <3> QED  BY <3>3, <3>4, <3>6
  <2> QED  BY <2>1, <2>2
<1>15. PICK all : all = len + 1
  OBVIOUS
<1>16. Len(entries') = all
  BY <1>9, <1>15 DEF len
<1>17. ASSUME NEW r \in Runs \ shared
       PROVE  /\ Recorded(r, all)' = answers[r] + InBetween(r)'
              /\ \A i \in 1..all : entries'[i].run = r =>
                   /\ Recorded(r, i)' <= Len(order[r])
                   /\ entries'[i].step_id = order[r][Recorded(r, i)']
  <2>1. \A i \in 1..all : i \in 1..len \/ i = len + 1
    BY <1>9, <1>15
  <2> QED  BY <1>12, <1>13, <1>14, <1>15, <2>1
<1> QED  BY <1>1, <1>12, <1>15, <1>16, <1>17 DEF EntriesRight

\* on_step_resolved: the chain in between is answered.
LEMMA ResolvedKeepsEntries ==
  ASSUME Inv, EntriesRight, NEW y \in YieldIds, on_step_resolved_ok(y)
  PROVE  EntriesRight'
<1> DEFINE own == run_of[y]
<1>1. /\ Phase(y) = "resolve_ok" /\ Released(y) /\ Phase(y) \in LivePhases
      /\ answers' = [answers EXCEPT ![own] = @ + 1]
      /\ UNCHANGED <<entries, order, shared>>
  BY DEF on_step_resolved_ok, Released, ReleasedPhases, LivePhases
<1>2. own \in Runs /\ answers \in [Runs -> Nat] /\ receipts[y] # None
  BY <1>1, ReleasedTypes DEF Inv, TypeOK
<1>3. /\ receipts \in [YieldIds -> Receipt \union {None}] /\ run_of \in [YieldIds -> 0..MaxRuns]
  BY DEF Inv, TypeOK
<1>4. PICK next :
        \/ MoveTo(y, "ok") /\ UNCHANGED run_of
        \/ /\ CanResume(receipts, next) /\ next \in YieldIds
           /\ receipts' = [receipts EXCEPT ![y].phase = "ok", ![next].phase = "resumed"]
           /\ run_of' = [run_of EXCEPT ![next] = current[receipts[y].caller]]
  <2> DEFINE c == receipts[y].caller
             key == <<c, Head(sequence_queue[c])>>
             n == registered_steps'[key]
  <2>1. \/ MoveTo(y, "ok") /\ UNCHANGED run_of
        \/ /\ sequence_queue[c] # <<>> /\ CanResume(receipts, n)
           /\ receipts' = [receipts EXCEPT ![y].phase = "ok", ![n].phase = "resumed"]
           /\ run_of' = [run_of EXCEPT ![n] = current[c]]
    BY DEF on_step_resolved_ok, progress_after_successful_resolution
  <2>2. sequence_queue[c] # <<>> /\ n # None => n \in YieldIds
    <3>1. registered_steps' = Without(Key(y)) /\ c \in Callers
      BY <1>1, LiveTypes DEF on_step_resolved_ok
    <3>2. registered_steps' \in [Keys -> YieldIds \union {None}]
      BY <3>1 DEF Without, Inv, TypeOK
    <3>3. sequence_queue[c] # <<>> => key \in Keys
      BY <3>1 DEF Inv, TypeOK, Keys
    <3> HIDE DEF key
    <3> QED  BY <3>2, <3>3
  <2>3. CanResume(receipts, n) => n # None
    BY DEF CanResume
  <2> HIDE DEF n
  <2> QED  BY <2>1, <2>2, <2>3
<1>5. /\ \A z \in YieldIds : Phase(z)' = "resolve_ok" => z # y /\ Phase(z) = "resolve_ok"
      /\ \A z \in YieldIds : z # y /\ Phase(z) = "resolve_ok" =>
           Phase(z)' = "resolve_ok" /\ run_of'[z] = run_of[z]
  <2>1. CASE MoveTo(y, "ok") /\ UNCHANGED run_of
    <3>1. /\ receipts'[y].phase = "ok"
          /\ \A z \in YieldIds : z # y => receipts'[z] = receipts[z]
      BY <1>1, <2>1, Moves DEF Phases
    <3>2. Phase(y)' # "resolve_ok"
      BY <3>1, AnswerDue
    <3>3. \A z \in YieldIds : z # y => (Phase(z)' = "resolve_ok" <=> Phase(z) = "resolve_ok")
      BY <3>1 DEF Phase
    <3> QED  BY <2>1, <3>2, <3>3
  <2>2. CASE /\ CanResume(receipts, next) /\ next \in YieldIds
             /\ receipts' = [receipts EXCEPT ![y].phase = "ok", ![next].phase = "resumed"]
             /\ run_of' = [run_of EXCEPT ![next] = current[receipts[y].caller]]
    <3>1. /\ next # y /\ receipts[next] \in Receipt /\ receipts[y] \in Receipt
          /\ receipts[next].phase \in {"waiting", "resumed"} /\ receipts[next] # None
      BY <1>1, <1>2, <1>3, <2>2 DEF CanResume, Phase
    <3>2. /\ receipts'[y] = [receipts[y] EXCEPT !.phase = "ok"]
          /\ receipts'[next] = [receipts[next] EXCEPT !.phase = "resumed"]
          /\ \A z \in YieldIds : z # y /\ z # next => receipts'[z] = receipts[z]
          /\ \A z \in YieldIds : z # next => run_of'[z] = run_of[z]
      BY <1>3, <2>2, <3>1
    <3>3. receipts'[y].phase = "ok" /\ receipts'[next].phase = "resumed"
      BY <3>1, <3>2 DEF Receipt
    <3>4. Phase(next) # "resolve_ok"
      BY <3>1 DEF Phase
    <3>5. Phase(next)' # "resolve_ok" /\ Phase(y)' # "resolve_ok"
      BY <3>3, AnswerDue
    <3>6. \A z \in YieldIds : z # y /\ z # next =>
            (Phase(z)' = "resolve_ok" <=> Phase(z) = "resolve_ok")
      BY <3>2 DEF Phase
    <3> QED  BY ONLY <3>2, <3>4, <3>5, <3>6
  <2> QED  BY <1>4, <2>1, <2>2
<1>6. \A z \in YieldIds : Phase(z)' = "resolve_ok" => run_of'[z] = run_of[z]
  BY <1>5
<1>7. ASSUME NEW r \in Runs \ shared
      PROVE  answers'[r] + InBetween(r)' = answers[r] + InBetween(r)
  <2>1. CASE r = own
    <3>1. Unanswered(r)
      BY <1>1, <2>1 DEF Unanswered
    <3>2. ~Unanswered(r)'
      <4> SUFFICES ASSUME NEW z \in YieldIds, Phase(z)' = "resolve_ok", run_of'[z] = r
                   PROVE  FALSE
        BY DEF Unanswered
      <4>1. z # y /\ Phase(z) = "resolve_ok" /\ run_of[z] = r
        BY <1>5
      <4>2. Released(z)
        BY <4>1 DEF Released, ReleasedPhases
      <4> QED  BY <1>1, <2>1, <4>1, <4>2, OneStepPerRun
    <3>3. answers'[r] = answers[r] + 1 /\ answers[r] \in Nat
      BY <1>1, <1>2, <2>1
    <3> QED  BY <3>1, <3>2, <3>3 DEF InBetween
  <2>2. CASE r # own
    <3>1. Unanswered(r)' <=> Unanswered(r)
      BY <1>5, <1>6, <2>2 DEF Unanswered
    <3>2. answers'[r] = answers[r]
      BY <1>1, <1>2, <2>2
    <3> QED  BY <3>1, <3>2 DEF InBetween
  <2> QED  BY <2>1, <2>2
<1> QED  BY <1>1, <1>7, NothingRecorded

LEMMA InitHoldsEntries == Init => EntriesRight
<1> SUFFICES ASSUME Init PROVE EntriesRight
  OBVIOUS
<1>1. entries = <<>> /\ Len(entries) = 0 /\ DOMAIN entries = {}
  BY DEF Init
<1>2. \A r : ~Unanswered(r)
  BY AnswerDue DEF Init, Unanswered
<1> SUFFICES ASSUME NEW r \in Runs PROVE Recorded(r, 0) = 0
  BY <1>1, <1>2 DEF Init, EntriesRight, InBetween
<1>3. {i \in 1..0 : entries[i].run = r} = {}
  OBVIOUS
<1> QED  BY <1>3, FS_EmptySet DEF Recorded

LEMMA EntryKeepsEntries ==
  ASSUME Inv, EntriesRight, Entry
  PROVE  EntriesRight'
<1>1. ASSUME NEW c \in Callers, NEW id \in StepIds, register_step(c, id)
      PROVE  EntriesRight'
  <2>1. <<id>> \in Seq(StepIds) /\ IsInjective(<<id>>)
    BY DEF IsInjective
  <2>2. \A y \in YieldIds : \/ receipts'[y] = receipts[y]
                             \/ /\ receipts[y] = None /\ receipts'[y] # None
                                /\ receipts'[y].phase = "waiting"
    <3>1. CanRegister(c, <<id>>) /\ receipts' = Yielded(c, <<id>>)
      BY <1>1 DEF register_step
    <3>2. \A y \in YieldIds : \/ Yielded(c, <<id>>)[y] = receipts[y]
                               \/ /\ receipts[y] = None /\ Yielded(c, <<id>>)[y] # None
                                  /\ Yielded(c, <<id>>)[y].phase = "waiting"
      BY <2>1, <3>1, RegisterKeepsSound DEF Inv
    <3> QED  BY <3>1, <3>2
  <2>3. UNCHANGED <<entries, run_of, order, answers, shared>>
    BY <1>1 DEF register_step, runVars
  <2>4. \A y \in YieldIds : Phase(y)' = "resolve_ok" <=> Phase(y) = "resolve_ok"
    BY <2>2, AnswerDue
  <2>5. \A r : InBetween(r)' = InBetween(r)
    BY <2>3, <2>4 DEF Unanswered, InBetween
  <2> QED  BY <2>3, <2>5, NothingRecorded
<1>2. ASSUME NEW c \in Callers, NEW plan \in Orders, execute_steps(c, plan)
      PROVE  EntriesRight'
  <2>1. /\ Sound(Registered(c, plan), Yielded(c, plan), next_yield')
        /\ \A y \in YieldIds : \/ Yielded(c, plan)[y] = receipts[y]
                               \/ /\ receipts[y] = None /\ Yielded(c, plan)[y] # None
                                  /\ Yielded(c, plan)[y].phase = "waiting"
    BY <1>2, RegisterKeepsSound, SimpleInputs DEF Inv, execute_steps
  <2>2. start_sequence_release_for_caller(c, plan, Registered(c, plan), Yielded(c, plan))
    BY <1>2 DEF execute_steps
  <2> QED  BY <2>1, <2>2, StartKeepsEntries
<1>3. ASSUME NEW c \in Callers, NEW ids \in Orders, run_sequence(c, ids)
      PROVE  EntriesRight'
  <2>1. Sound(registered_steps, receipts, next_yield)
    BY DEF Inv
  <2>2. start_sequence_release_for_caller(c, ids, registered_steps, receipts)
    BY <1>3 DEF run_sequence
  <2> QED  BY <2>1, <2>2, StartKeepsEntries
<1> QED  BY <1>1, <1>2, <1>3 DEF Entry

LEMMA DeliverKeepsEntries ==
  ASSUME Inv, EntriesRight, NEW y \in YieldIds, Deliver(y)
  PROVE  EntriesRight'
<1>1. CASE WakesUpLate(y)
  BY <1>1, LiveTypes, SimpleNone DEF WakesUpLate, LivePhases, ReleasedPhases, YieldIds
<1>2. CASE on_step_resumed_ok(y)
  <2>1. /\ Phase(y) \in LivePhases /\ Phase(y) # "resolve_ok"
        /\ UNCHANGED <<entries, run_of, order, answers, shared>>
        /\ MoveTo(y, "target") \/ MoveTo(y, "aborted")
    BY <1>2 DEF on_step_resumed_ok, LivePhases, ReleasedPhases
  <2>2. {"target", "aborted"} \subseteq Phases \ {"resolve_ok"}
    BY DEF Phases, LivePhases, ReleasedPhases
  <2> QED  BY <2>1, <2>2, MoveKeepsEntries
<1>3. CASE on_step_resumed_err(y) \/ on_step_resolved_err(y)
  <2>1. /\ Phase(y) \in LivePhases /\ Phase(y) # "resolve_ok"
        /\ UNCHANGED <<entries, run_of, order, answers, shared>>
        /\ MoveTo(y, "halted") \/ MoveTo(y, "err")
    BY <1>3 DEF on_step_resumed_err, on_step_resolved_err, runVars, LivePhases, ReleasedPhases
  <2>2. {"halted", "err"} \subseteq Phases \ {"resolve_ok"}
    BY DEF Phases
  <2> QED  BY <2>1, <2>2, MoveKeepsEntries
<1>4. CASE TargetRuns(y, TRUE)
  BY <1>4, RecordKeepsEntries
<1>5. CASE TargetRuns(y, FALSE)
  <2>1. /\ Phase(y) \in LivePhases /\ Phase(y) # "resolve_ok"
        /\ UNCHANGED <<entries, run_of, order, answers, shared>>
        /\ MoveTo(y, "resolve_err")
    BY <1>5 DEF TargetRuns, runVars, LivePhases, ReleasedPhases
  <2>2. "resolve_err" \in Phases \ {"resolve_ok"}
    BY DEF Phases, LivePhases, ReleasedPhases
  <2> QED  BY <2>1, <2>2, MoveKeepsEntries
<1>6. CASE on_step_resolved_ok(y)
  BY <1>6, ResolvedKeepsEntries
<1> QED  BY <1>1, <1>2, <1>3, <1>4, <1>5, <1>6 DEF Deliver

LEMMA NextKeepsEntries == Inv /\ EntriesRight /\ [Next]_simpleVars => EntriesRight'
<1> SUFFICES ASSUME Inv, EntriesRight, [Next]_simpleVars
             PROVE  EntriesRight'
  OBVIOUS
<1>1. CASE UNCHANGED simpleVars
  <2>1. UNCHANGED <<entries, receipts, run_of, order, answers, shared>>
    BY <1>1 DEF simpleVars, runtimeVars, runVars
  <2>2. \A r : InBetween(r)' = InBetween(r)
    BY <2>1 DEF InBetween, Unanswered, Phase
  <2> QED  BY <2>1, <2>2, NothingRecorded
<1> QED  BY <1>1, EntryKeepsEntries, DeliverKeepsEntries DEF Next

----------------------------------------------------------------------------
(* The theorems.                                                           *)

LEMMA InitHoldsInv == Init => Inv /\ Promise!Init
<1> SUFFICES ASSUME Init PROVE Inv /\ Promise!Init
  OBVIOUS
<1>1. TypeOK
  <2>1. <<>> \in Seq(StepIds) /\ <<>> \in Seq(RecordEntry)
    OBVIOUS
  <2> QED  BY <2>1, SimpleBounds DEF Init, TypeOK
<1>2. Sound(registered_steps, receipts, next_yield)
  BY <1>1 DEF Init, TypeOK, Sound
<1>3. \A y \in YieldIds : ~Released(y)
  BY SimpleNone DEF Init, Released, Phase, Phases, LivePhases
<1>4. Begun
  BY DEF Init, Begun
<1>5. ReleasedByRun /\ OneReleased /\ Progressing
  BY <1>3 DEF ReleasedByRun, OneReleased, Progressing
<1>6. Promise!Init
  BY DEF Init, Promise!Init
<1> QED  BY <1>1, <1>2, <1>4, <1>5, <1>6 DEF Inv, RunsInv

LEMMA NextKeepsInv == Inv /\ [Next]_simpleVars => Inv' /\ [Promise!Next]_Promise!orderedVars
<1> SUFFICES ASSUME Inv, [Next]_simpleVars
             PROVE  Inv' /\ [Promise!Next]_Promise!orderedVars
  OBVIOUS
<1>1. CASE Entry
  BY <1>1, EntryKeepsInv
<1>2. CASE \E y \in YieldIds : Deliver(y)
  BY <1>2, DeliverKeepsInv
<1>3. CASE UNCHANGED simpleVars
  <2>1. UNCHANGED <<registered_steps, sequence_queue, entries, receipts, next_yield, runs,
                    current, run_of, order, calls, answers, shared>>
    BY <1>3 DEF simpleVars, runtimeVars, runVars
  <2>2. TypeOK' /\ Sound(registered_steps, receipts, next_yield)'
    BY <2>1 DEF Inv, TypeOK
  <2>3. RunsInv'
    BY <2>1 DEF Inv, RunsInv, Begun, ReleasedByRun, OneReleased, Progressing, Released, Phase
  <2> QED  BY <2>1, <2>2, <2>3 DEF Inv, Promise!orderedVars
<1> QED  BY <1>1, <1>2, <1>3 DEF Next

\* Every variable of the simple sequencer keeps its type.
THEOREM SimpleTypeCorrect == Spec => []TypeOK
<1>1. Init => Inv
  BY InitHoldsInv
<1>2. Inv /\ [Next]_simpleVars => Inv'
  BY NextKeepsInv
<1>3. Inv => TypeOK
  BY DEF Inv
<1> QED  BY <1>1, <1>2, <1>3, PTL DEF Spec

\* on_step_resumed and on_step_resolved find the step their yield was created for,
\* so the branch of on_step_resumed for a missing registration is never taken.
THEOREM SimpleCallbackSafe == Spec => []CallbackFindsOwnStep
<1>1. Init => Inv
  BY InitHoldsInv
<1>2. Inv /\ [Next]_simpleVars => Inv'
  BY NextKeepsInv
<1>3. Inv => CallbackFindsOwnStep
  BY LiveTypes DEF CallbackFindsOwnStep, Live
<1> QED  BY <1>1, <1>2, <1>3, PTL DEF Spec

\* The sequencer implements OrderedRun: a run that meets no other run of its caller
\* calls its targets one at a time, in the order given, each after a success.
THEOREM SimplePromiseKept == Spec => KeepsPromise
<1>1. Init => Inv /\ Promise!Init
  BY InitHoldsInv
<1>2. Inv /\ [Next]_simpleVars => Inv' /\ [Promise!Next]_Promise!orderedVars
  BY NextKeepsInv
<1> QED  BY <1>1, <1>2, PTL DEF Spec, KeepsPromise, Promise!Spec

\* What the recorder has of a run that meets no other run of its caller is the
\* beginning of the order given, with at most one entry that is not answered yet.
THEOREM RecordedSafe == Spec => []RecordedInOrder
<1>1. Init => Inv /\ EntriesRight
  BY InitHoldsInv, InitHoldsEntries
<1>2. Inv /\ EntriesRight /\ [Next]_simpleVars => Inv' /\ EntriesRight'
  BY NextKeepsInv, NextKeepsEntries
<1>3. Inv /\ EntriesRight => RecordedInOrder
  <2> SUFFICES ASSUME Inv, EntriesRight, NEW r \in Runs \ shared
               PROVE  /\ Recorded(r, Len(entries)) \in {answers[r], answers[r] + 1}
                      /\ \A i \in DOMAIN entries : entries[i].run = r =>
                           /\ Recorded(r, i) <= Len(order[r])
                           /\ entries[i].step_id = order[r][Recorded(r, i)]
    BY DEF RecordedInOrder
  <2>1. answers[r] \in Nat
    BY DEF Inv, TypeOK
  <2>2. /\ Recorded(r, Len(entries)) = answers[r] + InBetween(r)
        /\ \A i \in DOMAIN entries : entries[i].run = r =>
             Recorded(r, i) <= Len(order[r]) /\ entries[i].step_id = order[r][Recorded(r, i)]
    BY DEF EntriesRight
  <2> QED  BY <2>1, <2>2 DEF InBetween
<1> QED  BY <1>1, <1>2, <1>3, PTL DEF Spec
=============================================================================
