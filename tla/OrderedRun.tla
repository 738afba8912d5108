----------------------------- MODULE OrderedRun ----------------------------
(***************************************************************************)
(* What an ordered release promises the caller of a run, and no more: the  *)
(* targets of the run are called one at a time, in the order given, each   *)
(* only after the call before it has been answered with success.  How the  *)
(* steps are kept, released, timed out or given up is not said.  A run that*)
(* shares its namespace with another one is promised nothing.              *)
(***************************************************************************)
EXTENDS Naturals, Sequences

CONSTANTS Runs, StepIds

VARIABLES
  order,   \* per run: the step ids in the order given; <<>>: not begun
  calls,   \* per run: the steps whose target has been called, in that order
  answers, \* per run: how many of the calls have been answered with success
  shared   \* the runs to which nothing is promised

orderedVars == <<order, calls, answers, shared>>

Init ==
  /\ order = [r \in Runs |-> <<>>]
  /\ calls = [r \in Runs |-> <<>>]
  /\ answers = [r \in Runs |-> 0]
  /\ shared = {}

Stays(r) == order'[r] = order[r] /\ calls'[r] = calls[r] /\ answers'[r] = answers[r]

Begin(r) ==
  /\ order[r] = <<>>
  /\ order'[r] \in Seq(StepIds)
  /\ calls'[r] = calls[r] /\ answers'[r] = answers[r]

Call(r) ==
  /\ answers[r] = Len(calls[r])
  /\ Len(calls[r]) < Len(order[r])
  /\ calls'[r] = Append(calls[r], order[r][Len(calls[r]) + 1])
  /\ order'[r] = order[r] /\ answers'[r] = answers[r]

Answer(r) ==
  /\ answers[r] < Len(calls[r])
  /\ answers'[r] = answers[r] + 1
  /\ order'[r] = order[r] /\ calls'[r] = calls[r]

Next ==
  /\ shared \subseteq shared'
  /\ \A r \in Runs \ shared' : Stays(r) \/ Begin(r) \/ Call(r) \/ Answer(r)

Spec == Init /\ [][Next]_orderedVars
=============================================================================
