---------------------------- MODULE MCAutomation ---------------------------
(***************************************************************************)
(* Small instances of the smart account with one or two triggers, one      *)
(* template id and no manual runs.                                         *)
(***************************************************************************)
EXTENDS Automation

CONSTANTS alice, bob, a, b, c, x, t1, t2, q, pk1

step(id, gated, policy, save, uses, deposit) ==
  [id |-> id, gated |-> gated, policy |-> policy, save |-> save, uses |-> uses,
   deposit |-> deposit]

SaveX == step(a, FALSE, "direct", x, None, 0)
ReadX == step(b, FALSE, "direct", None, x, 0)
Gated == step(c, TRUE, "direct", None, None, 0)
Asserted == step(c, FALSE, "asserted", None, None, 0)
PlainB == step(b, FALSE, "adapter", None, None, 0)

\* Three steps that thread a saved result, and a plan that reads a name its run
\* never saves.
ThreadSteps == {SaveX, ReadX, Gated}
ThreadPlans == {<<SaveX, Gated, ReadX>>, <<Gated, ReadX>>}

ShortSteps == {PlainB, Asserted}
ShortPlans == {<<PlainB, Asserted>>}

PaidA == step(a, FALSE, "direct", None, None, 1)
DepositSteps == {PaidA, PlainB}
DepositPlans == {<<PaidA>>, <<PlainB, PaidA>>}

\* Two templates that share their step ids; only the first declares a gate.
PlainC == step(c, FALSE, "direct", None, None, 0)
ReuseSteps == {Gated, PlainC, PlainB}
ReusePlans == {<<Gated, PlainB>>, <<PlainC>>}

SingleSteps == {PlainB}
SinglePlans == {<<PlainB>>}
=============================================================================
