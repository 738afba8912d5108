---------------------------- MODULE MCSequencer ----------------------------
(***************************************************************************)
(* Small instances of the manual sequencer: two accounts, no triggers.     *)
(* Each group of definitions gives the steps, plans and orders of a run.   *)
(***************************************************************************)
EXTENDS Sequencer

CONSTANTS alice, bob, a, b, c, x

step(id, gated, policy, save, uses, deposit) ==
  [id |-> id, gated |-> gated, policy |-> policy, save |-> save, uses |-> uses,
   deposit |-> deposit]

\* a saves x, b reads it, c is gated: no callback of these steps can panic.
SaveX == step(a, FALSE, "direct", x, None, 0)
ReadX == step(b, FALSE, "direct", None, x, 0)
Gated == step(c, TRUE, "direct", None, None, 0)

SoundSteps == {SaveX, ReadX, Gated}
SoundPlans == {<<SaveX, ReadX>>, <<Gated>>}
SoundOrders == {<<a, b>>, <<b, a>>, <<c>>, <<b, b>>}

\* The same ids where a attaches a deposit and b, Asserted, reads what a saved:
\* their callbacks panic when the balance or the gas of a gate is short.
PaidA == step(a, FALSE, "direct", x, None, 1)
ReadB == step(b, FALSE, "asserted", None, x, 0)
PaidSteps == {PaidA, ReadB, Gated}
PaidPlans == {<<PaidA, ReadB>>, <<Gated>>}
PaidOrders == {<<a, b>>, <<b, a>>, <<c>>, <<b, b>>}
=============================================================================
