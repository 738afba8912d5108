------------------------- MODULE MCSimpleSequencer -------------------------
(***************************************************************************)
(* A small instance of SimpleSequencer: one caller, so that its runs meet. *)
(***************************************************************************)
EXTENDS SimpleSequencer

CONSTANTS alice, s1, s2, s3

SomeOrders == {<<s1, s2>>, <<s2, s3>>, <<s3, s3>>, <<s2, s1, s3>>}
=============================================================================
