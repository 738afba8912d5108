---------------------------- MODULE MCSessionKeys --------------------------
(***************************************************************************)
(* Small instances of the keys of an account: one or two public keys, each *)
(* for either kind of grant.                                               *)
(***************************************************************************)
EXTENDS ProxyKeys

CONSTANTS pk1, pk2, t1, dapp, m1

SessionOffer(expires, allowed) ==
  [expires_at |-> expires, allowed |-> allowed, max_fire |-> 1, fires |-> 0]
ProxyOffer(expires, methods, calls) ==
  [expires_at |-> expires, targets |-> {dapp}, methods |-> methods, toll |-> 1,
   max_call |-> calls, calls |-> 0]

OneOfEach == {SessionOffer(2, {t1})}
OneProxy == {ProxyOffer(2, {m1}, 1)}
=============================================================================
