----------------------------- MODULE Authorizer ----------------------------
(***************************************************************************)
(* contracts/authorizer on the root account: the allowlist its owner keeps *)
(* and the dispatch hop.  A smart account in extension mode sends each     *)
(* target call through dispatch, with the step's deposit attached; the     *)
(* authorizer forwards it under the root's name, and the answer of the     *)
(* target is the answer of dispatch.                                       *)
(***************************************************************************)
EXTENDS Integers, Sequences, Functions

CONSTANTS
  Root,          \* the account the authorizer lives on
  Others,        \* accounts of extensions and other callers
  Deposits,      \* deposits a caller may attach
  DispatchGas,   \* values of gas_tgas
  Funds,         \* what every account holds at first
  MaxDispatches  \* bound on the calls of dispatch

ASSUME FundsAssumption ==
  /\ Root \notin Others /\ "target" \notin Others \union {Root}
  /\ Deposits \subseteq Nat /\ DispatchGas \subseteq Nat
  /\ Funds \in Nat /\ MaxDispatches \in Nat

Accounts == Others \union {Root}
Parties == Accounts \union {"target"}

\* A call of dispatch: who sent it, who signed the transaction it descends from,
\* and how far it is: "sent", "forwarded", then its answer.
Dispatch == [from: Others, signer: Accounts, deposit: Deposits, gas: DispatchGas,
             at: {"sent", "forwarded", "ok", "failed", "refused"}]

VARIABLES
  owner_id,   \* who curates the allowlist
  extensions, \* the armed extensions
  dispatches, \* runtime: the calls of dispatch so far
  balances    \* runtime: the balance of each party

authorizerVars == <<owner_id, extensions, dispatches, balances>>

AuthorizerTypeOK ==
  /\ owner_id \in Accounts
  /\ extensions \subseteq Others
  /\ dispatches \in Seq(Dispatch)
  /\ balances \in [Parties -> Int]

AuthorizerInit ==
  /\ owner_id \in Accounts
  /\ extensions = {}
  /\ dispatches = <<>>
  /\ balances = [p \in Parties |-> Funds]

----------------------------------------------------------------------------
(* The owner.                                                              *)

set_owner(who, new_owner) ==
  /\ who = owner_id
  /\ owner_id' = new_owner
  /\ UNCHANGED <<extensions, dispatches, balances>>

add_extension(who, account) ==
  /\ who = owner_id
  /\ extensions' = extensions \union {account}
  /\ UNCHANGED <<owner_id, dispatches, balances>>

remove_extension(who, account) ==
  /\ who = owner_id
  /\ extensions' = extensions \ {account}
  /\ UNCHANGED <<owner_id, dispatches, balances>>

----------------------------------------------------------------------------
(* The hop.                                                                *)

\* build_call_promise with an authorizer, or any other contract that calls
\* dispatch: the deposit leaves the caller with the call.
Send(from, signer, deposit, gas) ==
  /\ Len(dispatches) < MaxDispatches
  /\ deposit <= balances[from]
  /\ dispatches' = Append(dispatches, [from |-> from, signer |-> signer,
                                       deposit |-> deposit, gas |-> gas, at |-> "sent"])
  /\ balances' = [balances EXCEPT ![from] = @ - deposit]
  /\ UNCHANGED <<owner_id, extensions>>

Move(i, place) == dispatches' = [dispatches EXCEPT ![i].at = place]

\* assert_extension_acting_as_self.
ActingAsSelf(d) == d.signer = Root /\ d.from \in extensions

Bad_dispatch_pays_itself(i) ==
  LET d == dispatches[i]
  IN
  /\ d.at = "sent"
  /\ IF ActingAsSelf(d) /\ d.gas > 0
     THEN Move(i, "forwarded") /\ balances' = [balances EXCEPT ![Root] = @ - d.deposit]
     ELSE Move(i, "refused") /\ balances' = [balances EXCEPT ![d.from] = @ + d.deposit]
  /\ UNCHANGED <<owner_id, extensions>>

\* dispatch runs.  A panic refunds the deposit to the caller.
dispatch(i) ==
  LET d == dispatches[i]
  IN
  /\ d.at = "sent"
  /\ IF ActingAsSelf(d) /\ d.gas > 0
     THEN Move(i, "forwarded") /\ UNCHANGED balances
     ELSE Move(i, "refused") /\ balances' = [balances EXCEPT ![d.from] = @ + d.deposit]
  /\ UNCHANGED <<owner_id, extensions>>

\* The target runs.  The deposit of a call that fails goes back to the account that
\* sent it, which is the root, not the smart account that paid it.
TargetReturns(i, ok) ==
  LET d == dispatches[i]
  IN
  /\ d.at = "forwarded"
  /\ Move(i, IF ok THEN "ok" ELSE "failed")
  /\ balances' = [balances EXCEPT ![IF ok THEN "target" ELSE Root] = @ + d.deposit]
  /\ UNCHANGED <<owner_id, extensions>>

AuthorizerNext ==
  \/ \E who, new_owner \in Accounts : set_owner(who, new_owner)
  \/ \E who \in Accounts, account \in Others :
       add_extension(who, account) \/ remove_extension(who, account)
  \/ \E from \in Others, signer \in Accounts, deposit \in Deposits, gas \in DispatchGas :
       Send(from, signer, deposit, gas)
  \/ \E i \in DOMAIN dispatches :
       dispatch(i) \/ (\E ok \in BOOLEAN : TargetReturns(i, ok))

AuthorizerSpec == AuthorizerInit /\ [][AuthorizerNext]_authorizerVars

----------------------------------------------------------------------------
(* Properties.                                                             *)

\* The calls that are at one of the places, and the deposits of some calls together.
CallsAt(places) == {i \in DOMAIN dispatches : dispatches[i].at \in places}
PaidBy(account) ==
  {i \in CallsAt({"sent", "forwarded", "ok", "failed"}) : dispatches[i].from = account}
DepositsOf(some) == SumFunctionOnSet([i \in DOMAIN dispatches |-> dispatches[i].deposit], some)

\* The hop spends nothing of the root's: whatever is armed, disarmed, refused and
\* in flight, the target holds the deposits of the calls that succeeded, the root
\* has gained those of the calls that failed behind it, and every caller has paid
\* for all its calls but the refused ones.
RootOnlyPassesThrough ==
  /\ balances["target"] = Funds + DepositsOf(CallsAt({"ok"}))
  /\ balances[Root] = Funds + DepositsOf(CallsAt({"failed"}))
  /\ \A account \in Others : balances[account] = Funds - DepositsOf(PaidBy(account))
=============================================================================
