---------------------------- MODULE SessionKeys ----------------------------
(***************************************************************************)
(* Delegated session keys of contracts/smart-account: the grants the       *)
(* contract keeps, and the function-call access keys it asks the runtime   *)
(* to add and delete.  The two are not written together: a grant changes   *)
(* when enroll_session or a revocation runs, the access key when the       *)
(* receipt that call sent is executed, on this account ("self") or, in     *)
(* extension mode, through the authorizer on the root account ("root").    *)
(* ProxyKeys adds the keys of the second kind and states the properties.   *)
(***************************************************************************)
EXTENDS Naturals, Sequences, SequencesExt

CONSTANTS
  PublicKeys,      \* public keys that sessions are enrolled for
  Triggers,        \* trigger_id values
  MaxTime,         \* bound on the block timestamp
  MaxFires,        \* bound on max_fire_count, u32::MAX in the code
  MaxKeyReceipts,  \* bound on the key receipts in flight per account
  AuthorizerModes, \* values set_authorizer may give: "self", "root"
  None

ASSUME SessionBounds == MaxTime \in Nat /\ MaxFires \in Nat /\ MaxKeyReceipts \in Nat
ASSUME ModesAssumption == AuthorizerModes \subseteq {"self", "root"}

Holders == {"self", "root"}

\* allowed_trigger_ids = None allows every trigger.
SessionGrant == [expires_at: 1..MaxTime, allowed: (SUBSET Triggers) \union {None},
                 max_fire: 1..MaxFires, fires: 0..MaxFires]

\* What a minted key may call.
Methods == {"execute_trigger", "proxy_call"}

\* A receipt that adds an access key for a method, or deletes one.  proper: the
\* allowance is above zero and the transaction it descends from was signed by the
\* root, which is what the authorizer asks of the receipt itself.
KeyReceipt == [op: Methods \union {"delete"}, pk: PublicKeys, proper: BOOLEAN]

VARIABLES
  session_grants, \* PublicKeys -> SessionGrant, or None
  authorizer_id,  \* "self": None in the code; "root": the authorizer's account
  armed,          \* the authorizer lists this contract as an extension
  access_keys,    \* runtime: the method a key on an account may call; None: no key
  key_receipts,   \* runtime: key receipts on their way, in order, per account
  now,            \* block_timestamp_ms
  refused,        \* history: keys an addition of which was refused
  moved           \* history: authorizer_id has changed

sessionVars == <<session_grants, authorizer_id, armed, access_keys, key_receipts, now,
                 refused, moved>>

TypeOK ==
  /\ session_grants \in [PublicKeys -> SessionGrant \union {None}]
  /\ authorizer_id \in Holders
  /\ armed \in BOOLEAN
  /\ access_keys \in [Holders -> [PublicKeys -> Methods \union {None}]]
  /\ key_receipts \in [Holders -> Seq(KeyReceipt)]
  /\ now \in 0..MaxTime
  /\ refused \subseteq PublicKeys
  /\ moved \in BOOLEAN

Init ==
  /\ session_grants = [pk \in PublicKeys |-> None]
  /\ authorizer_id \in AuthorizerModes
  /\ armed = TRUE
  /\ access_keys = [h \in Holders |-> [pk \in PublicKeys |-> None]]
  /\ key_receipts = [h \in Holders |-> <<>>]
  /\ now = 0
  /\ refused = {}
  /\ moved = FALSE

----------------------------------------------------------------------------
(* The contract.                                                           *)

\* build_session_add_key_promise and build_session_delete_key_promise: the
\* receipts go to the account that authorizer_id names at this moment.
Send(ops) ==
  /\ Len(key_receipts[authorizer_id]) + Len(ops) <= MaxKeyReceipts
  /\ key_receipts' = [key_receipts EXCEPT ![authorizer_id] = @ \o ops]

\* Mutants: an operator named Bad_... is another one as a plausible bug would have
\* it.  No action uses them; each property is refuted when one takes its place.
Bad_enroll_relative_expiry(pk, expires, allowed, max_fire, sane) ==
  /\ authorizer_id = "self" => sane
  /\ session_grants' = [session_grants EXCEPT ![pk] =
       [expires_at |-> now + expires, allowed |-> allowed, max_fire |-> max_fire,
        fires |-> 0]]
  /\ Send(<<[op |-> "execute_trigger", pk |-> pk, proper |-> sane]>>)
  /\ UNCHANGED <<authorizer_id, armed, access_keys, now, refused, moved>>

\* Owner-only, signed by a full-access key of the owner, who is the root account
\* in extension mode.  Standalone, an allowance of zero panics here.
enroll_session(pk, expires, allowed, max_fire, sane) ==
  /\ expires > now
  /\ authorizer_id = "self" => sane
  /\ session_grants' = [session_grants EXCEPT ![pk] =
       [expires_at |-> expires, allowed |-> allowed, max_fire |-> max_fire, fires |-> 0]]
  /\ Send(<<[op |-> "execute_trigger", pk |-> pk, proper |-> sane]>>)
  /\ UNCHANGED <<authorizer_id, armed, access_keys, now, refused, moved>>

Bad_revoke_keeps_key(pk) ==
  /\ session_grants[pk] # None
  /\ session_grants' = [session_grants EXCEPT ![pk] = None]
  /\ UNCHANGED <<key_receipts, authorizer_id, armed, access_keys, now, refused, moved>>

\* Owner-only.
revoke_session(pk) ==
  /\ session_grants[pk] # None
  /\ session_grants' = [session_grants EXCEPT ![pk] = None]
  /\ Send(<<[op |-> "delete", pk |-> pk, proper |-> TRUE]>>)
  /\ UNCHANGED <<authorizer_id, armed, access_keys, now, refused, moved>>

Prunable(grant) == grant.expires_at <= now \/ grant.fires >= grant.max_fire
Pruned == {pk \in PublicKeys : session_grants[pk] # None /\ Prunable(session_grants[pk])}

Bad_prune_keeps_grants(by_root) ==
  /\ Pruned # {}
  /\ LET pks == SetToSeq(Pruned)
     IN  Send([i \in DOMAIN pks |-> [op |-> "delete", pk |-> pks[i], proper |-> by_root]])
  /\ UNCHANGED <<session_grants, authorizer_id, armed, access_keys, now, refused, moved>>

\* Anyone may call this; by_root tells whether the root signed, which no one asks
\* unless there is an authorizer.
Signers == IF authorizer_id = "self" THEN {TRUE} ELSE BOOLEAN

revoke_expired_sessions(by_root) ==
  /\ Pruned # {}
  /\ session_grants' = [pk \in PublicKeys |->
                          IF pk \in Pruned THEN None ELSE session_grants[pk]]
  /\ LET pks == SetToSeq(Pruned)
     IN  Send([i \in DOMAIN pks |-> [op |-> "delete", pk |-> pks[i], proper |-> by_root]])
  /\ UNCHANGED <<authorizer_id, armed, access_keys, now, refused, moved>>

\* Owner-only.
set_authorizer(mode) ==
  /\ authorizer_id' = mode
  /\ moved' = (moved \/ mode # authorizer_id)
  /\ UNCHANGED <<session_grants, armed, access_keys, key_receipts, now, refused>>

\* The session branch of execute_trigger, for the signer key pk: what it
\* demands of a grant that exists, and the grant after it.
Bad_Usable_once_more(grant) == now <= grant.expires_at /\ grant.fires <= grant.max_fire
Usable(grant) == now <= grant.expires_at /\ grant.fires < grant.max_fire
Bad_MayFire_any_trigger(pk, trigger) == Usable(session_grants[pk])
MayFire(pk, trigger) ==
  /\ Usable(session_grants[pk])
  /\ session_grants[pk].allowed # None => trigger \in session_grants[pk].allowed
BumpFireCount(pk) ==
  session_grants' = [session_grants EXCEPT ![pk].fires = @ + 1]

----------------------------------------------------------------------------
(* The authorizer and the runtime.                                         *)

\* add_extension, remove_extension on the authorizer, by its owner.
add_extension ==
  /\ armed' = TRUE
  /\ UNCHANGED <<session_grants, authorizer_id, access_keys, key_receipts, now,
                 refused, moved>>
remove_extension ==
  /\ armed' = FALSE
  /\ UNCHANGED <<session_grants, authorizer_id, access_keys, key_receipts, now,
                 refused, moved>>

\* assert_extension_acting_as_self, and the allowance check of add_session_key.
AuthorizerAccepts(r) == armed /\ r.proper

\* The next key receipt of an account runs.  Adding a key that exists, whatever it
\* may call, and deleting one that does not exist fail and change nothing.
KeyAfter(key, op) ==
  IF op = "delete" THEN None ELSE IF key = None THEN op ELSE key

KeyReceiptRuns(holder) ==
  LET r == Head(key_receipts[holder])
      accepted == holder = "self" \/ AuthorizerAccepts(r)
  IN
  /\ key_receipts[holder] # <<>>
  /\ key_receipts' = [key_receipts EXCEPT ![holder] = Tail(@)]
  /\ access_keys' =
       IF accepted
       THEN [access_keys EXCEPT ![holder][r.pk] = KeyAfter(@, r.op)]
       ELSE access_keys
  /\ refused' = IF ~accepted /\ r.op # "delete" THEN refused \union {r.pk} ELSE refused
  /\ UNCHANGED <<session_grants, authorizer_id, armed, now, moved>>

Tick ==
  /\ now < MaxTime
  /\ now' = now + 1
  /\ UNCHANGED <<session_grants, authorizer_id, armed, access_keys, key_receipts,
                 refused, moved>>

ContractNext ==
  \/ \E pk \in PublicKeys, expires \in 1..MaxTime, max_fire \in 1..MaxFires,
        allowed \in (SUBSET Triggers) \union {None}, sane \in BOOLEAN :
       enroll_session(pk, expires, allowed, max_fire, sane)
  \/ \E pk \in PublicKeys : revoke_session(pk)
  \/ \E by_root \in Signers : revoke_expired_sessions(by_root)
  \/ \E mode \in AuthorizerModes : set_authorizer(mode)

AuthorizerNext == "root" \in AuthorizerModes /\ (add_extension \/ remove_extension)

RuntimeNext == (\E holder \in Holders : KeyReceiptRuns(holder)) \/ Tick

Next == ContractNext \/ AuthorizerNext \/ RuntimeNext
=============================================================================
