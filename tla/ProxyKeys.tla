----------------------------- MODULE ProxyKeys -----------------------------
(***************************************************************************)
(* Proxy keys of contracts/smart-account, next to its session keys: grants *)
(* whose access keys may call proxy_call only, and the deposits those      *)
(* calls take from the account.  Both kinds of grants share the accounts   *)
(* their keys live on, and a public key names at most one access key       *)
(* there.  Also here: migrate(), which a redeploy over an older state      *)
(* layout needs before any other method runs.                              *)
(***************************************************************************)
EXTENDS SessionKeys, Integers

CONSTANTS
  Targets,     \* accounts a proxy key may be let loose on
  MethodNames, \* methods of those
  MaxToll,     \* bound on attach_yocto
  MaxCalls,    \* bound on max_call_count, u32::MAX in the code
  MaxPurse,    \* bound on what the enrolments of one key still allow it to take
  Layouts,     \* the state layouts a deployment may find: "v4", "v5", "current"
  SessionOffers, \* arguments of enroll_session, as SessionGrants
  ProxyOffers    \* arguments of enroll_proxy_key, as ProxyGrants

ASSUME ProxyBounds == MaxToll \in Nat /\ MaxCalls \in Nat /\ MaxPurse \in Nat
ASSUME LayoutsAssumption == Layouts \subseteq {"v4", "v5", "current"}

\* methods = None permits every method.
ProxyGrant == [expires_at: 1..MaxTime, targets: SUBSET Targets \ {{}},
               methods: (SUBSET MethodNames \ {{}}) \union {None},
               toll: 0..MaxToll, max_call: 1..MaxCalls, calls: 0..MaxCalls]

ASSUME KeysAssumption ==
  /\ IsFiniteSet(PublicKeys)
  /\ MaxTime > 0 /\ MaxFires > 0
  /\ None \notin SessionGrant /\ None \notin ProxyGrant /\ None \notin Methods \union {"delete"}

ASSUME OffersAssumption ==
  /\ SessionOffers \subseteq {g \in SessionGrant : g.fires = 0}
  /\ ProxyOffers \subseteq {g \in ProxyGrant : g.calls = 0}

VARIABLES
  proxy_grants, \* PublicKeys -> ProxyGrant, or None
  layout,       \* the layout of the state in storage
  purse,        \* history: the most the enrolments of a key allow it to take from the
                \* balance by proxy_call, less what it has taken
  uses          \* history: the methods a public key was enrolled for

proxyVars == <<proxy_grants, layout, purse, uses>>
vars == <<sessionVars, proxyVars>>

ProxyTypeOK ==
  /\ TypeOK
  /\ proxy_grants \in [PublicKeys -> ProxyGrant \union {None}]
  /\ layout \in {"v4", "v5", "current"}
  /\ purse \in [PublicKeys -> Int]
  /\ uses \in [PublicKeys -> SUBSET Methods]

\* A fresh deployment, or one over a state of an older layout, whose sessions have
\* their keys on the account that the older contract minted them on.
LegacyGrant == [expires_at |-> MaxTime, allowed |-> None, max_fire |-> MaxFires, fires |-> 0]

ProxyInit ==
  /\ layout \in Layouts
  /\ authorizer_id \in IF layout = "v4" THEN {"self"} ELSE AuthorizerModes
  /\ \E old \in IF layout = "current" THEN {{}} ELSE SUBSET PublicKeys :
       /\ session_grants = [pk \in PublicKeys |-> IF pk \in old THEN LegacyGrant ELSE None]
       /\ access_keys = [h \in Holders |-> [pk \in PublicKeys |->
            IF pk \in old /\ h = authorizer_id THEN "execute_trigger" ELSE None]]
       /\ uses = [pk \in PublicKeys |-> IF pk \in old THEN {"execute_trigger"} ELSE {}]
  /\ armed = TRUE
  /\ key_receipts = [h \in Holders |-> <<>>]
  /\ now = 0
  /\ refused = {}
  /\ moved = FALSE
  /\ proxy_grants = [pk \in PublicKeys |-> None]
  /\ purse = [pk \in PublicKeys |-> 0]

----------------------------------------------------------------------------
(* Proxy keys.                                                             *)

\* Frame of the proxy methods: they send key receipts and change proxy state.
UNCHANGED_BUT_PROXY ==
  UNCHANGED <<session_grants, authorizer_id, armed, access_keys, now, refused, moved,
              layout>>

\* Owner-only.  An enrolment replaces the grant of the key and counts from zero.
enroll_proxy_key(pk, grant, sane) ==
  /\ grant.expires_at > now
  /\ authorizer_id = "self" => sane
  /\ purse[pk] + grant.toll * grant.max_call <= MaxPurse
  /\ proxy_grants' = [proxy_grants EXCEPT ![pk] = grant]
  /\ purse' = [purse EXCEPT ![pk] = @ + grant.toll * grant.max_call]
  /\ uses' = [uses EXCEPT ![pk] = @ \union {"proxy_call"}]
  /\ Send(<<[op |-> "proxy_call", pk |-> pk, proper |-> sane]>>)
  /\ UNCHANGED_BUT_PROXY

InScope(grant, target, method) ==
  /\ target \in grant.targets
  /\ grant.methods # None => method \in grant.methods

Bad_proxy_call_last_call_again(pk, target, method) ==
  /\ proxy_grants[pk] # None
  /\ now <= proxy_grants[pk].expires_at
  /\ proxy_grants[pk].calls <= proxy_grants[pk].max_call
  /\ InScope(proxy_grants[pk], target, method)
  /\ \E h \in Holders : access_keys[h][pk] = "proxy_call"
  /\ proxy_grants' = [proxy_grants EXCEPT ![pk].calls = @ + 1]
  /\ purse' = [purse EXCEPT ![pk] = @ - proxy_grants[pk].toll]
  /\ UNCHANGED <<key_receipts, uses>>
  /\ UNCHANGED_BUT_PROXY

\* Signed by the key pk.  The call goes to the target from this account, in either
\* mode, and the toll is paid from its balance, whatever becomes of the call.
proxy_call(pk, target, method) ==
  /\ proxy_grants[pk] # None
  /\ now <= proxy_grants[pk].expires_at
  /\ proxy_grants[pk].calls < proxy_grants[pk].max_call
  /\ InScope(proxy_grants[pk], target, method)
  /\ \E h \in Holders : access_keys[h][pk] = "proxy_call"
  /\ proxy_grants' = [proxy_grants EXCEPT ![pk].calls = @ + 1]
  /\ purse' = [purse EXCEPT ![pk] = @ - proxy_grants[pk].toll]
  /\ UNCHANGED <<key_receipts, uses>>
  /\ UNCHANGED_BUT_PROXY

\* Owner-only.
revoke_proxy_key(pk) ==
  /\ proxy_grants[pk] # None
  /\ proxy_grants' = [proxy_grants EXCEPT ![pk] = None]
  /\ Send(<<[op |-> "delete", pk |-> pk, proper |-> TRUE]>>)
  /\ UNCHANGED <<purse, uses>>
  /\ UNCHANGED_BUT_PROXY

SpentProxies ==
  {pk \in PublicKeys : /\ proxy_grants[pk] # None
                       /\ \/ proxy_grants[pk].expires_at <= now
                          \/ proxy_grants[pk].calls >= proxy_grants[pk].max_call}

\* Anyone may call this; by_root tells whether the root signed.
revoke_expired_proxy_keys(by_root) ==
  /\ SpentProxies # {}
  /\ proxy_grants' = [pk \in PublicKeys |->
                        IF pk \in SpentProxies THEN None ELSE proxy_grants[pk]]
  /\ LET pks == SetToSeq(SpentProxies)
     IN  Send([i \in DOMAIN pks |-> [op |-> "delete", pk |-> pks[i], proper |-> by_root]])
  /\ UNCHANGED <<purse, uses>>
  /\ UNCHANGED_BUT_PROXY

----------------------------------------------------------------------------
(* The rest of the contract.                                               *)

\* enroll_session of SessionKeys, with the use it puts the key to recorded.
enroll_session_key(pk, offer, sane) ==
  /\ enroll_session(pk, offer.expires_at, offer.allowed, offer.max_fire, sane)
  /\ uses' = [uses EXCEPT ![pk] = @ \union {"execute_trigger"}]
  /\ UNCHANGED <<proxy_grants, layout, purse>>

\* The session branch of a call of execute_trigger that succeeds.
fire_session(pk, trigger) ==
  /\ session_grants[pk] # None
  /\ MayFire(pk, trigger)
  /\ \E h \in Holders : access_keys[h][pk] = "execute_trigger"
  /\ BumpFireCount(pk)
  /\ UNCHANGED <<authorizer_id, armed, access_keys, key_receipts, now, refused, moved,
                 proxyVars>>

Bad_migrate_starts_anew ==
  /\ layout' = "current"
  /\ session_grants' = [pk \in PublicKeys |-> None]
  /\ proxy_grants' = IF layout = "current" THEN proxy_grants
                     ELSE [pk \in PublicKeys |-> None]
  /\ authorizer_id' = IF layout = "v4" THEN "self" ELSE authorizer_id
  /\ UNCHANGED <<armed, access_keys, key_receipts, now, refused, moved, purse, uses>>

\* What an older layout lacks gets its default; everything else is kept.
migrate ==
  /\ layout' = "current"
  /\ authorizer_id' = IF layout = "v4" THEN "self" ELSE authorizer_id
  /\ proxy_grants' = IF layout = "current" THEN proxy_grants
                     ELSE [pk \in PublicKeys |-> None]
  /\ UNCHANGED <<session_grants, armed, access_keys, key_receipts, now, refused, moved,
                 purse, uses>>

ProxyNext ==
  \/ \E pk \in PublicKeys, grant \in ProxyOffers, sane \in BOOLEAN :
       enroll_proxy_key(pk, grant, sane)
  \/ \E pk \in PublicKeys, target \in Targets, method \in MethodNames :
       proxy_call(pk, target, method)
  \/ \E pk \in PublicKeys : revoke_proxy_key(pk)
  \/ \E by_root \in Signers : revoke_expired_proxy_keys(by_root)

SessionNext ==
  \/ \E pk \in PublicKeys, offer \in SessionOffers, sane \in BOOLEAN :
       enroll_session_key(pk, offer, sane)
  \/ \E pk \in PublicKeys, trigger \in Triggers : fire_session(pk, trigger)
  \/ \E pk \in PublicKeys : revoke_session(pk) /\ UNCHANGED proxyVars
  \/ \E by_root \in Signers : revoke_expired_sessions(by_root) /\ UNCHANGED proxyVars
  \/ \E mode \in AuthorizerModes : set_authorizer(mode) /\ UNCHANGED proxyVars

\* A method finds a state it can read; until migrate ran, only receipts run.
KeysNext ==
  \/ layout = "current" /\ (SessionNext \/ ProxyNext)
  \/ migrate
  \/ (AuthorizerNext \/ RuntimeNext) /\ UNCHANGED proxyVars

Spec == ProxyInit /\ [][KeysNext]_vars

----------------------------------------------------------------------------
(* Properties.                                                             *)

\* The keys a grant is kept for, by what they may call.
GrantedFor(method) ==
  {pk \in PublicKeys : IF method = "execute_trigger" THEN session_grants[pk] # None
                       ELSE proxy_grants[pk] # None}

Settled == \A h \in Holders : key_receipts[h] = <<>>

\* On an account that never left standalone mode grants and keys agree once the
\* runtime has caught up, in whatever order keys of the two kinds are enrolled,
\* enrolled again, used up, revoked and pruned, and across a migration: a key has a
\* grant for the method it is pinned to, and a grant has its key, unless its public
\* key was enrolled for both methods (then the second add_access_key fails).
SettledKeysMatchGrants ==
  layout = "current" /\ authorizer_id = "self" /\ ~moved /\ key_receipts["self"] = <<>>
    => \A pk \in PublicKeys, method \in Methods :
         /\ access_keys["self"][pk] = method => pk \in GrantedFor(method)
         /\ pk \in GrantedFor(method) /\ uses[pk] = {method}
              => access_keys["self"][pk] = method

\* A grant is backed by a key: once no receipt is on its way, every key granted for
\* one method only, of which the authorizer never refused an addition, is on one of
\* the accounts, however enrolments, revocations, set_authorizer and migrate
\* interleave with the receipts.
GrantHasKey ==
  Settled => \A method \in Methods : \A pk \in GrantedFor(method) \ refused :
               uses[pk] = {method} => \E h \in Holders : access_keys[h][pk] = method

\* "The state entry and the AK are removed together": once no receipt is on its
\* way, no account keeps a session key that has no grant.
NoKeyWithoutGrant ==
  Settled => \A h \in Holders, pk \in PublicKeys :
               access_keys[h][pk] = "execute_trigger" => pk \in GrantedFor("execute_trigger")

\* A proxy key takes from the account at most what its enrolments allowed, toll by
\* toll: its call count survives until the grant goes, and a call that is refused
\* for its count, its age or its target takes nothing.
TollsWithinGrants == \A pk \in PublicKeys : purse[pk] >= 0
=============================================================================
