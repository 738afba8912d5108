--------------------------- MODULE ProxyKeysProofs -------------------------
(***************************************************************************)
(* What a proxy key may take from the account, and that its grant and its  *)
(* key agree, for any number of keys, targets, tolls, calls and receipts.  *)
(*                                                                         *)
(* TollsWithinGrants is not inductive: a key whose purse is empty could    *)
(* still have calls left.  The invariant Purses says that a purse always   *)
(* holds the toll of every call its grant still admits; re-enrolment adds a*)
(* full purse to what is left, revocation and pruning forfeit what the     *)
(* grant still admitted.                                                   *)
(*                                                                         *)
(* The keys of the account and the grants agree only once every AddKey and *)
(* DeleteKey receipt has run.  The invariant Backed is about the keys that *)
(* there will be: those on the account, and those of the queued AddKey     *)
(* receipts, that no DeleteKey receipt behind them takes away.             *)
(***************************************************************************)
EXTENDS ProxyKeys, FiniteSetTheorems, SequenceTheorems, TLAPS

\* The most the present grant of a key still lets it take.
Left(grant) == IF grant = None THEN 0 ELSE grant.toll * (grant.max_call - grant.calls)

Purses ==
  /\ purse \in [PublicKeys -> Int]
  /\ proxy_grants \in [PublicKeys -> ProxyGrant \union {None}]
  /\ \A pk \in PublicKeys :
       /\ proxy_grants[pk] # None => proxy_grants[pk].calls <= proxy_grants[pk].max_call
       /\ purse[pk] >= Left(proxy_grants[pk])

\* The toll of the calls that a grant admits is never negative.
LEMMA LeftIsNat ==
  ASSUME NEW grant \in ProxyGrant \union {None},
         grant # None => grant.calls <= grant.max_call
  PROVE  Left(grant) \in Nat
<1>1. CASE grant = None
  BY <1>1 DEF Left
<1>2. CASE grant # None
  <2>1. /\ grant.toll \in Nat /\ grant.max_call \in Nat /\ grant.calls \in Nat
        /\ grant.calls <= grant.max_call
    BY <1>2, ProxyBounds DEF ProxyGrant
  <2>2. grant.max_call - grant.calls \in Nat
    BY <2>1
  <2>3. \A m, n \in Nat : m * n \in Nat
    OBVIOUS
  <2> QED  BY <1>2, <2>1, <2>2, <2>3 DEF Left
<1> QED  BY <1>1, <1>2

\* One call takes one toll off what is left.
LEMMA LeftAfterCall ==
  ASSUME NEW grant \in ProxyGrant, grant # None, grant.calls < grant.max_call,
         [grant EXCEPT !.calls = @ + 1] # None
  PROVE  /\ [grant EXCEPT !.calls = @ + 1] \in ProxyGrant
         /\ [grant EXCEPT !.calls = @ + 1].calls <= grant.max_call
         /\ Left([grant EXCEPT !.calls = @ + 1]) = Left(grant) - grant.toll
<1> DEFINE after == [grant EXCEPT !.calls = @ + 1]
<1>1. /\ grant.toll \in Nat /\ grant.max_call \in Nat /\ grant.calls \in Nat
      /\ grant.max_call <= MaxCalls /\ MaxCalls \in Nat
  BY ProxyBounds DEF ProxyGrant
<1>2. after \in ProxyGrant /\ after.calls = grant.calls + 1
      /\ after.toll = grant.toll /\ after.max_call = grant.max_call
  BY <1>1 DEF ProxyGrant
<1>3. \A m, n \in Int : m * (n - 1) = m * n - m
  OBVIOUS
<1>4. after.max_call - after.calls = (grant.max_call - grant.calls) - 1
  BY <1>1, <1>2
<1>5. grant.max_call - grant.calls \in Int /\ grant.toll \in Int
  BY <1>1
<1>6. Left(after) = grant.toll * ((grant.max_call - grant.calls) - 1)
  BY <1>2, <1>4 DEF Left
<1>7. Left(grant) = grant.toll * (grant.max_call - grant.calls)
  BY DEF Left
<1>8. Left(after) = Left(grant) - grant.toll
  BY <1>3, <1>5, <1>6, <1>7
<1> QED  BY <1>1, <1>2, <1>8

LEMMA PursesInit == ProxyInit => Purses
  BY DEF ProxyInit, Purses, Left

\* An enrolment fills the purse with what the new grant admits.
LEMMA EnrollKeepsPurses ==
  ASSUME Purses, NEW pk \in PublicKeys, NEW grant \in ProxyOffers, NEW sane \in BOOLEAN,
         enroll_proxy_key(pk, grant, sane)
  PROVE  Purses'
<1>1. grant \in ProxyGrant /\ grant.calls = 0
  BY OffersAssumption
<1>2. grant.toll \in Nat /\ grant.max_call \in Nat
  BY <1>1, ProxyBounds DEF ProxyGrant
<1>3. \A m, n \in Nat : m * n \in Nat
  OBVIOUS
<1>4. grant.toll * grant.max_call \in Nat
  BY <1>2, <1>3
<1>5. Left(grant) <= grant.toll * grant.max_call
  <2>1. grant.max_call - grant.calls = grant.max_call
    BY <1>1, <1>2
  <2> QED  BY <1>4, <2>1 DEF Left
<1>6. purse[pk] \in Int /\ purse[pk] >= 0
  BY LeftIsNat DEF Purses
<1>7. /\ proxy_grants' = [proxy_grants EXCEPT ![pk] = grant]
      /\ purse' = [purse EXCEPT ![pk] = @ + grant.toll * grant.max_call]
  BY DEF enroll_proxy_key
<1>8. purse[pk] + grant.toll * grant.max_call \in Int
  BY <1>4, <1>6
<1>9. purse' \in [PublicKeys -> Int]
      /\ proxy_grants' \in [PublicKeys -> ProxyGrant \union {None}]
  BY <1>1, <1>7, <1>8 DEF Purses
<1>10. ASSUME NEW other \in PublicKeys
       PROVE  /\ proxy_grants'[other] # None
                   => proxy_grants'[other].calls <= proxy_grants'[other].max_call
              /\ purse'[other] >= Left(proxy_grants'[other])
  <2>1. CASE other # pk
    <3>1. proxy_grants'[other] = proxy_grants[other] /\ purse'[other] = purse[other]
      BY <1>7, <2>1 DEF Purses
    <3> QED  BY <3>1 DEF Purses
  <2>2. CASE other = pk
    <3>1. /\ proxy_grants'[other] = grant
          /\ purse'[other] = purse[pk] + grant.toll * grant.max_call
      BY <1>7, <2>2 DEF Purses
    <3>2. Left(grant) \in Nat
      BY <1>1, <1>2, LeftIsNat
    <3>3. purse'[other] >= Left(grant)
      BY <1>4, <1>5, <1>6, <3>1, <3>2
    <3> QED  BY <1>1, <1>2, <3>1, <3>3
  <2> QED  BY <2>1, <2>2
<1> QED  BY <1>9, <1>10 DEF Purses

\* A call pays its toll from the purse.
LEMMA CallKeepsPurses ==
  ASSUME Purses, NEW pk \in PublicKeys, NEW target, NEW method,
         proxy_call(pk, target, method)
  PROVE  Purses'
<1> DEFINE grant == proxy_grants[pk]
           after == [grant EXCEPT !.calls = @ + 1]
<1>1. grant \in ProxyGrant /\ grant # None /\ grant.calls < grant.max_call
  BY DEF Purses, proxy_call
<1>2. /\ proxy_grants' = [proxy_grants EXCEPT ![pk] = after]
      /\ purse' = [purse EXCEPT ![pk] = @ - grant.toll]
  BY DEF proxy_call
<1>3. grant.toll \in Nat /\ purse[pk] \in Int /\ purse[pk] >= Left(grant)
  BY <1>1, ProxyBounds DEF Purses, ProxyGrant
<1>4. Left(grant) \in Nat
  BY <1>1, LeftIsNat, ProxyBounds DEF ProxyGrant
<1>5. after \in ProxyGrant
  BY <1>1, ProxyBounds DEF ProxyGrant
<1>6. /\ after # None => after.calls <= after.max_call
      /\ purse[pk] - grant.toll >= Left(after)
  <2>1. CASE after = None
    <3>1. grant.toll <= Left(grant)
      <4>1. grant.max_call - grant.calls \in Nat /\ grant.max_call - grant.calls >= 1
        BY <1>1, ProxyBounds DEF ProxyGrant
      <4>2. \A m, n \in Nat : n >= 1 => m <= m * n
        OBVIOUS
      <4> QED  BY <1>1, <1>3, <4>1, <4>2 DEF Left
    <3> QED  BY <1>3, <1>4, <2>1, <3>1 DEF Left
  <2>2. CASE after # None
    <3>1. after.max_call = grant.max_call
      BY <1>1 DEF ProxyGrant
    <3>2. after.calls <= grant.max_call /\ Left(after) = Left(grant) - grant.toll
      BY <1>1, <2>2, LeftAfterCall
    <3> QED  BY <1>3, <1>4, <3>1, <3>2
  <2> QED  BY <2>1, <2>2
<1>7. purse' \in [PublicKeys -> Int]
      /\ proxy_grants' \in [PublicKeys -> ProxyGrant \union {None}]
  BY <1>2, <1>3, <1>5 DEF Purses
<1>8. ASSUME NEW other \in PublicKeys
      PROVE  /\ proxy_grants'[other] # None
                  => proxy_grants'[other].calls <= proxy_grants'[other].max_call
             /\ purse'[other] >= Left(proxy_grants'[other])
  <2>1. CASE other # pk
    <3>1. proxy_grants'[other] = proxy_grants[other] /\ purse'[other] = purse[other]
      BY <1>2, <2>1 DEF Purses
    <3> QED  BY <3>1 DEF Purses
  <2>2. CASE other = pk
    <3>1. proxy_grants'[other] = after /\ purse'[other] = purse[pk] - grant.toll
      BY <1>2, <2>2 DEF Purses
    <3> QED  BY <1>6, <3>1
  <2> QED  BY <2>1, <2>2
<1> QED  BY <1>7, <1>8 DEF Purses

\* Grants may be dropped: the purse stays.
LEMMA DroppingKeepsPurses ==
  ASSUME Purses, purse' = purse,
         proxy_grants' \in [PublicKeys -> ProxyGrant \union {None}],
         \A pk \in PublicKeys : proxy_grants'[pk] \in {proxy_grants[pk], None}
  PROVE  Purses'
<1>1. ASSUME NEW pk \in PublicKeys
      PROVE  /\ proxy_grants'[pk] # None
                  => proxy_grants'[pk].calls <= proxy_grants'[pk].max_call
             /\ purse'[pk] >= Left(proxy_grants'[pk])
  <2>1. CASE proxy_grants'[pk] = proxy_grants[pk]
    BY <2>1 DEF Purses
  <2>2. CASE proxy_grants'[pk] = None
    <3>1. Left(proxy_grants[pk]) \in Nat /\ purse[pk] >= Left(proxy_grants[pk])
          /\ purse[pk] \in Int
      BY LeftIsNat DEF Purses
    <3> QED  BY <2>2, <3>1 DEF Left
  <2> QED  BY <2>1, <2>2
<1> QED  BY <1>1 DEF Purses

LEMMA StutterKeepsPurses ==
  ASSUME Purses, UNCHANGED proxyVars
  PROVE  Purses'
BY DEF Purses, Left, proxyVars

LEMMA PursesNext == Purses /\ [KeysNext]_vars => Purses'
<1> SUFFICES ASSUME Purses, [KeysNext]_vars
             PROVE  Purses'
  OBVIOUS
<1>1. CASE UNCHANGED vars
  BY <1>1, StutterKeepsPurses DEF vars
<1>2. CASE SessionNext
  <2>1. proxy_grants' = proxy_grants /\ purse' = purse
    BY <1>2 DEF SessionNext, enroll_session_key, fire_session, proxyVars
  <2> QED  BY <2>1, DroppingKeepsPurses DEF Purses
<1>3. CASE ProxyNext
  <2>1. ASSUME NEW pk \in PublicKeys, NEW grant \in ProxyOffers, NEW sane \in BOOLEAN,
               enroll_proxy_key(pk, grant, sane)
        PROVE  Purses'
    BY <2>1, EnrollKeepsPurses
  <2>2. ASSUME NEW pk \in PublicKeys, NEW target \in Targets, NEW method \in MethodNames,
               proxy_call(pk, target, method)
        PROVE  Purses'
    BY <2>2, CallKeepsPurses
  <2>3. ASSUME NEW pk \in PublicKeys, revoke_proxy_key(pk)
        PROVE  Purses'
    <3>1. proxy_grants' = [proxy_grants EXCEPT ![pk] = None] /\ purse' = purse
      BY <2>3 DEF revoke_proxy_key
    <3> QED  BY <3>1, DroppingKeepsPurses DEF Purses
  <2>4. ASSUME NEW by_root \in Signers, revoke_expired_proxy_keys(by_root)
        PROVE  Purses'
    <3>1. /\ proxy_grants' = [pk \in PublicKeys |->
                                IF pk \in SpentProxies THEN None ELSE proxy_grants[pk]]
          /\ purse' = purse
      BY <2>4 DEF revoke_expired_proxy_keys
    <3> QED  BY <3>1, DroppingKeepsPurses DEF Purses
  <2> QED  BY <1>3, <2>1, <2>2, <2>3, <2>4 DEF ProxyNext
<1>4. CASE migrate
  <2>1. /\ proxy_grants' = IF layout = "current" THEN proxy_grants
                           ELSE [pk \in PublicKeys |-> None]
        /\ purse' = purse
    BY <1>4 DEF migrate
  <2> QED  BY <2>1, DroppingKeepsPurses DEF Purses
<1>5. CASE UNCHANGED proxyVars
  BY <1>5, StutterKeepsPurses
<1> QED  BY <1>1, <1>2, <1>3, <1>4, <1>5 DEF KeysNext

\* For any keys and grants, a proxy key never takes more from the account's balance
\* than the tolls of the calls its enrolments allowed, across re-enrolment,
\* revocation, pruning and migration.
THEOREM TollsBounded == Spec => []TollsWithinGrants
<1>1. Purses => TollsWithinGrants
  <2> SUFFICES ASSUME Purses, NEW pk \in PublicKeys
               PROVE  purse[pk] >= 0
    BY DEF TollsWithinGrants
  <2>1. /\ Left(proxy_grants[pk]) \in Nat /\ purse[pk] \in Int
        /\ purse[pk] >= Left(proxy_grants[pk])
    BY LeftIsNat DEF Purses
  <2> QED  BY <2>1
<1> QED  BY <1>1, PursesInit, PursesNext, PTL DEF Spec

----------------------------------------------------------------------------
(* The keys.  Where a public key will stand once the receipts on their way *)
(* have run: index 0 of a queue is the key now on the account.             *)

OpAt(key, queue, i, pk) ==
  IF i = 0 THEN key ELSE IF queue[i].pk = pk THEN queue[i].op ELSE None

DeletedAfter(queue, i, pk) ==
  \E j \in DOMAIN queue : j > i /\ queue[j].pk = pk /\ queue[j].op = "delete"

\* A key for the method is on the account, or its addition is on its way, and no
\* deletion comes behind it.
Survives(key, queue, pk, method) ==
  \E i \in 0..Len(queue) :
    OpAt(key, queue, i, pk) = method /\ ~DeletedAfter(queue, i, pk)

\* A receipt sent after all others deletes only what it names.
LEMMA SurvivesSending ==
  ASSUME NEW key, NEW queue \in Seq(KeyReceipt), NEW ops \in Seq(KeyReceipt),
         NEW pk, NEW method, Survives(key, queue, pk, method),
         ~DeletedAfter(ops, 0, pk)
  PROVE  Survives(key, queue \o ops, pk, method)
<1>1. PICK i \in 0..Len(queue) :
        OpAt(key, queue, i, pk) = method /\ ~DeletedAfter(queue, i, pk)
  BY DEF Survives
<1>2. /\ queue \o ops \in Seq(KeyReceipt)
      /\ Len(queue \o ops) = Len(queue) + Len(ops)
      /\ \A j \in 1..Len(queue) : (queue \o ops)[j] = queue[j]
      /\ \A j \in 1..Len(queue \o ops) :
           j > Len(queue) => (queue \o ops)[j] = ops[j - Len(queue)]
  OBVIOUS
<1>3. OpAt(key, queue \o ops, i, pk) = method
  BY <1>1, <1>2 DEF OpAt
<1>4. ~DeletedAfter(queue \o ops, i, pk)
  <2> SUFFICES ASSUME NEW j \in 1..Len(queue \o ops), j > i,
                      (queue \o ops)[j].pk = pk, (queue \o ops)[j].op = "delete"
               PROVE  FALSE
    BY <1>2 DEF DeletedAfter
  <2>1. CASE j <= Len(queue)
    BY <1>1, <1>2, <2>1 DEF DeletedAfter
  <2>2. CASE j > Len(queue)
    <3>1. j - Len(queue) \in 1..Len(ops) /\ j - Len(queue) > 0
      BY <1>2, <2>2
    <3> QED  BY <1>2, <2>2, <3>1 DEF DeletedAfter
  <2> QED  BY <2>1, <2>2
<1>5. i \in 0..Len(queue \o ops)
  BY <1>2
<1> QED  BY <1>3, <1>4, <1>5 DEF Survives

\* An addition sent after all others survives.
LEMMA SurvivesAdded ==
  ASSUME NEW key, NEW queue \in Seq(KeyReceipt), NEW r \in KeyReceipt
  PROVE  Survives(key, queue \o <<r>>, r.pk, r.op)
<1> DEFINE i == Len(queue) + 1
<1>1. /\ Len(queue \o <<r>>) = i /\ (queue \o <<r>>)[i] = r
      /\ DOMAIN (queue \o <<r>>) = 1..i /\ i \in Nat \ {0}
  OBVIOUS
<1>2. OpAt(key, queue \o <<r>>, i, r.pk) = r.op
  BY <1>1 DEF OpAt
<1>3. ~DeletedAfter(queue \o <<r>>, i, r.pk)
  BY <1>1 DEF DeletedAfter
<1>4. i \in 0..Len(queue \o <<r>>)
  BY <1>1
<1> QED  BY <1>2, <1>3, <1>4 DEF Survives

\* What survives the receipts just sent survived before, or is one of them.
LEMMA SurvivedSending ==
  ASSUME NEW key, NEW queue \in Seq(KeyReceipt), NEW ops \in Seq(KeyReceipt),
         NEW pk, NEW method, method # None, Survives(key, queue \o ops, pk, method),
         \A j \in DOMAIN ops : ops[j].pk = pk => ops[j].op # method
  PROVE  Survives(key, queue, pk, method) /\ ~DeletedAfter(ops, 0, pk)
<1>1. PICK i \in 0..Len(queue \o ops) :
        OpAt(key, queue \o ops, i, pk) = method /\ ~DeletedAfter(queue \o ops, i, pk)
  BY DEF Survives
<1>2. /\ Len(queue \o ops) = Len(queue) + Len(ops)
      /\ DOMAIN queue = 1..Len(queue) /\ DOMAIN ops = 1..Len(ops)
      /\ DOMAIN (queue \o ops) = 1..Len(queue \o ops)
      /\ Len(queue) \in Nat /\ Len(ops) \in Nat
      /\ \A j \in 1..Len(queue) : (queue \o ops)[j] = queue[j]
      /\ \A j \in 1..Len(ops) : (queue \o ops)[Len(queue) + j] = ops[j]
  OBVIOUS
<1>3. i <= Len(queue)
  <2> SUFFICES ASSUME i > Len(queue) PROVE FALSE
    BY <1>2
  <2>1. i - Len(queue) \in 1..Len(ops) /\ i = Len(queue) + (i - Len(queue)) /\ i # 0
    BY <1>2
  <2>2. (queue \o ops)[i] = ops[i - Len(queue)]
    BY <1>2, <2>1
  <2> QED  BY <1>1, <1>2, <2>1, <2>2 DEF OpAt
<1>4. i \in 0..Len(queue)
  BY <1>2, <1>3
<1>5. OpAt(key, queue, i, pk) = method
  BY <1>1, <1>2, <1>4 DEF OpAt
<1>6. ~DeletedAfter(queue, i, pk)
  <2> SUFFICES ASSUME NEW j \in 1..Len(queue), j > i, queue[j].pk = pk,
                      queue[j].op = "delete"
               PROVE  FALSE
    BY <1>2 DEF DeletedAfter
  <2>1. j \in 1..Len(queue \o ops)
    BY <1>2
  <2> QED  BY <1>1, <1>2, <2>1 DEF DeletedAfter
<1>7. ~DeletedAfter(ops, 0, pk)
  <2> SUFFICES ASSUME NEW j \in 1..Len(ops), ops[j].pk = pk, ops[j].op = "delete"
               PROVE  FALSE
    BY <1>2 DEF DeletedAfter
  <2>1. Len(queue) + j \in 1..Len(queue \o ops) /\ Len(queue) + j > i
    BY <1>2, <1>4
  <2> QED  BY <1>1, <1>2, <2>1 DEF DeletedAfter
<1> QED  BY <1>4, <1>5, <1>6, <1>7 DEF Survives

\* The key once the first receipt has run.
KeyAfterHead(key, queue, pk) ==
  IF Head(queue).pk = pk THEN KeyAfter(key, Head(queue).op) ELSE key

\* A receipt that runs makes no key survive that did not.
LEMMA SurvivedRunning ==
  ASSUME NEW key, NEW queue \in Seq(KeyReceipt), queue # <<>>,
         NEW pk, NEW method \in Methods,
         Survives(KeyAfterHead(key, queue, pk), Tail(queue), pk, method)
  PROVE  Survives(key, queue, pk, method)
<1> DEFINE after == KeyAfterHead(key, queue, pk)
<1>1. PICK i \in 0..Len(Tail(queue)) :
        OpAt(after, Tail(queue), i, pk) = method /\ ~DeletedAfter(Tail(queue), i, pk)
  BY DEF Survives
<1>2. /\ Len(Tail(queue)) = Len(queue) - 1 /\ Len(queue) \in Nat \ {0}
      /\ DOMAIN queue = 1..Len(queue) /\ DOMAIN Tail(queue) = 1..Len(Tail(queue))
      /\ Head(queue) = queue[1]
      /\ \A j \in 1..Len(Tail(queue)) : Tail(queue)[j] = queue[j + 1]
  OBVIOUS
<1>3. method # None /\ method # "delete"
  BY KeysAssumption DEF Methods
<1>4. ASSUME NEW j \in 1..Len(queue), j > i + 1, queue[j].pk = pk, queue[j].op = "delete"
      PROVE  FALSE
  <2>1. j - 1 \in 1..Len(Tail(queue)) /\ j - 1 > i
    BY <1>2, <1>4
  <2>2. Tail(queue)[j - 1] = queue[j]
    BY <1>2, <2>1
  <2> QED  BY <1>1, <1>2, <1>4, <2>1, <2>2 DEF DeletedAfter
<1>5. CASE i # 0
  <2>1. i + 1 \in 0..Len(queue) /\ i \in 1..Len(Tail(queue)) /\ i + 1 # 0
    BY <1>2, <1>5
  <2>2. OpAt(key, queue, i + 1, pk) = method
    BY <1>1, <1>2, <1>5, <2>1 DEF OpAt
  <2>3. ~DeletedAfter(queue, i + 1, pk)
    BY <1>2, <1>4 DEF DeletedAfter
  <2> QED  BY <2>1, <2>2, <2>3 DEF Survives
<1>6. CASE i = 0 /\ queue[1].pk = pk /\ key # method
  <2>1. after = method /\ queue[1].op = method
    BY <1>1, <1>2, <1>3, <1>6 DEF OpAt, KeyAfterHead, KeyAfter
  <2>2. OpAt(key, queue, 1, pk) = method
    BY <1>6, <2>1 DEF OpAt
  <2>3. ~DeletedAfter(queue, 1, pk)
    BY <1>2, <1>4, <1>6 DEF DeletedAfter
  <2>4. 1 \in 0..Len(queue)
    BY <1>2
  <2> QED  BY <2>2, <2>3, <2>4 DEF Survives
<1>7. CASE i = 0 /\ (queue[1].pk = pk => key = method)
  <2>1. key = method /\ ~(queue[1].pk = pk /\ queue[1].op = "delete")
    BY <1>1, <1>2, <1>3, <1>7 DEF OpAt, KeyAfterHead, KeyAfter
  <2>2. ~DeletedAfter(queue, 0, pk)
    <3> SUFFICES ASSUME NEW j \in 1..Len(queue), queue[j].pk = pk, queue[j].op = "delete"
                 PROVE  FALSE
      BY <1>2 DEF DeletedAfter
    <3>1. j # 1
      BY <2>1
    <3> QED  BY <1>4, <1>7, <3>1
  <2>3. 0 \in 0..Len(queue) /\ OpAt(key, queue, 0, pk) = method
    BY <1>2, <2>1 DEF OpAt
  <2> QED  BY <2>2, <2>3 DEF Survives
<1> QED  BY <1>5, <1>6, <1>7

\* A receipt that has no effect on the key ends the key only if it was to add it.
LEMMA SurvivesRefusal ==
  ASSUME NEW key, NEW queue \in Seq(KeyReceipt), queue # <<>>,
         NEW pk, NEW method, method # None, Survives(key, queue, pk, method),
         Head(queue).pk = pk => Head(queue).op # method
  PROVE  Survives(key, Tail(queue), pk, method)
<1>1. PICK i \in 0..Len(queue) :
        OpAt(key, queue, i, pk) = method /\ ~DeletedAfter(queue, i, pk)
  BY DEF Survives
<1>2. /\ Len(Tail(queue)) = Len(queue) - 1 /\ Len(queue) \in Nat \ {0}
      /\ DOMAIN queue = 1..Len(queue) /\ DOMAIN Tail(queue) = 1..Len(Tail(queue))
      /\ Head(queue) = queue[1]
      /\ \A j \in 1..Len(Tail(queue)) : Tail(queue)[j] = queue[j + 1]
  OBVIOUS
<1>3. i # 1
  BY <1>1, <1>2 DEF OpAt
<1> DEFINE at == IF i = 0 THEN 0 ELSE i - 1
<1>4. at \in 0..Len(Tail(queue)) /\ (at # 0 => at \in 1..Len(Tail(queue)) /\ at + 1 = i)
      /\ (at = 0 => i = 0)
  BY <1>2, <1>3
<1> HIDE DEF at
<1>5. OpAt(key, Tail(queue), at, pk) = method
  BY <1>1, <1>2, <1>4 DEF OpAt
<1>6. ~DeletedAfter(Tail(queue), at, pk)
  <2> SUFFICES ASSUME NEW j \in 1..Len(Tail(queue)), j > at,
                      Tail(queue)[j].pk = pk, Tail(queue)[j].op = "delete"
               PROVE  FALSE
    BY <1>2 DEF DeletedAfter
  <2>1. j + 1 \in 1..Len(queue) /\ j + 1 > i
    BY <1>2, <1>4
  <2> QED  BY <1>1, <1>2, <2>1 DEF DeletedAfter
<1> QED  BY <1>4, <1>5, <1>6 DEF Survives

\* A key enrolled for one method only is there once its addition has run.
LEMMA SurvivesRunning ==
  ASSUME NEW key, NEW queue \in Seq(KeyReceipt), queue # <<>>,
         NEW pk, NEW method \in Methods, Survives(key, queue, pk, method),
         key \in {method, None},
         Head(queue).pk = pk => Head(queue).op \in {method, "delete"}
  PROVE  Survives(KeyAfterHead(key, queue, pk), Tail(queue), pk, method)
<1> DEFINE after == KeyAfterHead(key, queue, pk)
<1>1. method # None /\ method # "delete"
  BY KeysAssumption DEF Methods
<1>2. /\ Len(Tail(queue)) = Len(queue) - 1 /\ Len(queue) \in Nat \ {0}
      /\ DOMAIN queue = 1..Len(queue) /\ DOMAIN Tail(queue) = 1..Len(Tail(queue))
      /\ Head(queue) = queue[1]
      /\ \A j \in 1..Len(Tail(queue)) : Tail(queue)[j] = queue[j + 1]
  OBVIOUS
<1>3. CASE Head(queue).pk = pk => Head(queue).op # method
  <2>1. Survives(key, Tail(queue), pk, method)
    BY <1>1, <1>3, SurvivesRefusal
  <2>2. CASE after = key
    BY <2>1, <2>2
  <2>3. CASE after # key
    <3>1. Head(queue).pk = pk /\ Head(queue).op = "delete"
      BY <1>3, <2>3 DEF KeyAfterHead, KeyAfter
    \* The addition stands behind the deletion that runs.
    <3>2. PICK i \in 0..Len(queue) :
            OpAt(key, queue, i, pk) = method /\ ~DeletedAfter(queue, i, pk)
      BY DEF Survives
    <3>3. i # 0
      BY <1>2, <3>1, <3>2 DEF DeletedAfter
    <3>4. i # 1
      BY <1>1, <1>2, <3>1, <3>2 DEF OpAt
    <3>5. i - 1 \in 1..Len(Tail(queue)) /\ i - 1 # 0 /\ (i - 1) + 1 = i
      BY <1>2, <3>3, <3>4
    <3>6. OpAt(after, Tail(queue), i - 1, pk) = method
      BY <1>2, <3>2, <3>5 DEF OpAt
    <3>7. ~DeletedAfter(Tail(queue), i - 1, pk)
      <4> SUFFICES ASSUME NEW j \in 1..Len(Tail(queue)), j > i - 1,
                          Tail(queue)[j].pk = pk, Tail(queue)[j].op = "delete"
                   PROVE  FALSE
        BY <1>2 DEF DeletedAfter
      <4>1. j + 1 \in 1..Len(queue) /\ j + 1 > i
        BY <1>2, <3>5
      <4> QED  BY <1>2, <3>2, <4>1 DEF DeletedAfter
    <3>8. i - 1 \in 0..Len(Tail(queue))
      BY <1>2, <3>5
    <3> QED  BY <3>6, <3>7, <3>8 DEF Survives
  <2> QED  BY <2>2, <2>3
<1>4. CASE Head(queue).pk = pk /\ Head(queue).op = method
  <2>1. after = method
    BY <1>1, <1>4 DEF KeyAfterHead, KeyAfter
  <2>2. PICK i \in 0..Len(queue) :
          OpAt(key, queue, i, pk) = method /\ ~DeletedAfter(queue, i, pk)
    BY DEF Survives
  <2> DEFINE at == IF i = 0 THEN 0 ELSE i - 1
  <2>3. /\ at \in 0..Len(Tail(queue)) /\ (at # 0 => at \in 1..Len(Tail(queue)))
        /\ (at # 0 => at + 1 = i) /\ i <= at + 1
    BY <1>2
  <2> HIDE DEF at
  <2>4. OpAt(after, Tail(queue), at, pk) = method
    BY <1>2, <2>1, <2>2, <2>3 DEF OpAt
  <2>5. ~DeletedAfter(Tail(queue), at, pk)
    <3> SUFFICES ASSUME NEW j \in 1..Len(Tail(queue)), j > at,
                        Tail(queue)[j].pk = pk, Tail(queue)[j].op = "delete"
                 PROVE  FALSE
      BY <1>2 DEF DeletedAfter
    <3>1. j + 1 \in 1..Len(queue) /\ j + 1 > i
      BY <1>2, <2>3
    <3> QED  BY <1>2, <2>2, <3>1 DEF DeletedAfter
  <2> QED  BY <2>3, <2>4, <2>5 DEF Survives
<1> QED  BY <1>3, <1>4

----------------------------------------------------------------------------
(* The invariant of the keys.                                              *)

Standing(h, pk, method) == Survives(access_keys[h][pk], key_receipts[h], pk, method)

\* Grants, keys and receipts of a public key are for methods it was enrolled for.
KeyUses ==
  /\ \A pk \in PublicKeys, method \in Methods : pk \in GrantedFor(method) => method \in uses[pk]
  /\ \A h \in Holders, pk \in PublicKeys : access_keys[h][pk] \in uses[pk] \union {None}
  /\ \A h \in Holders : \A i \in DOMAIN key_receipts[h] :
       key_receipts[h][i].op \in uses[key_receipts[h][i].pk] \union {"delete"}

\* An account that has been its own authorizer all along has no business with the
\* root account, and no addition to itself was refused.
AtHome ==
  /\ layout = "v4" => authorizer_id = "self"
  /\ authorizer_id = "self" /\ ~moved =>
       /\ refused = {}
       /\ key_receipts["root"] = <<>>
       /\ \A pk \in PublicKeys : access_keys["root"][pk] = None

KeysAreGranted ==
  authorizer_id = "self" /\ ~moved =>
    \A pk \in PublicKeys, method \in Methods :
      Standing("self", pk, method) => pk \in GrantedFor(method)

GrantsAreKept ==
  \A method \in Methods : \A pk \in GrantedFor(method) \ refused :
    uses[pk] = {method} => \E h \in Holders : Standing(h, pk, method)

Backed == KeyUses /\ AtHome /\ KeysAreGranted /\ GrantsAreKept

LEMMA SendAppends ==
  ASSUME ProxyTypeOK, NEW ops \in Seq(KeyReceipt), Send(ops)
  PROVE  /\ key_receipts' \in [Holders -> Seq(KeyReceipt)]
         /\ \A h \in Holders : key_receipts'[h] =
              IF h = authorizer_id THEN key_receipts[h] \o ops ELSE key_receipts[h]
<1>1. key_receipts \in [Holders -> Seq(KeyReceipt)] /\ authorizer_id \in Holders
  BY DEF ProxyTypeOK, TypeOK
<1>2. key_receipts' = [key_receipts EXCEPT ![authorizer_id] = @ \o ops]
  BY DEF Send
<1>3. key_receipts[authorizer_id] \o ops \in Seq(KeyReceipt)
  BY <1>1
<1> QED  BY <1>1, <1>2, <1>3

\* Receipts that only delete other keys leave a key standing.
LEMMA SendKeeps ==
  ASSUME ProxyTypeOK, NEW ops \in Seq(KeyReceipt), Send(ops), UNCHANGED access_keys,
         NEW pk \in PublicKeys, NEW method, ~DeletedAfter(ops, 0, pk),
         NEW h \in Holders, Standing(h, pk, method)
  PROVE  Standing(h, pk, method)'
<1>1. key_receipts[h] \in Seq(KeyReceipt)
  BY DEF ProxyTypeOK, TypeOK
<1>2. Survives(access_keys[h][pk], key_receipts[h], pk, method)
  BY DEF Standing
<1>3. Survives(access_keys[h][pk], key_receipts[h] \o ops, pk, method)
  BY <1>1, <1>2, SurvivesSending
<1>4. Survives(access_keys[h][pk], key_receipts'[h], pk, method)
  BY <1>2, <1>3, SendAppends
<1> QED  BY <1>4 DEF Standing

\* The methods of the receipts under way.
LEMMA SendUses ==
  ASSUME ProxyTypeOK, NEW ops \in Seq(KeyReceipt), Send(ops), KeyUses,
         uses' \in [PublicKeys -> SUBSET Methods],
         \A pk \in PublicKeys : uses[pk] \subseteq uses'[pk],
         \A i \in DOMAIN ops : ops[i].op \in uses'[ops[i].pk] \union {"delete"}
  PROVE  \A h \in Holders : \A i \in DOMAIN key_receipts'[h] :
           key_receipts'[h][i].op \in uses'[key_receipts'[h][i].pk] \union {"delete"}
<1> SUFFICES ASSUME NEW h \in Holders, NEW i \in DOMAIN key_receipts'[h]
             PROVE  key_receipts'[h][i].op
                      \in uses'[key_receipts'[h][i].pk] \union {"delete"}
  OBVIOUS
<1> DEFINE queue == key_receipts[h]
<1>1. queue \in Seq(KeyReceipt)
  BY DEF ProxyTypeOK, TypeOK
<1>2. ASSUME NEW j \in DOMAIN queue
      PROVE  queue[j].op \in uses'[queue[j].pk] \union {"delete"}
  <2>1. queue[j] \in KeyReceipt
    BY <1>1
  <2>2. queue[j].pk \in PublicKeys
    BY <2>1 DEF KeyReceipt
  <2>3. queue[j].op \in uses[queue[j].pk] \union {"delete"}
    BY DEF KeyUses
  <2> QED  BY <2>2, <2>3
<1>3. CASE key_receipts'[h] = queue
  BY <1>2, <1>3
<1>4. CASE key_receipts'[h] = queue \o ops
  <2>1. /\ DOMAIN queue = 1..Len(queue) /\ DOMAIN ops = 1..Len(ops)
        /\ Len(queue) \in Nat /\ Len(ops) \in Nat
        /\ i \in 1..(Len(queue) + Len(ops))
        /\ i <= Len(queue) => (queue \o ops)[i] = queue[i]
        /\ i > Len(queue) => (queue \o ops)[i] = ops[i - Len(queue)]
    BY <1>1, <1>4
  <2>2. CASE i <= Len(queue)
    BY <1>2, <1>4, <2>1, <2>2
  <2>3. CASE i > Len(queue)
    <3>1. i - Len(queue) \in DOMAIN ops
      BY <2>1, <2>3
    <3> QED  BY <1>4, <2>1, <2>3, <3>1
  <2> QED  BY <2>1, <2>2, <2>3
<1> QED  BY <1>3, <1>4, SendAppends

\* An enrolment for a method: a grant and the receipt that adds its key.
LEMMA EnrolKeepsBacked ==
  ASSUME ProxyTypeOK, Backed, NEW pk \in PublicKeys, NEW method \in Methods,
         NEW sane \in BOOLEAN,
         Send(<<[op |-> method, pk |-> pk, proper |-> sane]>>),
         uses' = [uses EXCEPT ![pk] = @ \union {method}],
         \A m \in Methods : GrantedFor(m)' =
           IF m = method THEN GrantedFor(m) \union {pk} ELSE GrantedFor(m),
         UNCHANGED <<authorizer_id, access_keys, refused, moved, layout>>
  PROVE  Backed'
<1> DEFINE r == [op |-> method, pk |-> pk, proper |-> sane]
           ops == <<r>>
<1>1. r \in KeyReceipt /\ ops \in Seq(KeyReceipt) /\ r.pk = pk /\ r.op = method
  BY DEF KeyReceipt
<1>2. method # None /\ method # "delete"
  BY KeysAssumption DEF Methods
<1>3. \A other : ~DeletedAfter(ops, 0, other)
  BY <1>1, <1>2 DEF DeletedAfter
<1>4. /\ uses \in [PublicKeys -> SUBSET Methods] /\ authorizer_id \in Holders
      /\ key_receipts \in [Holders -> Seq(KeyReceipt)]
  BY DEF ProxyTypeOK, TypeOK
<1>5. /\ uses' \in [PublicKeys -> SUBSET Methods] /\ method \in uses'[pk]
      /\ \A other \in PublicKeys : uses[other] \subseteq uses'[other]
      /\ \A other \in PublicKeys : other # pk => uses'[other] = uses[other]
  BY <1>4
<1> HIDE DEF r
<1>6. KeyUses'
  <2>1. ASSUME NEW other \in PublicKeys, NEW m \in Methods, other \in GrantedFor(m)'
        PROVE  m \in uses'[other]
    <3>1. CASE other \in GrantedFor(m)
      BY <1>5, <3>1 DEF Backed, KeyUses
    <3>2. CASE other \notin GrantedFor(m)
      BY <1>5, <2>1, <3>2
    <3> QED  BY <3>1, <3>2
  <2>2. \A h \in Holders, other \in PublicKeys :
          access_keys'[h][other] \in uses'[other] \union {None}
    BY <1>5 DEF Backed, KeyUses
  <2>3. \A i \in DOMAIN ops : ops[i].op \in uses'[ops[i].pk] \union {"delete"}
    BY <1>1, <1>5
  <2>4. \A h \in Holders : \A i \in DOMAIN key_receipts'[h] :
          key_receipts'[h][i].op \in uses'[key_receipts'[h][i].pk] \union {"delete"}
    BY <1>1, <1>5, <2>3, SendUses DEF Backed, r
  <2> QED  BY <2>1, <2>2, <2>4 DEF KeyUses
<1>7. AtHome'
  <2>1. authorizer_id = "self" => key_receipts'["root"] = key_receipts["root"]
    BY <1>1, SendAppends DEF Holders, r
  <2> QED  BY <2>1 DEF Backed, AtHome
<1>8. KeysAreGranted'
  <2> SUFFICES ASSUME authorizer_id = "self", ~moved,
                      NEW other \in PublicKeys, NEW m \in Methods,
                      Standing("self", other, m)', other \notin GrantedFor(m)
               PROVE  other = pk /\ m = method
    BY DEF KeysAreGranted
  <2> SUFFICES ASSUME other = pk => m # method
               PROVE  FALSE
    OBVIOUS
  <2>1. key_receipts'["self"] = key_receipts["self"] \o ops
    BY <1>1, SendAppends DEF Holders, r
  <2>2. Survives(access_keys["self"][other], key_receipts["self"] \o ops, other, m)
    BY <2>1 DEF Standing
  <2>3. m # None
    BY KeysAssumption
  <2>4. \A j \in DOMAIN ops : ops[j].pk = other => ops[j].op # m
    BY <1>1
  <2>5. key_receipts["self"] \in Seq(KeyReceipt)
    BY <1>4 DEF Holders
  <2>6. Survives(access_keys["self"][other], key_receipts["self"], other, m)
    BY <1>1, <2>2, <2>3, <2>4, <2>5, SurvivedSending
  <2> QED  BY <2>6 DEF Backed, KeysAreGranted, Standing
<1>9. GrantsAreKept'
  <2> SUFFICES ASSUME NEW m \in Methods, NEW other \in GrantedFor(m)' \ refused,
                      uses'[other] = {m}
               PROVE  \E h \in Holders : Standing(h, other, m)'
    BY DEF GrantsAreKept
  <2>1. other \in PublicKeys
    BY DEF GrantedFor
  <2>2. CASE other = pk
    <3>1. m = method
      BY <1>5, <2>2
    <3>2. Survives(access_keys[authorizer_id][pk],
                   key_receipts[authorizer_id] \o ops, pk, method)
      BY <1>1, <1>4, SurvivesAdded
    <3>3. key_receipts'[authorizer_id] = key_receipts[authorizer_id] \o ops
      BY <1>1, <1>4, SendAppends DEF r
    <3> QED  BY <1>4, <2>2, <3>1, <3>2, <3>3 DEF Standing
  <2>3. CASE other # pk
    <3>1. other \in GrantedFor(m) /\ uses[other] = {m}
      BY <1>5, <2>1, <2>3
    <3>2. PICK h \in Holders : Standing(h, other, m)
      BY <3>1 DEF Backed, GrantsAreKept
    <3>3. Standing(h, other, m)'
      BY <1>1, <1>3, <2>1, <3>2, SendKeeps DEF r
    <3> QED  BY <3>3
  <2> QED  BY <2>2, <2>3
<1> QED  BY <1>6, <1>7, <1>8, <1>9 DEF Backed

\* Grants dropped together with receipts that delete their keys.
LEMMA DropKeepsBacked ==
  ASSUME ProxyTypeOK, Backed, NEW method \in Methods, NEW dropped, NEW ops \in Seq(KeyReceipt),
         Send(ops), dropped \subseteq GrantedFor(method),
         \A i \in DOMAIN ops : ops[i].op = "delete" /\ ops[i].pk \in dropped,
         \A pk \in dropped : \E i \in DOMAIN ops : ops[i].pk = pk,
         \A m \in Methods : GrantedFor(m)' =
           IF m = method THEN GrantedFor(m) \ dropped ELSE GrantedFor(m),
         UNCHANGED <<authorizer_id, access_keys, refused, moved, layout, uses>>
  PROVE  Backed'
<1>1. /\ uses \in [PublicKeys -> SUBSET Methods] /\ authorizer_id \in Holders
      /\ key_receipts \in [Holders -> Seq(KeyReceipt)]
  BY DEF ProxyTypeOK, TypeOK
<1>2. \A m \in Methods : m # None /\ m # "delete"
  BY KeysAssumption DEF Methods
<1>3. DOMAIN ops = 1..Len(ops)
  OBVIOUS
<1>4. KeyUses'
  <2>1. \A h \in Holders : \A i \in DOMAIN key_receipts'[h] :
          key_receipts'[h][i].op \in uses'[key_receipts'[h][i].pk] \union {"delete"}
    BY <1>1, SendUses DEF Backed
  <2>2. \A m \in Methods : GrantedFor(m)' \subseteq GrantedFor(m)
    OBVIOUS
  <2> QED  BY <2>1, <2>2 DEF Backed, KeyUses
<1>5. AtHome'
  <2>1. authorizer_id = "self" => key_receipts'["root"] = key_receipts["root"]
    BY SendAppends DEF Holders
  <2> QED  BY <2>1 DEF Backed, AtHome
<1>6. KeysAreGranted'
  <2> SUFFICES ASSUME authorizer_id = "self", ~moved,
                      NEW pk \in PublicKeys, NEW m \in Methods,
                      Standing("self", pk, m)', pk \notin GrantedFor(m)'
               PROVE  FALSE
    BY DEF KeysAreGranted
  <2>1. key_receipts'["self"] = key_receipts["self"] \o ops
    BY SendAppends DEF Holders
  <2>2. Survives(access_keys["self"][pk], key_receipts["self"] \o ops, pk, m)
    BY <2>1 DEF Standing
  <2>3. key_receipts["self"] \in Seq(KeyReceipt)
    BY <1>1 DEF Holders
  <2>4. /\ Survives(access_keys["self"][pk], key_receipts["self"], pk, m)
        /\ ~DeletedAfter(ops, 0, pk)
    BY <1>2, <2>2, <2>3, SurvivedSending
  <2>5. pk \in GrantedFor(m)
    BY <2>4 DEF Backed, KeysAreGranted, Standing
  <2>6. pk \in dropped
    BY <2>5
  <2> QED  BY <1>3, <2>4, <2>6 DEF DeletedAfter
<1>7. GrantsAreKept'
  <2> SUFFICES ASSUME NEW m \in Methods, NEW pk \in GrantedFor(m)' \ refused,
                      uses[pk] = {m}
               PROVE  \E h \in Holders : Standing(h, pk, m)'
    BY DEF GrantsAreKept
  <2>1. pk \in PublicKeys /\ pk \in GrantedFor(m)
    BY DEF GrantedFor
  <2>2. pk \notin dropped
    <3> SUFFICES ASSUME pk \in dropped PROVE FALSE
      OBVIOUS
    <3>1. method \in uses[pk]
      BY <2>1 DEF Backed, KeyUses
    <3> QED  BY <3>1
  <2>3. ~DeletedAfter(ops, 0, pk)
    BY <2>2 DEF DeletedAfter
  <2>4. PICK h \in Holders : Standing(h, pk, m)
    BY <2>1 DEF Backed, GrantsAreKept
  <2> QED  BY <2>1, <2>3, <2>4, SendKeeps
<1> QED  BY <1>4, <1>5, <1>6, <1>7 DEF Backed

\* Steps that touch neither keys nor receipts and grant and revoke nothing.
LEMMA QuietKeepsBacked ==
  ASSUME Backed, \A m \in Methods : GrantedFor(m)' = GrantedFor(m),
         UNCHANGED <<access_keys, key_receipts, refused, uses>>,
         layout' = "v4" => authorizer_id' = "self",
         authorizer_id' = "self" /\ ~moved' => authorizer_id = "self" /\ ~moved
  PROVE  Backed'
<1>1. \A h, pk, m : Standing(h, pk, m)' <=> Standing(h, pk, m)
  BY DEF Standing
<1>2. KeyUses'
  BY DEF Backed, KeyUses
<1>3. AtHome'
  BY DEF Backed, AtHome
<1>4. KeysAreGranted'
  BY <1>1 DEF Backed, KeysAreGranted
<1>5. GrantsAreKept'
  BY <1>1 DEF Backed, GrantsAreKept
<1> QED  BY <1>2, <1>3, <1>4, <1>5 DEF Backed

\* What a key receipt does to the key of each public key.
LEMMA ReceiptEffect ==
  ASSUME ProxyTypeOK, NEW holder \in Holders, KeyReceiptRuns(holder)
  PROVE  /\ key_receipts[holder] \in Seq(KeyReceipt) /\ key_receipts[holder] # <<>>
         /\ Head(key_receipts[holder]) \in KeyReceipt
         /\ key_receipts' \in [Holders -> Seq(KeyReceipt)]
         /\ key_receipts'[holder] = Tail(key_receipts[holder])
         /\ \A h \in Holders : h # holder => /\ key_receipts'[h] = key_receipts[h]
                                             /\ access_keys'[h] = access_keys[h]
         /\ access_keys' \in [Holders -> [PublicKeys -> Methods \union {None}]]
         /\ \/ \A pk \in PublicKeys : access_keys'[holder][pk] =
                 KeyAfterHead(access_keys[holder][pk], key_receipts[holder], pk)
            \/ /\ holder = "root" /\ access_keys' = access_keys
               /\ Head(key_receipts[holder]).op # "delete"
                    => Head(key_receipts[holder]).pk \in refused'
         /\ refused \subseteq refused'
         /\ holder = "self" => refused' = refused
<1> DEFINE queue == key_receipts[holder]
           r == Head(queue)
           accepted == holder = "self" \/ AuthorizerAccepts(r)
<1>1. /\ queue \in Seq(KeyReceipt) /\ key_receipts \in [Holders -> Seq(KeyReceipt)]
      /\ access_keys \in [Holders -> [PublicKeys -> Methods \union {None}]]
      /\ refused \subseteq PublicKeys
  BY DEF ProxyTypeOK, TypeOK
<1>2. /\ queue # <<>> /\ key_receipts' = [key_receipts EXCEPT ![holder] = Tail(@)]
      /\ access_keys' = IF accepted
                        THEN [access_keys EXCEPT ![holder][r.pk] = KeyAfter(@, r.op)]
                        ELSE access_keys
      /\ refused' = IF ~accepted /\ r.op # "delete" THEN refused \union {r.pk} ELSE refused
  BY DEF KeyReceiptRuns
<1>3. r \in KeyReceipt /\ Tail(queue) \in Seq(KeyReceipt)
  BY <1>1, <1>2
<1>4. r.pk \in PublicKeys /\ r.op \in Methods \union {"delete"}
  BY <1>3 DEF KeyReceipt
<1>5. /\ key_receipts' \in [Holders -> Seq(KeyReceipt)]
      /\ key_receipts'[holder] = Tail(queue)
      /\ \A h \in Holders : h # holder => key_receipts'[h] = key_receipts[h]
  BY <1>1, <1>2, <1>3
<1>6. /\ access_keys' \in [Holders -> [PublicKeys -> Methods \union {None}]]
      /\ \A h \in Holders : h # holder => access_keys'[h] = access_keys[h]
      /\ accepted => \A pk \in PublicKeys : access_keys'[holder][pk] =
           KeyAfterHead(access_keys[holder][pk], queue, pk)
  <2>1. CASE ~accepted
    BY <1>1, <1>2, <2>1
  <2>2. CASE accepted
    <3> DEFINE key == access_keys[holder][r.pk]
    <3>1. access_keys' = [access_keys EXCEPT ![holder][r.pk] = KeyAfter(key, r.op)]
      BY <1>2, <2>2
    <3>2. key \in Methods \union {None}
      BY <1>1, <1>4
    <3>3. KeyAfter(key, r.op) \in Methods \union {None}
      BY <1>4, <3>2 DEF KeyAfter
    <3> HIDE DEF key, r
    <3>4. access_keys' \in [Holders -> [PublicKeys -> Methods \union {None}]]
      BY <1>1, <1>4, <3>1, <3>3
    <3>5. /\ \A h \in Holders : h # holder => access_keys'[h] = access_keys[h]
          /\ \A pk \in PublicKeys : access_keys'[holder][pk] =
               IF pk = r.pk THEN KeyAfter(key, r.op) ELSE access_keys[holder][pk]
      BY <1>1, <1>4, <3>1, <3>3
    <3> QED  BY <3>4, <3>5 DEF KeyAfterHead, key, r
  <2> QED  BY <2>1, <2>2
<1>7. ~accepted => holder = "root" /\ access_keys' = access_keys
                   /\ (r.op # "delete" => r.pk \in refused')
  BY <1>2 DEF Holders
<1> QED  BY <1>1, <1>2, <1>3, <1>5, <1>6, <1>7

LEMMA ReceiptKeepsBacked ==
  ASSUME ProxyTypeOK, Backed, NEW holder \in Holders, KeyReceiptRuns(holder),
         UNCHANGED proxyVars
  PROVE  Backed'
<1> DEFINE queue == key_receipts[holder]
<1>1. UNCHANGED <<session_grants, authorizer_id, moved, proxy_grants, layout, uses>>
  BY DEF KeyReceiptRuns, proxyVars
<1>2. \A m \in Methods : GrantedFor(m)' = GrantedFor(m)
  BY <1>1 DEF GrantedFor
<1>3. /\ queue \in Seq(KeyReceipt) /\ queue # <<>> /\ Head(queue) \in KeyReceipt
      /\ key_receipts' \in [Holders -> Seq(KeyReceipt)]
      /\ key_receipts'[holder] = Tail(queue)
      /\ \A h \in Holders : h # holder => /\ key_receipts'[h] = key_receipts[h]
                                          /\ access_keys'[h] = access_keys[h]
      /\ \/ \A pk \in PublicKeys : access_keys'[holder][pk] =
              KeyAfterHead(access_keys[holder][pk], queue, pk)
         \/ /\ holder = "root" /\ access_keys' = access_keys
            /\ Head(queue).op # "delete" => Head(queue).pk \in refused'
      /\ refused \subseteq refused'
      /\ holder = "self" => refused' = refused
  BY ReceiptEffect
<1>4. /\ Head(queue) = queue[1] /\ 1 \in DOMAIN queue
      /\ Len(Tail(queue)) = Len(queue) - 1 /\ DOMAIN Tail(queue) = 1..(Len(queue) - 1)
      /\ DOMAIN queue = 1..Len(queue) /\ Len(queue) \in Nat
      /\ \A i \in 1..(Len(queue) - 1) : Tail(queue)[i] = queue[i + 1]
  BY <1>3
<1>5. uses \in [PublicKeys -> SUBSET Methods] /\ None \notin Methods
  BY KeysAssumption DEF ProxyTypeOK
<1>6. Head(queue).op \in uses[Head(queue).pk] \union {"delete"} /\ Head(queue).pk \in PublicKeys
  BY <1>3, <1>4 DEF Backed, KeyUses, KeyReceipt
<1> HIDE DEF queue
<1>7. KeyUses'
  <2>1. ASSUME NEW h \in Holders, NEW pk \in PublicKeys
        PROVE  access_keys'[h][pk] \in uses[pk] \union {None}
    <3>1. access_keys[h][pk] \in uses[pk] \union {None}
      BY DEF Backed, KeyUses
    <3>2. KeyAfterHead(access_keys[h][pk], queue, pk) \in uses[pk] \union {None}
      BY <1>6, <3>1 DEF KeyAfterHead, KeyAfter
    <3> QED  BY <1>3, <3>1, <3>2
  <2>2. ASSUME NEW h \in Holders, NEW i \in DOMAIN key_receipts'[h]
        PROVE  key_receipts'[h][i].op \in uses[key_receipts'[h][i].pk] \union {"delete"}
    <3>1. CASE h # holder
      BY <1>3, <3>1 DEF Backed, KeyUses
    <3>2. CASE h = holder
      <4>1. i + 1 \in DOMAIN queue /\ key_receipts'[h][i] = queue[i + 1]
        BY <1>3, <1>4, <3>2
      <4> QED  BY <3>2, <4>1 DEF Backed, KeyUses, queue
    <3> QED  BY <3>1, <3>2
  <2> QED  BY <1>1, <1>2, <2>1, <2>2 DEF Backed, KeyUses
<1>8. ASSUME authorizer_id = "self", ~moved
      PROVE  holder = "self"
  BY <1>3, <1>8 DEF Backed, AtHome, Holders, queue
<1>9. AtHome'
  <2>1. "root" \in Holders /\ "root" # "self"
    BY DEF Holders
  <2> QED  BY <1>1, <1>3, <1>8, <2>1 DEF Backed, AtHome
<1>10. KeysAreGranted'
  <2> SUFFICES ASSUME authorizer_id = "self", ~moved,
                      NEW pk \in PublicKeys, NEW m \in Methods, Standing("self", pk, m)'
               PROVE  pk \in GrantedFor(m)
    BY <1>1, <1>2 DEF KeysAreGranted
  <2>1. holder = "self"
    BY <1>8
  <2>2. Survives(KeyAfterHead(access_keys["self"][pk], queue, pk), Tail(queue), pk, m)
    BY <1>3, <2>1 DEF Standing
  <2>3. Survives(access_keys["self"][pk], queue, pk, m)
    BY <1>3, <2>2, SurvivedRunning
  <2> QED  BY <2>1, <2>3 DEF Backed, KeysAreGranted, Standing, queue
<1>11. GrantsAreKept'
  <2> SUFFICES ASSUME NEW m \in Methods, NEW pk \in GrantedFor(m) \ refused',
                      uses[pk] = {m}
               PROVE  \E h \in Holders : Standing(h, pk, m)'
    BY <1>1, <1>2 DEF GrantsAreKept
  <2>1. pk \in PublicKeys
    BY DEF GrantedFor
  <2>2. PICK h \in Holders : Standing(h, pk, m)
    BY <1>3 DEF Backed, GrantsAreKept
  <2>3. CASE h # holder
    BY <1>3, <2>2, <2>3 DEF Standing
  <2>4. CASE h = holder /\ access_keys'[holder][pk] =
                KeyAfterHead(access_keys[holder][pk], queue, pk)
    <3>1. access_keys[holder][pk] \in {m, None}
      BY <2>1 DEF Backed, KeyUses
    <3>2. Head(queue).pk = pk => Head(queue).op \in {m, "delete"}
      BY <1>6
    <3>3. Survives(access_keys[holder][pk], queue, pk, m)
      BY <2>2, <2>4 DEF Standing, queue
    <3>4. Survives(KeyAfterHead(access_keys[holder][pk], queue, pk), Tail(queue), pk, m)
      BY <1>3, <3>1, <3>2, <3>3, SurvivesRunning
    <3> QED  BY <1>3, <2>4, <3>4 DEF Standing
  <2>5. CASE /\ h = holder /\ access_keys' = access_keys
             /\ Head(queue).op # "delete" => Head(queue).pk \in refused'
    <3>1. m # "delete" /\ m # None
      BY KeysAssumption DEF Methods
    <3>2. Head(queue).pk = pk => Head(queue).op # m
      BY <2>5, <3>1
    <3>3. Survives(access_keys[holder][pk], queue, pk, m)
      BY <2>2, <2>5 DEF Standing, queue
    <3>4. Survives(access_keys[holder][pk], Tail(queue), pk, m)
      BY <1>3, <3>1, <3>2, <3>3, SurvivesRefusal
    <3> QED  BY <1>3, <2>5, <3>4 DEF Standing
  <2> QED  BY <1>3, <2>1, <2>3, <2>4, <2>5
<1> QED  BY <1>7, <1>9, <1>10, <1>11 DEF Backed

\* The deletions of the keys in a set, in any order.
LEMMA DeletionsOf ==
  ASSUME NEW S \in SUBSET PublicKeys, NEW proper \in BOOLEAN, NEW ops,
         ops = [i \in DOMAIN SetToSeq(S) |->
                  [op |-> "delete", pk |-> SetToSeq(S)[i], proper |-> proper]]
  PROVE  /\ ops \in Seq(KeyReceipt)
         /\ \A i \in DOMAIN ops : ops[i].op = "delete" /\ ops[i].pk \in S
         /\ \A pk \in S : \E i \in DOMAIN ops : ops[i].pk = pk
<1> DEFINE n == Cardinality(S)
           pks == SetToSeq(S)
<1>1. IsFiniteSet(S)
  BY KeysAssumption, FS_Subset
<1>2. n \in Nat /\ ExistsBijection(1..n, S)
  BY <1>1, FS_CardinalityType
<1>3. PICK f \in [1..n -> S] : IsInjective(f)
  BY <1>2 DEF ExistsBijection, Bijection, Injection, IsInjective
<1>4. pks \in [1..n -> S] /\ IsInjective(pks)
  BY <1>3 DEF SetToSeq
<1>5. pks \in Injection(1..n, S)
  BY <1>4 DEF Injection
<1>6. pks \in Surjection(1..n, S)
  <2>1. 0 \in Int /\ IsFiniteSet(1..n) /\ Cardinality(1..n) = n
    BY <1>2, FS_Interval
  <2> QED  BY <1>1, <1>5, <2>1, FS_Injection
<1>7. \A pk \in S : \E i \in 1..n : pks[i] = pk
  BY <1>6 DEF Surjection
<1> HIDE DEF pks, n
<1>8. DOMAIN pks = 1..n
  BY <1>4
<1>9. /\ ops = [i \in 1..n |-> [op |-> "delete", pk |-> pks[i], proper |-> proper]]
  BY <1>8 DEF pks
<1>10. \A i \in 1..n : ops[i] \in KeyReceipt /\ ops[i].op = "delete" /\ ops[i].pk = pks[i]
  BY <1>4, <1>9 DEF KeyReceipt
<1>11. ops \in Seq(KeyReceipt) /\ DOMAIN ops = 1..n
  BY <1>2, <1>9, <1>10
<1> QED  BY <1>4, <1>7, <1>10, <1>11

----------------------------------------------------------------------------
(* The steps of the contract.                                              *)

\* What the methods find: the types, and no proxy grants in an older layout.
Typed ==
  /\ ProxyTypeOK
  /\ layout # "current" => \A pk \in PublicKeys : proxy_grants[pk] = None

LEMMA TypedInit == ProxyInit => Typed
<1> SUFFICES ASSUME ProxyInit PROVE Typed
  OBVIOUS
<1>1. LegacyGrant \in SessionGrant
  <2>1. MaxTime \in 1..MaxTime /\ MaxFires \in 1..MaxFires /\ 0 \in 0..MaxFires
    BY SessionBounds, KeysAssumption
  <2> QED  BY <2>1 DEF LegacyGrant, SessionGrant
<1>2. PICK old \in SUBSET PublicKeys :
        /\ session_grants = [pk \in PublicKeys |-> IF pk \in old THEN LegacyGrant ELSE None]
        /\ access_keys = [h \in Holders |-> [pk \in PublicKeys |->
             IF pk \in old /\ h = authorizer_id THEN "execute_trigger" ELSE None]]
        /\ uses = [pk \in PublicKeys |-> IF pk \in old THEN {"execute_trigger"} ELSE {}]
  BY DEF ProxyInit
<1>3. session_grants \in [PublicKeys -> SessionGrant \union {None}]
  BY <1>1, <1>2
<1>4. access_keys \in [Holders -> [PublicKeys -> Methods \union {None}]]
  BY <1>2 DEF Methods
<1>5. uses \in [PublicKeys -> SUBSET Methods]
  BY <1>2 DEF Methods
<1>6. authorizer_id \in Holders /\ layout \in {"v4", "v5", "current"}
  BY ModesAssumption, LayoutsAssumption DEF ProxyInit, Holders
<1>7. now \in 0..MaxTime
  BY SessionBounds DEF ProxyInit
<1>8. armed \in BOOLEAN /\ moved \in BOOLEAN /\ refused \subseteq PublicKeys
  BY DEF ProxyInit
<1>9. key_receipts \in [Holders -> Seq(KeyReceipt)]
  <2>1. <<>> \in Seq(KeyReceipt)
    OBVIOUS
  <2> QED  BY <2>1 DEF ProxyInit
<1>10. /\ proxy_grants \in [PublicKeys -> ProxyGrant \union {None}]
      /\ purse \in [PublicKeys -> Int]
      /\ \A pk \in PublicKeys : proxy_grants[pk] = None
  BY DEF ProxyInit
<1> QED  BY <1>3, <1>4, <1>5, <1>6, <1>7, <1>8, <1>9, <1>10 DEF Typed, ProxyTypeOK, TypeOK

LEMMA BackedInit == ProxyInit => Backed
<1> SUFFICES ASSUME ProxyInit PROVE Backed
  OBVIOUS
<1>1. PICK old \in SUBSET PublicKeys :
        /\ session_grants = [pk \in PublicKeys |-> IF pk \in old THEN LegacyGrant ELSE None]
        /\ access_keys = [h \in Holders |-> [pk \in PublicKeys |->
             IF pk \in old /\ h = authorizer_id THEN "execute_trigger" ELSE None]]
        /\ uses = [pk \in PublicKeys |-> IF pk \in old THEN {"execute_trigger"} ELSE {}]
  BY DEF ProxyInit
<1>2. LegacyGrant # None
  <2>1. MaxTime \in 1..MaxTime /\ MaxFires \in 1..MaxFires /\ 0 \in 0..MaxFires
    BY SessionBounds, KeysAssumption
  <2>2. LegacyGrant \in SessionGrant
    BY <2>1 DEF LegacyGrant, SessionGrant
  <2> QED  BY <2>2, KeysAssumption
<1>3. /\ proxy_grants = [pk \in PublicKeys |-> None]
      /\ key_receipts = [h \in Holders |-> <<>>] /\ refused = {}
      /\ layout = "v4" => authorizer_id = "self"
      /\ authorizer_id \in Holders
  BY ModesAssumption DEF ProxyInit, Holders
<1>4. /\ GrantedFor("execute_trigger") = old /\ GrantedFor("proxy_call") = {}
  BY <1>1, <1>2, <1>3 DEF GrantedFor
<1>5. \A h \in Holders : DOMAIN key_receipts[h] = {} /\ Len(key_receipts[h]) = 0
  BY <1>3
<1>6. \A h \in Holders, pk \in PublicKeys : \A m :
        Standing(h, pk, m) <=> access_keys[h][pk] = m
  BY <1>5 DEF Standing, Survives, OpAt, DeletedAfter
<1>7. KeyUses
  BY <1>1, <1>4, <1>5 DEF KeyUses, Methods
<1>8. AtHome
  BY <1>1, <1>3 DEF AtHome, Holders
<1>9. KeysAreGranted
  <2> SUFFICES ASSUME NEW pk \in PublicKeys, NEW m \in Methods, Standing("self", pk, m)
               PROVE  pk \in GrantedFor(m)
    BY DEF KeysAreGranted
  <2>1. access_keys["self"][pk] = m /\ m # None
    BY <1>6, KeysAssumption DEF Holders
  <2> QED  BY <1>1, <1>4, <2>1 DEF Holders
<1>10. GrantsAreKept
  <2> SUFFICES ASSUME NEW m \in Methods, NEW pk \in GrantedFor(m)
               PROVE  \E h \in Holders : Standing(h, pk, m)
    BY DEF GrantsAreKept
  <2>1. m = "execute_trigger" /\ pk \in old /\ pk \in PublicKeys
    BY <1>4 DEF Methods
  <2>2. access_keys[authorizer_id][pk] = m
    BY <1>1, <1>3, <2>1
  <2> QED  BY <1>3, <1>6, <2>1, <2>2
<1> QED  BY <1>7, <1>8, <1>9, <1>10 DEF Backed

\* A single deletion.
LEMMA DeletionOf ==
  ASSUME NEW pk \in PublicKeys, NEW ops,
         ops = <<[op |-> "delete", pk |-> pk, proper |-> TRUE]>>
  PROVE  /\ ops \in Seq(KeyReceipt)
         /\ \A i \in DOMAIN ops : ops[i].op = "delete" /\ ops[i].pk \in {pk}
         /\ \A other \in {pk} : \E i \in DOMAIN ops : ops[i].pk = other
<1>1. [op |-> "delete", pk |-> pk, proper |-> TRUE] \in KeyReceipt
  BY DEF KeyReceipt
<1>2. DOMAIN ops = {1} /\ ops[1].pk = pk /\ ops[1].op = "delete"
  OBVIOUS
<1> QED  BY <1>1, <1>2

LEMMA SessionKeepsBacked ==
  ASSUME Typed, Backed, layout = "current", SessionNext
  PROVE  Typed' /\ Backed'
<1>1. /\ ProxyTypeOK /\ TypeOK
      /\ session_grants \in [PublicKeys -> SessionGrant \union {None}]
      /\ uses \in [PublicKeys -> SUBSET Methods]
  BY DEF Typed, ProxyTypeOK, TypeOK
<1>2. {"execute_trigger", "proxy_call"} = Methods /\ Signers \subseteq BOOLEAN
  BY DEF Methods, Signers
<1>3. ASSUME NEW pk \in PublicKeys, NEW offer \in SessionOffers, NEW sane \in BOOLEAN,
             enroll_session_key(pk, offer, sane)
      PROVE  Typed' /\ Backed'
  <2> DEFINE grant == [expires_at |-> offer.expires_at, allowed |-> offer.allowed,
                       max_fire |-> offer.max_fire, fires |-> 0]
  <2>1. /\ session_grants' = [session_grants EXCEPT ![pk] = grant]
        /\ Send(<<[op |-> "execute_trigger", pk |-> pk, proper |-> sane]>>)
        /\ uses' = [uses EXCEPT ![pk] = @ \union {"execute_trigger"}]
        /\ UNCHANGED <<authorizer_id, armed, access_keys, now, refused, moved,
                       proxy_grants, layout, purse>>
    BY <1>3 DEF enroll_session_key, enroll_session
  <2>2. grant \in SessionGrant
    <3>1. offer \in SessionGrant /\ offer.fires = 0
      BY OffersAssumption
    <3> QED  BY <3>1 DEF SessionGrant
  <2> HIDE DEF grant
  <2>3. session_grants' \in [PublicKeys -> SessionGrant \union {None}]
    BY <1>1, <2>1, <2>2
  <2>4. uses' \in [PublicKeys -> SUBSET Methods]
    BY <1>1, <1>2, <2>1
  <2>5. key_receipts' \in [Holders -> Seq(KeyReceipt)]
    <3>1. <<[op |-> "execute_trigger", pk |-> pk, proper |-> sane]>> \in Seq(KeyReceipt)
      BY <1>2 DEF KeyReceipt
    <3> QED  BY <1>1, <2>1, <3>1, SendAppends
  <2>6. Typed'
    BY <2>1, <2>3, <2>4, <2>5 DEF Typed, ProxyTypeOK, TypeOK
  <2>7. \A m \in Methods : GrantedFor(m)' =
          IF m = "execute_trigger" THEN GrantedFor(m) \union {pk} ELSE GrantedFor(m)
    <3>1. \A other \in PublicKeys : session_grants'[other] # None
            <=> other = pk \/ session_grants[other] # None
      BY <1>1, <2>1, <2>2, KeysAssumption
    <3> QED  BY <2>1, <3>1 DEF GrantedFor
  <2>8. Backed'
    BY <1>1, <1>2, <2>1, <2>7, EnrolKeepsBacked
  <2> QED  BY <2>6, <2>8
<1>4. ASSUME NEW pk \in PublicKeys, NEW trigger \in Triggers, fire_session(pk, trigger)
      PROVE  Typed' /\ Backed'
  <2> DEFINE grant == session_grants[pk]
             after == [grant EXCEPT !.fires = @ + 1]
  <2>1. /\ grant # None /\ grant.fires < grant.max_fire
        /\ session_grants' = [session_grants EXCEPT ![pk] = after]
        /\ UNCHANGED <<authorizer_id, armed, access_keys, key_receipts, now, refused, moved>>
        /\ UNCHANGED proxyVars
    BY <1>4 DEF fire_session, MayFire, Usable, BumpFireCount
  <2>2. after \in SessionGrant
    <3>1. grant \in SessionGrant
      BY <1>1, <2>1
    <3>2. grant.fires + 1 \in 0..MaxFires
      BY <2>1, <3>1, SessionBounds DEF SessionGrant
    <3> HIDE DEF grant
    <3> QED  BY <3>1, <3>2 DEF SessionGrant
  <2> HIDE DEF after
  <2>3. session_grants' \in [PublicKeys -> SessionGrant \union {None}]
    BY <1>1, <2>1, <2>2
  <2>4. Typed'
    BY <2>1, <2>3 DEF Typed, ProxyTypeOK, TypeOK, proxyVars
  <2>5. \A m \in Methods : GrantedFor(m)' = GrantedFor(m)
    <3>1. \A other \in PublicKeys : session_grants'[other] # None
            <=> session_grants[other] # None
      BY <1>1, <2>1, <2>2, KeysAssumption
    <3> QED  BY <2>1, <3>1 DEF GrantedFor, proxyVars
  <2>6. Backed'
    BY <2>1, <2>5, QuietKeepsBacked DEF Backed, AtHome, proxyVars
  <2> QED  BY <2>4, <2>6
<1>5. ASSUME NEW dropped \in SUBSET GrantedFor("execute_trigger"),
             NEW ops \in Seq(KeyReceipt), Send(ops),
             \A i \in DOMAIN ops : ops[i].op = "delete" /\ ops[i].pk \in dropped,
             \A pk \in dropped : \E i \in DOMAIN ops : ops[i].pk = pk,
             session_grants' = [pk \in PublicKeys |->
                                  IF pk \in dropped THEN None ELSE session_grants[pk]],
             UNCHANGED <<authorizer_id, armed, access_keys, now, refused, moved>>,
             UNCHANGED proxyVars
      PROVE  Typed' /\ Backed'
  <2>1. session_grants' \in [PublicKeys -> SessionGrant \union {None}]
    BY <1>1, <1>5
  <2>2. key_receipts' \in [Holders -> Seq(KeyReceipt)]
    BY <1>1, <1>5, SendAppends
  <2>3. Typed'
    BY <1>5, <2>1, <2>2 DEF Typed, ProxyTypeOK, TypeOK, proxyVars
  <2>4. \A m \in Methods : GrantedFor(m)' =
          IF m = "execute_trigger" THEN GrantedFor(m) \ dropped ELSE GrantedFor(m)
    BY <1>5 DEF GrantedFor, proxyVars
  <2>5. Backed'
    BY <1>1, <1>2, <1>5, <2>4, DropKeepsBacked DEF proxyVars
  <2> QED  BY <2>3, <2>5
<1>6. ASSUME NEW pk \in PublicKeys, revoke_session(pk), UNCHANGED proxyVars
      PROVE  Typed' /\ Backed'
  <2> DEFINE ops == <<[op |-> "delete", pk |-> pk, proper |-> TRUE]>>
  <2>1. /\ session_grants[pk] # None /\ Send(ops)
        /\ session_grants' = [session_grants EXCEPT ![pk] = None]
        /\ UNCHANGED <<authorizer_id, armed, access_keys, now, refused, moved>>
    BY <1>6 DEF revoke_session
  <2>2. {pk} \in SUBSET GrantedFor("execute_trigger")
    BY <2>1 DEF GrantedFor
  <2>3. session_grants' = [other \in PublicKeys |->
                             IF other \in {pk} THEN None ELSE session_grants[other]]
    BY <1>1, <2>1
  <2> HIDE DEF ops
  <2>4. /\ ops \in Seq(KeyReceipt)
        /\ \A i \in DOMAIN ops : ops[i].op = "delete" /\ ops[i].pk \in {pk}
        /\ \A other \in {pk} : \E i \in DOMAIN ops : ops[i].pk = other
    BY DeletionOf DEF ops
  <2> QED  BY <1>5, <1>6, <2>1, <2>2, <2>3, <2>4
<1>7. ASSUME NEW by_root \in Signers, revoke_expired_sessions(by_root), UNCHANGED proxyVars
      PROVE  Typed' /\ Backed'
  <2> DEFINE pks == SetToSeq(Pruned)
             ops == [i \in DOMAIN pks |->
                       [op |-> "delete", pk |-> pks[i], proper |-> by_root]]
  <2>1. /\ Send(ops)
        /\ session_grants' = [pk \in PublicKeys |->
                                IF pk \in Pruned THEN None ELSE session_grants[pk]]
        /\ UNCHANGED <<authorizer_id, armed, access_keys, now, refused, moved>>
    BY <1>7 DEF revoke_expired_sessions
  <2>2. Pruned \in SUBSET GrantedFor("execute_trigger") /\ Pruned \in SUBSET PublicKeys
    BY DEF GrantedFor, Pruned
  <2>3. by_root \in BOOLEAN
    BY <1>2
  <2>4. /\ ops \in Seq(KeyReceipt)
        /\ \A i \in DOMAIN ops : ops[i].op = "delete" /\ ops[i].pk \in Pruned
        /\ \A pk \in Pruned : \E i \in DOMAIN ops : ops[i].pk = pk
    BY <2>2, <2>3, DeletionsOf
  <2> HIDE DEF ops
  <2> QED  BY <1>5, <1>7, <2>1, <2>2, <2>4
<1>8. ASSUME NEW mode \in AuthorizerModes, set_authorizer(mode), UNCHANGED proxyVars
      PROVE  Typed' /\ Backed'
  <2>1. /\ authorizer_id' = mode /\ moved' = (moved \/ mode # authorizer_id)
        /\ UNCHANGED <<session_grants, armed, access_keys, key_receipts, now, refused>>
        /\ UNCHANGED proxyVars
    BY <1>8 DEF set_authorizer
  <2>2. mode \in Holders /\ moved' \in BOOLEAN
    BY <1>1, <2>1, ModesAssumption DEF Holders, TypeOK
  <2>3. Typed'
    BY <2>1, <2>2 DEF Typed, ProxyTypeOK, TypeOK, proxyVars
  <2>4. \A m \in Methods : GrantedFor(m)' = GrantedFor(m)
    BY <2>1 DEF GrantedFor, proxyVars
  <2>5. Backed'
    BY <2>1, <2>4, QuietKeepsBacked DEF proxyVars
  <2> QED  BY <2>3, <2>5
<1> QED  BY <1>3, <1>4, <1>6, <1>7, <1>8 DEF SessionNext

LEMMA ProxyKeepsBacked ==
  ASSUME Typed, Backed, layout = "current", ProxyNext
  PROVE  Typed' /\ Backed'
<1>1. /\ ProxyTypeOK /\ TypeOK
      /\ proxy_grants \in [PublicKeys -> ProxyGrant \union {None}]
      /\ purse \in [PublicKeys -> Int]
      /\ uses \in [PublicKeys -> SUBSET Methods]
  BY DEF Typed, ProxyTypeOK, TypeOK
<1>2. {"execute_trigger", "proxy_call"} = Methods /\ Signers \subseteq BOOLEAN
  BY DEF Methods, Signers
<1>3. ASSUME NEW pk \in PublicKeys, NEW grant \in ProxyOffers, NEW sane \in BOOLEAN,
             enroll_proxy_key(pk, grant, sane)
      PROVE  Typed' /\ Backed'
  <2>1. /\ proxy_grants' = [proxy_grants EXCEPT ![pk] = grant]
        /\ purse' = [purse EXCEPT ![pk] = @ + grant.toll * grant.max_call]
        /\ Send(<<[op |-> "proxy_call", pk |-> pk, proper |-> sane]>>)
        /\ uses' = [uses EXCEPT ![pk] = @ \union {"proxy_call"}]
        /\ UNCHANGED <<session_grants, authorizer_id, armed, access_keys, now, refused,
                       moved, layout>>
    BY <1>3 DEF enroll_proxy_key, UNCHANGED_BUT_PROXY
  <2>2. grant \in ProxyGrant
    BY OffersAssumption
  <2>3. proxy_grants' \in [PublicKeys -> ProxyGrant \union {None}]
    BY <1>1, <2>1, <2>2
  <2>4. purse' \in [PublicKeys -> Int]
    <3>1. grant.toll \in Nat /\ grant.max_call \in Nat
      BY <2>2, ProxyBounds DEF ProxyGrant
    <3>2. grant.toll * grant.max_call \in Int
      BY ONLY <3>1
    <3>3. purse[pk] + grant.toll * grant.max_call \in Int
      BY <1>1, <3>2
    <3> QED  BY <1>1, <2>1, <3>3
  <2>5. uses' \in [PublicKeys -> SUBSET Methods]
    BY <1>1, <1>2, <2>1
  <2>6. key_receipts' \in [Holders -> Seq(KeyReceipt)]
    <3>1. <<[op |-> "proxy_call", pk |-> pk, proper |-> sane]>> \in Seq(KeyReceipt)
      BY <1>2 DEF KeyReceipt
    <3> QED  BY <1>1, <2>1, <3>1, SendAppends
  <2>7. Typed'
    BY <2>1, <2>3, <2>4, <2>5, <2>6 DEF Typed, ProxyTypeOK, TypeOK
  <2>8. \A m \in Methods : GrantedFor(m)' =
          IF m = "proxy_call" THEN GrantedFor(m) \union {pk} ELSE GrantedFor(m)
    <3>1. \A other \in PublicKeys : proxy_grants'[other] # None
            <=> other = pk \/ proxy_grants[other] # None
      BY <1>1, <2>1, <2>2, KeysAssumption
    <3> QED  BY <1>2, <2>1, <3>1 DEF GrantedFor
  <2>9. Backed'
    BY <1>1, <1>2, <2>1, <2>8, EnrolKeepsBacked
  <2> QED  BY <2>7, <2>9
<1>4. ASSUME NEW pk \in PublicKeys, NEW target \in Targets, NEW method \in MethodNames,
             proxy_call(pk, target, method)
      PROVE  Typed' /\ Backed'
  <2> DEFINE grant == proxy_grants[pk]
             after == [grant EXCEPT !.calls = @ + 1]
  <2>1. /\ grant # None /\ grant.calls < grant.max_call
        /\ proxy_grants' = [proxy_grants EXCEPT ![pk] = after]
        /\ purse' = [purse EXCEPT ![pk] = @ - grant.toll]
        /\ UNCHANGED <<session_grants, authorizer_id, armed, access_keys, now, refused,
                       moved, layout, key_receipts, uses>>
    BY <1>4 DEF proxy_call, UNCHANGED_BUT_PROXY
  <2>2. grant \in ProxyGrant
    BY <1>1, <2>1
  <2>3. after \in ProxyGrant
    <3>1. grant.calls + 1 \in 0..MaxCalls
      BY <2>1, <2>2, ProxyBounds DEF ProxyGrant
    <3> HIDE DEF grant
    <3> QED  BY <2>2, <3>1 DEF ProxyGrant
  <2>4. purse[pk] - grant.toll \in Int
    BY <1>1, <2>2, ProxyBounds DEF ProxyGrant
  <2> HIDE DEF after
  <2>5. /\ proxy_grants' \in [PublicKeys -> ProxyGrant \union {None}]
        /\ purse' \in [PublicKeys -> Int]
    BY <1>1, <2>1, <2>3, <2>4
  <2>6. Typed'
    BY <2>1, <2>5 DEF Typed, ProxyTypeOK, TypeOK
  <2>7. \A m \in Methods : GrantedFor(m)' = GrantedFor(m)
    <3>1. \A other \in PublicKeys : proxy_grants'[other] # None
            <=> proxy_grants[other] # None
      BY <1>1, <2>1, <2>3, KeysAssumption
    <3> QED  BY <2>1, <3>1 DEF GrantedFor
  <2>8. Backed'
    BY <2>1, <2>7, QuietKeepsBacked DEF Backed, AtHome
  <2> QED  BY <2>6, <2>8
<1>5. ASSUME NEW dropped \in SUBSET GrantedFor("proxy_call"),
             NEW ops \in Seq(KeyReceipt), Send(ops),
             \A i \in DOMAIN ops : ops[i].op = "delete" /\ ops[i].pk \in dropped,
             \A pk \in dropped : \E i \in DOMAIN ops : ops[i].pk = pk,
             proxy_grants' = [pk \in PublicKeys |->
                                IF pk \in dropped THEN None ELSE proxy_grants[pk]],
             UNCHANGED <<session_grants, authorizer_id, armed, access_keys, now, refused,
                         moved, layout, purse, uses>>
      PROVE  Typed' /\ Backed'
  <2>1. proxy_grants' \in [PublicKeys -> ProxyGrant \union {None}]
    BY <1>1, <1>5
  <2>2. key_receipts' \in [Holders -> Seq(KeyReceipt)]
    BY <1>1, <1>5, SendAppends
  <2>3. Typed'
    BY <1>5, <2>1, <2>2 DEF Typed, ProxyTypeOK, TypeOK
  <2>4. \A m \in Methods : GrantedFor(m)' =
          IF m = "proxy_call" THEN GrantedFor(m) \ dropped ELSE GrantedFor(m)
    BY <1>2, <1>5 DEF GrantedFor
  <2>5. Backed'
    BY <1>1, <1>2, <1>5, <2>4, DropKeepsBacked
  <2> QED  BY <2>3, <2>5
<1>6. ASSUME NEW pk \in PublicKeys, revoke_proxy_key(pk)
      PROVE  Typed' /\ Backed'
  <2> DEFINE ops == <<[op |-> "delete", pk |-> pk, proper |-> TRUE]>>
  <2>1. /\ proxy_grants[pk] # None /\ Send(ops)
        /\ proxy_grants' = [proxy_grants EXCEPT ![pk] = None]
        /\ UNCHANGED <<session_grants, authorizer_id, armed, access_keys, now, refused,
                       moved, layout, purse, uses>>
    BY <1>6 DEF revoke_proxy_key, UNCHANGED_BUT_PROXY
  <2>2. {pk} \in SUBSET GrantedFor("proxy_call")
    BY <2>1 DEF GrantedFor
  <2>3. proxy_grants' = [other \in PublicKeys |->
                           IF other \in {pk} THEN None ELSE proxy_grants[other]]
    BY <1>1, <2>1
  <2> HIDE DEF ops
  <2>4. /\ ops \in Seq(KeyReceipt)
        /\ \A i \in DOMAIN ops : ops[i].op = "delete" /\ ops[i].pk \in {pk}
        /\ \A other \in {pk} : \E i \in DOMAIN ops : ops[i].pk = other
    BY DeletionOf DEF ops
  <2> QED  BY <1>5, <2>1, <2>2, <2>3, <2>4
<1>7. ASSUME NEW by_root \in Signers, revoke_expired_proxy_keys(by_root)
      PROVE  Typed' /\ Backed'
  <2> DEFINE pks == SetToSeq(SpentProxies)
             ops == [i \in DOMAIN pks |->
                       [op |-> "delete", pk |-> pks[i], proper |-> by_root]]
  <2>1. /\ Send(ops)
        /\ proxy_grants' = [pk \in PublicKeys |->
                              IF pk \in SpentProxies THEN None ELSE proxy_grants[pk]]
        /\ UNCHANGED <<session_grants, authorizer_id, armed, access_keys, now, refused,
                       moved, layout, purse, uses>>
    BY <1>7 DEF revoke_expired_proxy_keys, UNCHANGED_BUT_PROXY
  <2>2. SpentProxies \in SUBSET GrantedFor("proxy_call") /\ SpentProxies \in SUBSET PublicKeys
    BY DEF GrantedFor, SpentProxies
  <2>3. by_root \in BOOLEAN
    BY <1>2
  <2>4. /\ ops \in Seq(KeyReceipt)
        /\ \A i \in DOMAIN ops : ops[i].op = "delete" /\ ops[i].pk \in SpentProxies
        /\ \A pk \in SpentProxies : \E i \in DOMAIN ops : ops[i].pk = pk
    BY <2>2, <2>3, DeletionsOf
  <2> HIDE DEF ops
  <2> QED  BY <1>5, <2>1, <2>2, <2>4
<1> QED  BY <1>3, <1>4, <1>6, <1>7 DEF ProxyNext

LEMMA BackedNext == Typed /\ Backed /\ [KeysNext]_vars => Typed' /\ Backed'
<1> SUFFICES ASSUME Typed, Backed, [KeysNext]_vars
             PROVE  Typed' /\ Backed'
  OBVIOUS
<1>1. ProxyTypeOK /\ TypeOK
  BY DEF Typed, ProxyTypeOK
<1>2. CASE UNCHANGED vars
  <2>1. \A m \in Methods : GrantedFor(m)' = GrantedFor(m)
    BY <1>2 DEF GrantedFor, vars, sessionVars, proxyVars
  <2>2. Backed'
    BY <1>2, <2>1, QuietKeepsBacked DEF vars, sessionVars, proxyVars, Backed, AtHome
  <2>3. Typed'
    BY <1>2 DEF Typed, ProxyTypeOK, TypeOK, vars, sessionVars, proxyVars
  <2> QED  BY <2>2, <2>3
<1>3. CASE layout = "current" /\ (SessionNext \/ ProxyNext)
  BY <1>3, SessionKeepsBacked, ProxyKeepsBacked
<1>4. CASE migrate
  <2>1. /\ layout' = "current"
        /\ authorizer_id' = IF layout = "v4" THEN "self" ELSE authorizer_id
        /\ proxy_grants' = IF layout = "current" THEN proxy_grants
                           ELSE [pk \in PublicKeys |-> None]
        /\ UNCHANGED <<session_grants, armed, access_keys, key_receipts, now, refused,
                       moved, purse, uses>>
    BY <1>4 DEF migrate
  <2>2. authorizer_id' = authorizer_id
    BY <2>1 DEF Backed, AtHome
  <2>3. /\ proxy_grants' \in [PublicKeys -> ProxyGrant \union {None}]
        /\ \A pk \in PublicKeys : proxy_grants'[pk] = proxy_grants[pk]
    BY <1>1, <2>1 DEF Typed, ProxyTypeOK
  <2>4. Typed'
    BY <2>1, <2>2, <2>3 DEF Typed, ProxyTypeOK, TypeOK
  <2>5. \A m \in Methods : GrantedFor(m)' = GrantedFor(m)
    BY <2>1, <2>3 DEF GrantedFor
  <2>6. Backed'
    BY <2>1, <2>2, <2>5, QuietKeepsBacked
  <2> QED  BY <2>4, <2>6
<1>5. CASE AuthorizerNext /\ UNCHANGED proxyVars
  <2>1. /\ armed' \in BOOLEAN
        /\ UNCHANGED <<session_grants, authorizer_id, access_keys, key_receipts, now,
                       refused, moved>>
    BY <1>5 DEF AuthorizerNext, add_extension, remove_extension
  <2>2. Typed'
    BY <1>5, <2>1 DEF Typed, ProxyTypeOK, TypeOK, proxyVars
  <2>3. \A m \in Methods : GrantedFor(m)' = GrantedFor(m)
    BY <1>5, <2>1 DEF GrantedFor, proxyVars
  <2>4. Backed'
    BY <1>5, <2>1, <2>3, QuietKeepsBacked DEF Backed, AtHome, proxyVars
  <2> QED  BY <2>2, <2>4
<1>6. CASE Tick /\ UNCHANGED proxyVars
  <2>1. /\ now < MaxTime /\ now' = now + 1
        /\ UNCHANGED <<session_grants, authorizer_id, armed, access_keys, key_receipts,
                       refused, moved>>
    BY <1>6 DEF Tick
  <2>2. now' \in 0..MaxTime
    BY <1>1, <2>1, SessionBounds DEF TypeOK
  <2>3. Typed'
    BY <1>6, <2>1, <2>2 DEF Typed, ProxyTypeOK, TypeOK, proxyVars
  <2>4. \A m \in Methods : GrantedFor(m)' = GrantedFor(m)
    BY <1>6, <2>1 DEF GrantedFor, proxyVars
  <2>5. Backed'
    BY <1>6, <2>1, <2>4, QuietKeepsBacked DEF Backed, AtHome, proxyVars
  <2> QED  BY <2>3, <2>5
<1>7. ASSUME NEW holder \in Holders, KeyReceiptRuns(holder), UNCHANGED proxyVars
      PROVE  Typed' /\ Backed'
  <2>1. Backed'
    BY <1>1, <1>7, ReceiptKeepsBacked
  <2>2. UNCHANGED <<session_grants, authorizer_id, armed, now, moved>>
    BY <1>7 DEF KeyReceiptRuns
  <2>3. /\ key_receipts' \in [Holders -> Seq(KeyReceipt)]
        /\ access_keys' \in [Holders -> [PublicKeys -> Methods \union {None}]]
        /\ Head(key_receipts[holder]) \in KeyReceipt
    BY <1>1, <1>7, ReceiptEffect
  <2>4. refused' \subseteq PublicKeys
    <3>1. Head(key_receipts[holder]).pk \in PublicKeys
      BY <2>3 DEF KeyReceipt
    <3>2. refused' \in {refused, refused \union {Head(key_receipts[holder]).pk}}
      BY <1>7 DEF KeyReceiptRuns
    <3> QED  BY <1>1, <3>1, <3>2 DEF TypeOK
  <2>5. Typed'
    BY <1>7, <2>2, <2>3, <2>4 DEF Typed, ProxyTypeOK, TypeOK, proxyVars
  <2> QED  BY <2>1, <2>5
<1> QED  BY <1>2, <1>3, <1>4, <1>5, <1>6, <1>7 DEF KeysNext, RuntimeNext

LEMMA KeysBacked == Spec => [](Typed /\ Backed)
  BY TypedInit, BackedInit, BackedNext, PTL DEF Spec

\* The types hold for any keys, offers and bounds, through migration and with a
\* SetToSeq of however many grants are pruned.
THEOREM KeysTyped == Spec => []ProxyTypeOK
<1>1. Typed => ProxyTypeOK
  BY DEF Typed
<1> QED  BY <1>1, KeysBacked, PTL

\* With an empty queue a key stands exactly when it is on the account.
LEMMA StandingSettled ==
  ASSUME NEW h \in Holders, key_receipts[h] = <<>>, NEW pk, NEW method
  PROVE  Standing(h, pk, method) <=> access_keys[h][pk] = method
<1>1. Len(key_receipts[h]) = 0 /\ DOMAIN key_receipts[h] = {} /\ 0..0 = {0}
  OBVIOUS
<1> QED  BY <1>1 DEF Standing, Survives, OpAt, DeletedAfter

\* For any keys and grants: on an account that is its own authorizer throughout,
\* keys and grants of both kinds agree whenever no key receipt is on its way.
THEOREM SettledSafe == Spec => []SettledKeysMatchGrants
<1>1. Typed /\ Backed => SettledKeysMatchGrants
  <2> SUFFICES ASSUME Typed, Backed, authorizer_id = "self", ~moved,
                      key_receipts["self"] = <<>>,
                      NEW pk \in PublicKeys, NEW method \in Methods
               PROVE  /\ access_keys["self"][pk] = method => pk \in GrantedFor(method)
                      /\ pk \in GrantedFor(method) /\ uses[pk] = {method}
                           => access_keys["self"][pk] = method
    BY DEF SettledKeysMatchGrants
  <2>1. "self" \in Holders /\ "root" \in Holders /\ Holders = {"self", "root"}
    BY DEF Holders
  <2>2. access_keys["self"][pk] = method => pk \in GrantedFor(method)
    BY <2>1, StandingSettled DEF Backed, KeysAreGranted
  <2>3. ASSUME pk \in GrantedFor(method), uses[pk] = {method}
        PROVE  access_keys["self"][pk] = method
    <3>1. refused = {} /\ key_receipts["root"] = <<>> /\ access_keys["root"][pk] = None
      BY DEF Backed, AtHome
    <3>2. PICK h \in Holders : Standing(h, pk, method)
      BY <2>3, <3>1 DEF Backed, GrantsAreKept
    <3>3. access_keys[h][pk] = method
      BY <2>1, <3>1, <3>2, StandingSettled
    <3> QED  BY <2>1, <3>1, <3>3, KeysAssumption
  <2> QED  BY <2>2, <2>3
<1> QED  BY <1>1, KeysBacked, PTL

\* For any keys and grants: whenever no key receipt is on its way, every grant whose
\* key is used for one method only, and was never refused, has that key on one of
\* the two accounts, whatever became of the authorizer in between.
THEOREM GrantsBacked == Spec => []GrantHasKey
<1>1. Typed /\ Backed => GrantHasKey
  <2> SUFFICES ASSUME Backed, Settled, NEW method \in Methods,
                      NEW pk \in GrantedFor(method) \ refused, uses[pk] = {method}
               PROVE  \E h \in Holders : access_keys[h][pk] = method
    BY DEF GrantHasKey
  <2>1. PICK h \in Holders : Standing(h, pk, method)
    BY DEF Backed, GrantsAreKept
  <2>2. access_keys[h][pk] = method
    BY <2>1, StandingSettled DEF Settled
  <2> QED  BY <2>2
<1> QED  BY <1>1, KeysBacked, PTL

=============================================================================
