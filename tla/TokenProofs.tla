---------------------------- MODULE TokenProofs ----------------------------
(***************************************************************************)
(* Proofs about TokenRefresh, for any number of requests, managers, logins *)
(* and lost replies.                                                       *)
(***************************************************************************)
EXTENDS TokenRefresh, TLAPS

Held == {"post", "put", "denied", "failed"}

\* What a request has read is a pair from "look" on, what it was granted in "put".
LocalsInv ==
    \A w \in Workers :
        /\ pc[w] \in {"look", "use", "lock"} \cup Held => got[w] \in Pairs
        /\ pc[w] = "put" => reply[w] \in Pairs

\* The lock of a manager is held by the one request between refresh and unlock.
LockInv ==
    /\ \A w \in Workers : pc[w] \in Held => lock[man[w]] = w
    /\ \A m \in Mgrs : lock[m] # None => /\ pc[lock[m]] \in Held
                                         /\ man[lock[m]] = m
                                         /\ dead[m] = None

\* Pairs of later logins and of later issues have not been seen by anyone.
Known(p) == p.grant <= grants /\ p.access <= issued[p.grant]

KnownInv ==
    /\ Known(stored)
    /\ \A m \in Mgrs : doomed[m] \subseteq Pairs /\ \A p \in doomed[m] : Known(p)
    /\ \A w \in Workers : got[w] # None => Known(got[w])
    /\ \A w \in Workers : pc[w] = "put" => Known(reply[w])

\* A pair on its way to the vault is nowhere else.
Unseen(p) ==
    /\ p # stored
    /\ \A m \in Mgrs : p \notin doomed[m]
    /\ \A w \in Workers : p # got[w]

UnseenInv ==
    /\ \A w \in Workers : pc[w] = "put" => Unseen(reply[w])
    /\ \A v, w \in Workers :
           pc[v] = "put" /\ pc[w] = "put" /\ v # w => reply[v] # reply[w]

\* A rejected pair that is still in the vault is the dead one.
DoomedInv ==
    /\ \A m \in Mgrs : stored \in doomed[m] => stored = dead[m]
    /\ DeadIsNotPosted

\* No request has a manager that was not made yet.
ManInv == \A w \in Workers : man[w] <= current

\* With one manager and no loss the endpoint takes the token in the vault, unless
\* a request is about to replace it.
LiveTokens ==
    /\ NothingRevoked
    /\ \A g \in 1..MaxGrant : g > grants => valid[g] = 0
    /\ \A w \in Workers :
           /\ pc[w] # "denied"
           /\ pc[w] = "post" => got[w].refresh = valid[got[w].grant]
           /\ pc[w] = "put" => reply[w].refresh = valid[reply[w].grant]
    /\ \/ stored.refresh = valid[stored.grant]
       \/ \E w \in Workers : pc[w] = "put" /\ reply[w].grant = stored.grant

ValidInv == losses = 0 /\ current = 1 => LiveTokens

IInv ==
    /\ TypeOK /\ LocalsInv /\ LockInv /\ KnownInv /\ UnseenInv
    /\ DoomedInv /\ ManInv /\ ValidInv

LEMMA InitIInv == Init => IInv
<1> USE TokenAssumption, NoneAssumption DEF Mgrs
<1> SUFFICES ASSUME Init PROVE IInv
  OBVIOUS
<1>1. stored \in Pairs
  BY DEF Init, Pairs
<1>2. TypeOK
  BY <1>1 DEF Init, TypeOK, Revoked
<1>3. LocalsInv /\ LockInv
  BY DEF Init, LocalsInv, LockInv, Held
<1>4. KnownInv /\ UnseenInv
  BY DEF Init, KnownInv, Known, UnseenInv, Unseen
<1>5. DoomedInv /\ ManInv /\ ValidInv
  BY DEF Init, DoomedInv, DeadIsNotPosted, ManInv, ValidInv, LiveTokens,
         NothingRevoked, Revoked
<1> QED
  BY <1>2, <1>3, <1>4, <1>5 DEF IInv

\* What the endpoint does when it takes the token, and what it answers.
GrantEffect(w, rotate) ==
    /\ pc[w] = "post" /\ got[w].refresh = valid[got[w].grant]
    /\ valid' = [valid EXCEPT ![got[w].grant] = got[w].refresh + rotate]
    /\ issued' = [issued EXCEPT ![got[w].grant] = @ + 1]
    /\ UNCHANGED <<stored, grants, stale, current, lock, dead, man, got, forced, doomed>>
    /\ got[w] \in Pairs /\ Fresh(w, rotate) \in Pairs
    /\ Fresh(w, rotate).grant = got[w].grant
    /\ Fresh(w, rotate).access = issued[got[w].grant] + 1
    /\ Fresh(w, rotate).refresh = got[w].refresh + rotate
    /\ got[w].grant \in 1..MaxGrant /\ issued[got[w].grant] \in Nat
    /\ got[w].refresh + rotate \in Nat

LEMMA GrantFacts ==
    ASSUME TypeOK, LocalsInv, NEW w \in Workers, NEW rotate \in {0, 1}, Grant(w, rotate)
    PROVE  GrantEffect(w, rotate)
<1>1. got[w] \in Pairs
  BY DEF Grant, LocalsInv, Held
<1>2. got[w].grant \in 1..MaxGrant /\ issued[got[w].grant] \in Nat
  BY <1>1 DEF TypeOK, Pairs
<1>3. got[w].refresh + rotate \in Nat
  BY <1>1 DEF Pairs
<1> QED
  BY <1>1, <1>2, <1>3 DEF Grant, GrantEffect, Fresh, Pairs, vault

\* The types: whoever refreshes has read a pair, whoever saves was granted one.
LEMMA StepType ==
    ASSUME TypeOK, LocalsInv, [Next]_vars
    PROVE  TypeOK'
<1> USE TokenAssumption, NoneAssumption
<1>1. ASSUME NEW w \in Workers, Begin(w) PROVE TypeOK'
  BY <1>1 DEF Begin, Goto, vault, endpoint, TypeOK, LocalsInv, Held, Mgrs,
     Revoked
<1>2. ASSUME NEW w \in Workers, Get(w) PROVE TypeOK'
  BY <1>2 DEF Get, Goto, vault, endpoint, TypeOK, LocalsInv, Held, Mgrs,
     Revoked
<1>3. ASSUME NEW w \in Workers, Buried(w) PROVE TypeOK'
  BY <1>3 DEF Buried, Leave, Goto, vault, endpoint, TypeOK, LocalsInv, Held,
     Mgrs, Revoked
<1>4. ASSUME NEW w \in Workers, Judge(w) PROVE TypeOK'
  BY <1>4 DEF Judge, Goto, worker, vault, endpoint, TypeOK, LocalsInv, Held,
     Mgrs, Revoked
<1>5. ASSUME NEW w \in Workers, Use(w) PROVE TypeOK'
  BY <1>5 DEF Use, Leave, Goto, vault, endpoint, TypeOK, LocalsInv, Held,
     Mgrs, Revoked
<1>6. ASSUME NEW w \in Workers, Rejected(w) PROVE TypeOK'
  BY <1>6 DEF Rejected, Goto, vault, endpoint, TypeOK, LocalsInv, Held, Mgrs,
     Revoked
<1>7. ASSUME NEW w \in Workers, Reuse(w) PROVE TypeOK'
  BY <1>7 DEF Reuse, Goto, vault, endpoint, TypeOK, LocalsInv, Held, Mgrs,
     Revoked
<1>8. ASSUME NEW w \in Workers, StillDead(w) PROVE TypeOK'
  BY <1>8 DEF StillDead, Leave, Goto, vault, endpoint, TypeOK, LocalsInv,
     Held, Mgrs, Revoked
<1>9. ASSUME NEW w \in Workers, Refresh(w) PROVE TypeOK'
  BY <1>9 DEF Refresh, Goto, Free, vault, endpoint, TypeOK, LocalsInv, Held,
     Mgrs, Revoked
<1>10. ASSUME NEW w \in Workers, NEW rotate \in {0, 1}, Granted(w, rotate)
      PROVE  TypeOK'
  <2>1. GrantEffect(w, rotate)
    BY <1>10, GrantFacts DEF Granted
  <2>2. /\ valid' \in [1..MaxGrant -> Nat \cup {Revoked}]
        /\ issued' \in [1..MaxGrant -> Nat]
    BY <2>1 DEF GrantEffect, TypeOK, Revoked
  <2>3. reply' \in [Workers -> Pairs \cup {None}]
    BY <2>1, <1>10 DEF GrantEffect, Granted, TypeOK
  <2>4. /\ pc' \in [Workers -> {"idle", "get", "look", "use", "lock", "post", "put",
                                "denied", "failed"}]
        /\ losses' \in 0..MaxLoss
    BY <1>10 DEF Granted, Goto, TypeOK
  <2> QED
    BY <2>1, <2>2, <2>3, <2>4 DEF GrantEffect, TypeOK
<1>11. ASSUME NEW w \in Workers, NEW rotate \in {0, 1}, GrantLost(w, rotate)
      PROVE  TypeOK'
  <2>1. GrantEffect(w, rotate)
    BY <1>11, GrantFacts DEF GrantLost
  <2>2. /\ valid' \in [1..MaxGrant -> Nat \cup {Revoked}]
        /\ issued' \in [1..MaxGrant -> Nat]
    BY <2>1 DEF GrantEffect, TypeOK, Revoked
  <2>3. reply' \in [Workers -> Pairs \cup {None}]
    BY <2>1, <1>11 DEF GrantEffect, GrantLost, TypeOK
  <2>4. /\ pc' \in [Workers -> {"idle", "get", "look", "use", "lock", "post", "put",
                                "denied", "failed"}]
        /\ losses' \in 0..MaxLoss
    BY <1>11 DEF GrantLost, Goto, TypeOK
  <2> QED
    BY <2>1, <2>2, <2>3, <2>4 DEF GrantEffect, TypeOK
<1>12. ASSUME NEW w \in Workers, Deny(w) PROVE TypeOK'
  BY <1>12 DEF Deny, Goto, worker, vault, TypeOK, LocalsInv, Held, Mgrs,
     Revoked
<1>13. ASSUME NEW w \in Workers, PostFails(w) PROVE TypeOK'
  BY <1>13 DEF PostFails, Goto, worker, vault, endpoint, TypeOK, LocalsInv,
     Held, Mgrs, Revoked
<1>14. ASSUME NEW w \in Workers, Bury(w) PROVE TypeOK'
  BY <1>14 DEF Bury, Unlock, Leave, Goto, vault, endpoint, TypeOK, LocalsInv,
     Held, Mgrs, Revoked
<1>15. ASSUME NEW w \in Workers, GiveUp(w) PROVE TypeOK'
  BY <1>15 DEF GiveUp, Unlock, Leave, Goto, vault, endpoint, TypeOK,
     LocalsInv, Held, Mgrs, Revoked
<1>16. ASSUME NEW w \in Workers, Put(w) PROVE TypeOK'
  BY <1>16 DEF Put, Unlock, Goto, endpoint, TypeOK, LocalsInv, Held, Mgrs,
     Revoked
<1>17. ASSUME NEW w \in Workers, PutFails(w) PROVE TypeOK'
  BY <1>17 DEF PutFails, Unlock, Leave, Goto, vault, endpoint, TypeOK,
     LocalsInv, Held, Mgrs, Revoked
<1>18. CASE Expire
  BY <1>18 DEF Expire, vault, endpoint, worker, TypeOK, LocalsInv, Held, Mgrs,
     Revoked
<1>19. CASE Connect
  <2>1. stored' \in Pairs /\ grants' \in 1..MaxGrant
    BY <1>19 DEF Connect, TypeOK, Pairs
  <2> QED
    BY <2>1, <1>19 DEF Connect, endpoint, worker, TypeOK, LocalsInv, Held, Mgrs, Revoked
<1>20. CASE Reload
  BY <1>20 DEF Reload, vault, endpoint, worker, TypeOK, LocalsInv, Held, Mgrs,
     Revoked
<1>21. CASE UNCHANGED vars
  BY <1>21 DEF vars, vault, endpoint, worker, TypeOK, LocalsInv, Held, Mgrs,
     Revoked
<1> QED
  BY <1>1, <1>2, <1>3, <1>4, <1>5, <1>6, <1>7, <1>8, <1>9, <1>10, <1>11,
     <1>12, <1>13, <1>14, <1>15, <1>16, <1>17, <1>18, <1>19, <1>20, <1>21 DEF
     Next, Step, Call

\* A pair is read before it is used.
LEMMA StepLocals ==
    ASSUME TypeOK, LocalsInv, [Next]_vars
    PROVE  LocalsInv'
<1> USE TokenAssumption, NoneAssumption
<1>1. ASSUME NEW w \in Workers, Begin(w) PROVE LocalsInv'
  BY <1>1 DEF Begin, Goto, vault, endpoint, TypeOK, LocalsInv, Held, Mgrs
<1>2. ASSUME NEW w \in Workers, Get(w) PROVE LocalsInv'
  BY <1>2 DEF Get, Goto, vault, endpoint, TypeOK, LocalsInv, Held, Mgrs
<1>3. ASSUME NEW w \in Workers, Buried(w) PROVE LocalsInv'
  BY <1>3 DEF Buried, Leave, Goto, vault, endpoint, TypeOK, LocalsInv, Held,
     Mgrs
<1>4. ASSUME NEW w \in Workers, Judge(w) PROVE LocalsInv'
  BY <1>4 DEF Judge, Goto, worker, vault, endpoint, TypeOK, LocalsInv, Held,
     Mgrs
<1>5. ASSUME NEW w \in Workers, Use(w) PROVE LocalsInv'
  BY <1>5 DEF Use, Leave, Goto, vault, endpoint, TypeOK, LocalsInv, Held, Mgrs
<1>6. ASSUME NEW w \in Workers, Rejected(w) PROVE LocalsInv'
  BY <1>6 DEF Rejected, Goto, vault, endpoint, TypeOK, LocalsInv, Held, Mgrs
<1>7. ASSUME NEW w \in Workers, Reuse(w) PROVE LocalsInv'
  BY <1>7 DEF Reuse, Goto, vault, endpoint, TypeOK, LocalsInv, Held, Mgrs
<1>8. ASSUME NEW w \in Workers, StillDead(w) PROVE LocalsInv'
  BY <1>8 DEF StillDead, Leave, Goto, vault, endpoint, TypeOK, LocalsInv,
     Held, Mgrs
<1>9. ASSUME NEW w \in Workers, Refresh(w) PROVE LocalsInv'
  BY <1>9 DEF Refresh, Goto, Free, vault, endpoint, TypeOK, LocalsInv, Held,
     Mgrs
<1>10. ASSUME NEW w \in Workers, NEW rotate \in {0, 1}, Granted(w, rotate)
      PROVE  LocalsInv'
  <2>1. GrantEffect(w, rotate)
    BY <1>10, GrantFacts DEF Granted
  <2> QED
    BY <2>1, <1>10 DEF GrantEffect, Granted, Goto, TypeOK, LocalsInv, Held
<1>11. ASSUME NEW w \in Workers, NEW rotate \in {0, 1}, GrantLost(w, rotate)
      PROVE  LocalsInv'
  <2>1. GrantEffect(w, rotate)
    BY <1>11, GrantFacts DEF GrantLost
  <2> QED
    BY <2>1, <1>11 DEF GrantEffect, GrantLost, Goto, TypeOK, LocalsInv, Held
<1>12. ASSUME NEW w \in Workers, Deny(w) PROVE LocalsInv'
  BY <1>12 DEF Deny, Goto, worker, vault, TypeOK, LocalsInv, Held, Mgrs
<1>13. ASSUME NEW w \in Workers, PostFails(w) PROVE LocalsInv'
  BY <1>13 DEF PostFails, Goto, worker, vault, endpoint, TypeOK, LocalsInv,
     Held, Mgrs
<1>14. ASSUME NEW w \in Workers, Bury(w) PROVE LocalsInv'
  BY <1>14 DEF Bury, Unlock, Leave, Goto, vault, endpoint, TypeOK, LocalsInv,
     Held, Mgrs
<1>15. ASSUME NEW w \in Workers, GiveUp(w) PROVE LocalsInv'
  BY <1>15 DEF GiveUp, Unlock, Leave, Goto, vault, endpoint, TypeOK,
     LocalsInv, Held, Mgrs
<1>16. ASSUME NEW w \in Workers, Put(w) PROVE LocalsInv'
  BY <1>16 DEF Put, Unlock, Goto, endpoint, TypeOK, LocalsInv, Held, Mgrs
<1>17. ASSUME NEW w \in Workers, PutFails(w) PROVE LocalsInv'
  BY <1>17 DEF PutFails, Unlock, Leave, Goto, vault, endpoint, TypeOK,
     LocalsInv, Held, Mgrs
<1>18. CASE Expire
  BY <1>18 DEF Expire, vault, endpoint, worker, TypeOK, LocalsInv, Held, Mgrs
<1>19. CASE Connect
  BY <1>19 DEF Connect, endpoint, worker, TypeOK, LocalsInv, Held, Mgrs
<1>20. CASE Reload
  BY <1>20 DEF Reload, vault, endpoint, worker, TypeOK, LocalsInv, Held, Mgrs
<1>21. CASE UNCHANGED vars
  BY <1>21 DEF vars, vault, endpoint, worker, TypeOK, LocalsInv, Held, Mgrs
<1> QED
  BY <1>1, <1>2, <1>3, <1>4, <1>5, <1>6, <1>7, <1>8, <1>9, <1>10, <1>11,
     <1>12, <1>13, <1>14, <1>15, <1>16, <1>17, <1>18, <1>19, <1>20, <1>21 DEF
     Next, Step, Call

\* One request holds the lock, from the refresh to the unlock.
LEMMA StepLock ==
    ASSUME TypeOK, LocalsInv, LockInv, [Next]_vars
    PROVE  LockInv'
<1> USE TokenAssumption, NoneAssumption
<1>1. ASSUME NEW w \in Workers, Begin(w) PROVE LockInv'
  BY <1>1 DEF Begin, Goto, vault, endpoint, TypeOK, LockInv, Held, Mgrs
<1>2. ASSUME NEW w \in Workers, Get(w) PROVE LockInv'
  BY <1>2 DEF Get, Goto, vault, endpoint, TypeOK, LockInv, Held, Mgrs
<1>3. ASSUME NEW w \in Workers, Buried(w) PROVE LockInv'
  BY <1>3 DEF Buried, Leave, Goto, vault, endpoint, TypeOK, LockInv, Held,
     Mgrs
<1>4. ASSUME NEW w \in Workers, Judge(w) PROVE LockInv'
  BY <1>4 DEF Judge, Goto, worker, vault, endpoint, TypeOK, LockInv, Held,
     Mgrs
<1>5. ASSUME NEW w \in Workers, Use(w) PROVE LockInv'
  BY <1>5 DEF Use, Leave, Goto, vault, endpoint, TypeOK, LockInv, Held, Mgrs
<1>6. ASSUME NEW w \in Workers, Rejected(w) PROVE LockInv'
  BY <1>6 DEF Rejected, Goto, vault, endpoint, TypeOK, LockInv, Held, Mgrs
<1>7. ASSUME NEW w \in Workers, Reuse(w) PROVE LockInv'
  BY <1>7 DEF Reuse, Goto, vault, endpoint, TypeOK, LockInv, Held, Mgrs
<1>8. ASSUME NEW w \in Workers, StillDead(w) PROVE LockInv'
  BY <1>8 DEF StillDead, Leave, Goto, vault, endpoint, TypeOK, LockInv, Held,
     Mgrs
<1>9. ASSUME NEW w \in Workers, Refresh(w) PROVE LockInv'
  BY <1>9 DEF Refresh, Goto, Free, vault, endpoint, TypeOK, LockInv, Held,
     Mgrs
<1>10. ASSUME NEW w \in Workers, NEW rotate \in {0, 1}, Granted(w, rotate)
      PROVE  LockInv'
  BY <1>10 DEF Granted, Grant, Fresh, Goto, vault, TypeOK, LockInv, Held, Mgrs
<1>11. ASSUME NEW w \in Workers, NEW rotate \in {0, 1}, GrantLost(w, rotate)
      PROVE  LockInv'
  BY <1>11 DEF GrantLost, Grant, Goto, vault, TypeOK, LockInv, Held, Mgrs
<1>12. ASSUME NEW w \in Workers, Deny(w) PROVE LockInv'
  BY <1>12 DEF Deny, Goto, worker, vault, TypeOK, LockInv, Held, Mgrs
<1>13. ASSUME NEW w \in Workers, PostFails(w) PROVE LockInv'
  BY <1>13 DEF PostFails, Goto, worker, vault, endpoint, TypeOK, LockInv,
     Held, Mgrs
<1>14. ASSUME NEW w \in Workers, Bury(w) PROVE LockInv'
  BY <1>14 DEF Bury, Unlock, Leave, Goto, vault, endpoint, TypeOK, LockInv,
     Held, Mgrs
<1>15. ASSUME NEW w \in Workers, GiveUp(w) PROVE LockInv'
  BY <1>15 DEF GiveUp, Unlock, Leave, Goto, vault, endpoint, TypeOK, LockInv,
     Held, Mgrs
<1>16. ASSUME NEW w \in Workers, Put(w) PROVE LockInv'
  BY <1>16 DEF Put, Unlock, Goto, endpoint, TypeOK, LockInv, Held, Mgrs
<1>17. ASSUME NEW w \in Workers, PutFails(w) PROVE LockInv'
  BY <1>17 DEF PutFails, Unlock, Leave, Goto, vault, endpoint, TypeOK,
     LockInv, Held, Mgrs
<1>18. CASE Expire
  BY <1>18 DEF Expire, vault, endpoint, worker, TypeOK, LockInv, Held, Mgrs
<1>19. CASE Connect
  BY <1>19 DEF Connect, endpoint, worker, TypeOK, LockInv, Held, Mgrs
<1>20. CASE Reload
  BY <1>20 DEF Reload, vault, endpoint, worker, TypeOK, LockInv, Held, Mgrs
<1>21. CASE UNCHANGED vars
  BY <1>21 DEF vars, vault, endpoint, worker, TypeOK, LockInv, Held, Mgrs
<1> QED
  BY <1>1, <1>2, <1>3, <1>4, <1>5, <1>6, <1>7, <1>8, <1>9, <1>10, <1>11,
     <1>12, <1>13, <1>14, <1>15, <1>16, <1>17, <1>18, <1>19, <1>20, <1>21 DEF
     Next, Step, Call

\* Issues and logins only grow.
LEMMA StepKnown ==
    ASSUME TypeOK, LocalsInv, KnownInv, [Next]_vars
    PROVE  KnownInv'
<1> USE TokenAssumption, NoneAssumption
<1>1. ASSUME NEW w \in Workers, Begin(w) PROVE KnownInv'
  BY <1>1 DEF Begin, Goto, vault, endpoint, TypeOK, LocalsInv, KnownInv,
     Known, Held, Mgrs, Pairs
<1>2. ASSUME NEW w \in Workers, Get(w) PROVE KnownInv'
  BY <1>2 DEF Get, Goto, vault, endpoint, TypeOK, LocalsInv, KnownInv, Known,
     Held, Mgrs, Pairs
<1>3. ASSUME NEW w \in Workers, Buried(w) PROVE KnownInv'
  BY <1>3 DEF Buried, Leave, Goto, vault, endpoint, TypeOK, LocalsInv,
     KnownInv, Known, Held, Mgrs, Pairs
<1>4. ASSUME NEW w \in Workers, Judge(w) PROVE KnownInv'
  BY <1>4 DEF Judge, Goto, worker, vault, endpoint, TypeOK, LocalsInv,
     KnownInv, Known, Held, Mgrs, Pairs
<1>5. ASSUME NEW w \in Workers, Use(w) PROVE KnownInv'
  BY <1>5 DEF Use, Leave, Goto, vault, endpoint, TypeOK, LocalsInv, KnownInv,
     Known, Held, Mgrs, Pairs
<1>6. ASSUME NEW w \in Workers, Rejected(w) PROVE KnownInv'
  BY <1>6 DEF Rejected, Goto, vault, endpoint, TypeOK, LocalsInv, KnownInv,
     Known, Held, Mgrs, Pairs
<1>7. ASSUME NEW w \in Workers, Reuse(w) PROVE KnownInv'
  BY <1>7 DEF Reuse, Goto, vault, endpoint, TypeOK, LocalsInv, KnownInv,
     Known, Held, Mgrs, Pairs
<1>8. ASSUME NEW w \in Workers, StillDead(w) PROVE KnownInv'
  BY <1>8 DEF StillDead, Leave, Goto, vault, endpoint, TypeOK, LocalsInv,
     KnownInv, Known, Held, Mgrs, Pairs
<1>9. ASSUME NEW w \in Workers, Refresh(w) PROVE KnownInv'
  BY <1>9 DEF Refresh, Goto, Free, vault, endpoint, TypeOK, LocalsInv,
     KnownInv, Known, Held, Mgrs, Pairs
<1>10. ASSUME NEW w \in Workers, NEW rotate \in {0, 1}, Granted(w, rotate)
      PROVE  KnownInv'
  <2>1. GrantEffect(w, rotate)
    BY <1>10, GrantFacts DEF Granted
  <2>2. \A p \in Pairs : Known(p) => Known(p)'
    BY <2>1 DEF GrantEffect, Known, TypeOK, Pairs
  <2>3. Known(got[w])
    BY <2>1 DEF GrantEffect, KnownInv
  <2>4. \A v \in Workers : (pc[v] = "put")' => Known(reply[v])'
    <3> SUFFICES ASSUME NEW v \in Workers, pc'[v] = "put" PROVE Known(reply[v])'
      OBVIOUS
    <3>1. CASE v # w
      <4>1. pc[v] = "put" /\ reply'[v] = reply[v]
        BY <3>1, <1>10 DEF Granted, Goto, TypeOK
      <4>2. reply[v] \in Pairs /\ Known(reply[v])
        BY <4>1 DEF KnownInv, LocalsInv
      <4> QED
        BY <4>1, <4>2, <2>2 DEF Known
    <3>2. CASE v = w
      <4>1. reply'[v] = Fresh(w, rotate)
        BY <3>2, <1>10 DEF Granted, TypeOK
      <4> QED
        BY <4>1, <2>1, <2>3 DEF GrantEffect, Known, TypeOK
    <3> QED
      BY <3>1, <3>2
  <2>5. Known(stored)' /\ \A v \in Workers : (got[v] # None)' => Known(got[v])'
    BY <2>1, <2>2 DEF GrantEffect, TypeOK, KnownInv, Known
  <2>6. \A m \in Mgrs : doomed'[m] \subseteq Pairs /\ \A p \in doomed'[m] : Known(p)'
    BY <2>1, <2>2 DEF GrantEffect, TypeOK, KnownInv
  <2> QED
    BY <2>4, <2>5, <2>6 DEF KnownInv
<1>11. ASSUME NEW w \in Workers, NEW rotate \in {0, 1}, GrantLost(w, rotate)
      PROVE  KnownInv'
  <2>1. GrantEffect(w, rotate)
    BY <1>11, GrantFacts DEF GrantLost
  <2>2. \A p \in Pairs : Known(p) => Known(p)'
    BY <2>1 DEF GrantEffect, Known, TypeOK, Pairs
  <2>3. Known(got[w])
    BY <2>1 DEF GrantEffect, KnownInv
  <2>4. \A v \in Workers : (pc[v] = "put")' => Known(reply[v])'
    <3> SUFFICES ASSUME NEW v \in Workers, pc'[v] = "put" PROVE Known(reply[v])'
      OBVIOUS
    <3>1. CASE v # w
      <4>1. pc[v] = "put" /\ reply'[v] = reply[v]
        BY <3>1, <1>11 DEF GrantLost, Goto, TypeOK
      <4>2. reply[v] \in Pairs /\ Known(reply[v])
        BY <4>1 DEF KnownInv, LocalsInv
      <4> QED
        BY <4>1, <4>2, <2>2 DEF Known
    <3>2. CASE v = w
      BY <3>2, <1>11 DEF GrantLost, Goto, TypeOK
    <3> QED
      BY <3>1, <3>2
  <2>5. Known(stored)' /\ \A v \in Workers : (got[v] # None)' => Known(got[v])'
    BY <2>1, <2>2 DEF GrantEffect, TypeOK, KnownInv, Known
  <2>6. \A m \in Mgrs : doomed'[m] \subseteq Pairs /\ \A p \in doomed'[m] : Known(p)'
    BY <2>1, <2>2 DEF GrantEffect, TypeOK, KnownInv
  <2> QED
    BY <2>4, <2>5, <2>6 DEF KnownInv
<1>12. ASSUME NEW w \in Workers, Deny(w) PROVE KnownInv'
  BY <1>12 DEF Deny, Goto, worker, vault, TypeOK, LocalsInv, KnownInv, Known,
     Held, Mgrs, Pairs
<1>13. ASSUME NEW w \in Workers, PostFails(w) PROVE KnownInv'
  BY <1>13 DEF PostFails, Goto, worker, vault, endpoint, TypeOK, LocalsInv,
     KnownInv, Known, Held, Mgrs, Pairs
<1>14. ASSUME NEW w \in Workers, Bury(w) PROVE KnownInv'
  <2>1. got[w] \in Pairs /\ Known(got[w])
    BY <1>14 DEF Bury, LocalsInv, Held, KnownInv
  <2>2. \A m \in Mgrs : doomed'[m] \subseteq doomed[m] \cup {got[w]}
    BY <1>14 DEF Bury, TypeOK
  <2>3. \A p : Known(p)' = Known(p)
    BY <1>14 DEF Bury, vault, endpoint, Known
  <2>4. \A m \in Mgrs : doomed'[m] \subseteq Pairs /\ \A p \in doomed'[m] : Known(p)'
    BY <2>1, <2>2, <2>3 DEF KnownInv
  <2>5. \A v \in Workers : pc'[v] = "put" => pc[v] = "put" /\ reply'[v] = reply[v]
    BY <1>14 DEF Bury, Leave, Goto, TypeOK
  <2>6. stored' = stored /\ \A v \in Workers : got'[v] = got[v] \/ got'[v] = None
    BY <1>14 DEF Bury, Leave, vault, TypeOK
  <2> QED
    BY <2>3, <2>4, <2>5, <2>6 DEF KnownInv, Known
<1>15. ASSUME NEW w \in Workers, GiveUp(w) PROVE KnownInv'
  BY <1>15 DEF GiveUp, Unlock, Leave, Goto, vault, endpoint, TypeOK,
     LocalsInv, KnownInv, Known, Held, Mgrs, Pairs
<1>16. ASSUME NEW w \in Workers, Put(w) PROVE KnownInv'
  BY <1>16 DEF Put, Unlock, Goto, endpoint, TypeOK, LocalsInv, KnownInv,
     Known, Held, Mgrs, Pairs
<1>17. ASSUME NEW w \in Workers, PutFails(w) PROVE KnownInv'
  BY <1>17 DEF PutFails, Unlock, Leave, Goto, vault, endpoint, TypeOK,
     LocalsInv, KnownInv, Known, Held, Mgrs, Pairs
<1>18. CASE Expire
  BY <1>18 DEF Expire, vault, endpoint, worker, TypeOK, LocalsInv, KnownInv,
     Known, Held, Mgrs, Pairs
<1>19. CASE Connect
  <2>1. grants' = grants + 1 /\ stored'.grant = grants + 1 /\ stored'.access = 0
    BY <1>19 DEF Connect
  <2>2. \A p \in Pairs : Known(p) => Known(p)'
    BY <1>19 DEF Connect, endpoint, Known, TypeOK, Pairs
  <2>3. Known(stored)'
    BY <2>1, <1>19 DEF Connect, endpoint, Known, TypeOK
  <2> QED
    BY <2>2, <2>3, <1>19 DEF Connect, endpoint, worker, KnownInv, LocalsInv, TypeOK
<1>20. CASE Reload
  BY <1>20 DEF Reload, vault, endpoint, worker, TypeOK, LocalsInv, KnownInv,
     Known, Held, Mgrs, Pairs
<1>21. CASE UNCHANGED vars
  BY <1>21 DEF vars, vault, endpoint, worker, TypeOK, LocalsInv, KnownInv,
     Known, Held, Mgrs, Pairs
<1> QED
  BY <1>1, <1>2, <1>3, <1>4, <1>5, <1>6, <1>7, <1>8, <1>9, <1>10, <1>11,
     <1>12, <1>13, <1>14, <1>15, <1>16, <1>17, <1>18, <1>19, <1>20, <1>21 DEF
     Next, Step, Call

\* A new access token is one that nobody has seen.
LEMMA StepUnseen ==
    ASSUME TypeOK, LocalsInv, KnownInv, UnseenInv, [Next]_vars
    PROVE  UnseenInv'
<1> USE TokenAssumption, NoneAssumption
<1>1. ASSUME NEW w \in Workers, Begin(w) PROVE UnseenInv'
  BY <1>1 DEF Begin, Goto, vault, endpoint, TypeOK, LocalsInv, KnownInv,
     Known, UnseenInv, Unseen, Held, Mgrs
<1>2. ASSUME NEW w \in Workers, Get(w) PROVE UnseenInv'
  BY <1>2 DEF Get, Goto, vault, endpoint, TypeOK, LocalsInv, KnownInv, Known,
     UnseenInv, Unseen, Held, Mgrs
<1>3. ASSUME NEW w \in Workers, Buried(w) PROVE UnseenInv'
  BY <1>3 DEF Buried, Leave, Goto, vault, endpoint, TypeOK, LocalsInv,
     KnownInv, Known, UnseenInv, Unseen, Held, Mgrs
<1>4. ASSUME NEW w \in Workers, Judge(w) PROVE UnseenInv'
  BY <1>4 DEF Judge, Goto, worker, vault, endpoint, TypeOK, LocalsInv,
     KnownInv, Known, UnseenInv, Unseen, Held, Mgrs
<1>5. ASSUME NEW w \in Workers, Use(w) PROVE UnseenInv'
  BY <1>5 DEF Use, Leave, Goto, vault, endpoint, TypeOK, LocalsInv, KnownInv,
     Known, UnseenInv, Unseen, Held, Mgrs
<1>6. ASSUME NEW w \in Workers, Rejected(w) PROVE UnseenInv'
  BY <1>6 DEF Rejected, Goto, vault, endpoint, TypeOK, LocalsInv, KnownInv,
     Known, UnseenInv, Unseen, Held, Mgrs
<1>7. ASSUME NEW w \in Workers, Reuse(w) PROVE UnseenInv'
  BY <1>7 DEF Reuse, Goto, vault, endpoint, TypeOK, LocalsInv, KnownInv,
     Known, UnseenInv, Unseen, Held, Mgrs
<1>8. ASSUME NEW w \in Workers, StillDead(w) PROVE UnseenInv'
  BY <1>8 DEF StillDead, Leave, Goto, vault, endpoint, TypeOK, LocalsInv,
     KnownInv, Known, UnseenInv, Unseen, Held, Mgrs
<1>9. ASSUME NEW w \in Workers, Refresh(w) PROVE UnseenInv'
  BY <1>9 DEF Refresh, Goto, Free, vault, endpoint, TypeOK, LocalsInv,
     KnownInv, Known, UnseenInv, Unseen, Held, Mgrs
<1>10. ASSUME NEW w \in Workers, NEW rotate \in {0, 1}, Granted(w, rotate)
      PROVE  UnseenInv'
  <2>1. GrantEffect(w, rotate)
    BY <1>10, GrantFacts DEF Granted
  <2>2. PICK f : f = Fresh(w, rotate)
    OBVIOUS
  <2>3. \A p : Known(p) => p # f
    BY <2>1, <2>2 DEF GrantEffect, Known
  <2>4. Unseen(f)'
    <3>1. f # stored' /\ \A m \in Mgrs : f \notin doomed'[m]
      BY <2>1, <2>3 DEF GrantEffect, KnownInv
    <3>2. f # None
      BY <2>1, <2>2, NoneAssumption DEF GrantEffect
    <3>3. \A v \in Workers : f # got'[v]
      BY <3>2, <2>1, <2>3 DEF GrantEffect, KnownInv
    <3> QED
      BY <3>1, <3>3 DEF Unseen
  <2>5. \A p : Unseen(p) => Unseen(p)'
    BY <2>1 DEF GrantEffect, Unseen
  <2>6. \A v \in Workers : pc[v] = "put" => Unseen(reply[v]) /\ reply[v] # f
    BY <2>3 DEF UnseenInv, KnownInv
  <2>7. \A v \in Workers : pc'[v] = "put" =>
            \/ v = w /\ reply'[v] = f
            \/ v # w /\ pc[v] = "put" /\ reply'[v] = reply[v]
    BY <2>2, <1>10 DEF Granted, Goto, TypeOK
  <2>8. \A v \in Workers : (pc[v] = "put")' => Unseen(reply[v])'
    BY <2>4, <2>5, <2>6, <2>7 DEF Unseen
  <2>9. \A v, u \in Workers :
             (pc[v] = "put" /\ pc[u] = "put" /\ v # u)' => reply'[v] # reply'[u]
    BY <2>6, <2>7 DEF UnseenInv
  <2> QED
    BY <2>8, <2>9 DEF UnseenInv
<1>11. ASSUME NEW w \in Workers, NEW rotate \in {0, 1}, GrantLost(w, rotate)
      PROVE  UnseenInv'
  BY <1>11 DEF GrantLost, Grant, Goto, vault, TypeOK, LocalsInv, KnownInv,
     Known, UnseenInv, Unseen, Held, Mgrs
<1>12. ASSUME NEW w \in Workers, Deny(w) PROVE UnseenInv'
  BY <1>12 DEF Deny, Goto, worker, vault, TypeOK, LocalsInv, KnownInv, Known,
     UnseenInv, Unseen, Held, Mgrs
<1>13. ASSUME NEW w \in Workers, PostFails(w) PROVE UnseenInv'
  BY <1>13 DEF PostFails, Goto, worker, vault, endpoint, TypeOK, LocalsInv,
     KnownInv, Known, UnseenInv, Unseen, Held, Mgrs
<1>14. ASSUME NEW w \in Workers, Bury(w) PROVE UnseenInv'
  BY <1>14 DEF Bury, Unlock, Leave, Goto, vault, endpoint, TypeOK, LocalsInv,
     KnownInv, Known, UnseenInv, Unseen, Held, Mgrs
<1>15. ASSUME NEW w \in Workers, GiveUp(w) PROVE UnseenInv'
  BY <1>15 DEF GiveUp, Unlock, Leave, Goto, vault, endpoint, TypeOK,
     LocalsInv, KnownInv, Known, UnseenInv, Unseen, Held, Mgrs
<1>16. ASSUME NEW w \in Workers, Put(w) PROVE UnseenInv'
  BY <1>16 DEF Put, Unlock, Goto, endpoint, TypeOK, LocalsInv, KnownInv,
     Known, UnseenInv, Unseen, Held, Mgrs
<1>17. ASSUME NEW w \in Workers, PutFails(w) PROVE UnseenInv'
  BY <1>17 DEF PutFails, Unlock, Leave, Goto, vault, endpoint, TypeOK,
     LocalsInv, KnownInv, Known, UnseenInv, Unseen, Held, Mgrs
<1>18. CASE Expire
  BY <1>18 DEF Expire, vault, endpoint, worker, TypeOK, LocalsInv, KnownInv,
     Known, UnseenInv, Unseen, Held, Mgrs
<1>19. CASE Connect
  BY <1>19 DEF Connect, endpoint, worker, TypeOK, LocalsInv, KnownInv, Known,
     UnseenInv, Unseen, Held, Mgrs
<1>20. CASE Reload
  BY <1>20 DEF Reload, vault, endpoint, worker, TypeOK, LocalsInv, KnownInv,
     Known, UnseenInv, Unseen, Held, Mgrs
<1>21. CASE UNCHANGED vars
  BY <1>21 DEF vars, vault, endpoint, worker, TypeOK, LocalsInv, KnownInv,
     Known, UnseenInv, Unseen, Held, Mgrs
<1> QED
  BY <1>1, <1>2, <1>3, <1>4, <1>5, <1>6, <1>7, <1>8, <1>9, <1>10, <1>11,
     <1>12, <1>13, <1>14, <1>15, <1>16, <1>17, <1>18, <1>19, <1>20, <1>21 DEF
     Next, Step, Call

\* Neither a login nor a save brings a rejected pair back.
LEMMA StepDoomed ==
    ASSUME TypeOK, LocalsInv, LockInv, KnownInv, UnseenInv, DoomedInv, [Next]_vars
    PROVE  DoomedInv'
<1> USE TokenAssumption, NoneAssumption
<1>1. ASSUME NEW w \in Workers, Begin(w) PROVE DoomedInv'
  BY <1>1 DEF Begin, Goto, vault, endpoint, TypeOK, LocalsInv, LockInv,
     KnownInv, Known, UnseenInv, Unseen, DoomedInv, DeadIsNotPosted, Held,
     Mgrs
<1>2. ASSUME NEW w \in Workers, Get(w) PROVE DoomedInv'
  BY <1>2 DEF Get, Goto, vault, endpoint, TypeOK, LocalsInv, LockInv,
     KnownInv, Known, UnseenInv, Unseen, DoomedInv, DeadIsNotPosted, Held,
     Mgrs
<1>3. ASSUME NEW w \in Workers, Buried(w) PROVE DoomedInv'
  BY <1>3 DEF Buried, Leave, Goto, vault, endpoint, TypeOK, LocalsInv,
     LockInv, KnownInv, Known, UnseenInv, Unseen, DoomedInv, DeadIsNotPosted,
     Held, Mgrs
<1>4. ASSUME NEW w \in Workers, Judge(w) PROVE DoomedInv'
  BY <1>4 DEF Judge, Goto, worker, vault, endpoint, TypeOK, LocalsInv,
     LockInv, KnownInv, Known, UnseenInv, Unseen, DoomedInv, DeadIsNotPosted,
     Held, Mgrs
<1>5. ASSUME NEW w \in Workers, Use(w) PROVE DoomedInv'
  BY <1>5 DEF Use, Leave, Goto, vault, endpoint, TypeOK, LocalsInv, LockInv,
     KnownInv, Known, UnseenInv, Unseen, DoomedInv, DeadIsNotPosted, Held,
     Mgrs
<1>6. ASSUME NEW w \in Workers, Rejected(w) PROVE DoomedInv'
  BY <1>6 DEF Rejected, Goto, vault, endpoint, TypeOK, LocalsInv, LockInv,
     KnownInv, Known, UnseenInv, Unseen, DoomedInv, DeadIsNotPosted, Held,
     Mgrs
<1>7. ASSUME NEW w \in Workers, Reuse(w) PROVE DoomedInv'
  BY <1>7 DEF Reuse, Goto, vault, endpoint, TypeOK, LocalsInv, LockInv,
     KnownInv, Known, UnseenInv, Unseen, DoomedInv, DeadIsNotPosted, Held,
     Mgrs
<1>8. ASSUME NEW w \in Workers, StillDead(w) PROVE DoomedInv'
  BY <1>8 DEF StillDead, Leave, Goto, vault, endpoint, TypeOK, LocalsInv,
     LockInv, KnownInv, Known, UnseenInv, Unseen, DoomedInv, DeadIsNotPosted,
     Held, Mgrs
<1>9. ASSUME NEW w \in Workers, Refresh(w) PROVE DoomedInv'
  BY <1>9 DEF Refresh, Goto, Free, vault, endpoint, TypeOK, LocalsInv,
     LockInv, KnownInv, Known, UnseenInv, Unseen, DoomedInv, DeadIsNotPosted,
     Held, Mgrs
<1>10. ASSUME NEW w \in Workers, NEW rotate \in {0, 1}, Granted(w, rotate)
      PROVE  DoomedInv'
  BY <1>10 DEF Granted, Grant, Fresh, Goto, vault, TypeOK, LocalsInv, LockInv,
     KnownInv, Known, UnseenInv, Unseen, DoomedInv, DeadIsNotPosted, Held,
     Mgrs
<1>11. ASSUME NEW w \in Workers, NEW rotate \in {0, 1}, GrantLost(w, rotate)
      PROVE  DoomedInv'
  BY <1>11 DEF GrantLost, Grant, Goto, vault, TypeOK, LocalsInv, LockInv,
     KnownInv, Known, UnseenInv, Unseen, DoomedInv, DeadIsNotPosted, Held,
     Mgrs
<1>12. ASSUME NEW w \in Workers, Deny(w) PROVE DoomedInv'
  BY <1>12 DEF Deny, Goto, worker, vault, TypeOK, LocalsInv, LockInv,
     KnownInv, Known, UnseenInv, Unseen, DoomedInv, DeadIsNotPosted, Held,
     Mgrs
<1>13. ASSUME NEW w \in Workers, PostFails(w) PROVE DoomedInv'
  BY <1>13 DEF PostFails, Goto, worker, vault, endpoint, TypeOK, LocalsInv,
     LockInv, KnownInv, Known, UnseenInv, Unseen, DoomedInv, DeadIsNotPosted,
     Held, Mgrs
<1>14. ASSUME NEW w \in Workers, Bury(w) PROVE DoomedInv'
  <2>1. /\ man[w] \in Mgrs /\ dead[man[w]] = None /\ lock[man[w]] = w /\ got[w] \in Pairs
    BY <1>14 DEF Bury, TypeOK, LocalsInv, LockInv, Held
  <2>2. /\ UNCHANGED stored
        /\ dead' = [dead EXCEPT ![man[w]] = got[w]]
        /\ doomed' = [doomed EXCEPT ![man[w]] = @ \cup {got[w]}]
    BY <1>14 DEF Bury, vault
  <2>3. \A m \in Mgrs : stored' \in doomed'[m] => stored' = dead'[m]
    BY <2>1, <2>2 DEF TypeOK, DoomedInv
  <2>4. \A v \in Workers : pc'[v] = "post" =>
            /\ v # w /\ pc[v] = "post" /\ got'[v] = got[v] /\ man'[v] = man[v]
    BY <1>14 DEF Bury, Leave, Goto, TypeOK
  <2>5. \A v \in Workers : pc[v] = "post" /\ v # w => man[v] # man[w]
    BY <2>1 DEF LockInv, Held
  <2>6. DeadIsNotPosted'
    BY <2>2, <2>4, <2>5 DEF TypeOK, DoomedInv, DeadIsNotPosted
  <2> QED
    BY <2>3, <2>6 DEF DoomedInv
<1>15. ASSUME NEW w \in Workers, GiveUp(w) PROVE DoomedInv'
  BY <1>15 DEF GiveUp, Unlock, Leave, Goto, vault, endpoint, TypeOK,
     LocalsInv, LockInv, KnownInv, Known, UnseenInv, Unseen, DoomedInv,
     DeadIsNotPosted, Held, Mgrs
<1>16. ASSUME NEW w \in Workers, Put(w) PROVE DoomedInv'
  BY <1>16 DEF Put, Unlock, Goto, endpoint, TypeOK, LocalsInv, LockInv,
     KnownInv, Known, UnseenInv, Unseen, DoomedInv, DeadIsNotPosted, Held,
     Mgrs
<1>17. ASSUME NEW w \in Workers, PutFails(w) PROVE DoomedInv'
  BY <1>17 DEF PutFails, Unlock, Leave, Goto, vault, endpoint, TypeOK,
     LocalsInv, LockInv, KnownInv, Known, UnseenInv, Unseen, DoomedInv,
     DeadIsNotPosted, Held, Mgrs
<1>18. CASE Expire
  BY <1>18 DEF Expire, vault, endpoint, worker, TypeOK, LocalsInv, LockInv,
     KnownInv, Known, UnseenInv, Unseen, DoomedInv, DeadIsNotPosted, Held,
     Mgrs
<1>19. CASE Connect
  BY <1>19 DEF Connect, endpoint, worker, TypeOK, LocalsInv, LockInv,
     KnownInv, Known, UnseenInv, Unseen, DoomedInv, DeadIsNotPosted, Held,
     Mgrs
<1>20. CASE Reload
  BY <1>20 DEF Reload, vault, endpoint, worker, TypeOK, LocalsInv, LockInv,
     KnownInv, Known, UnseenInv, Unseen, DoomedInv, DeadIsNotPosted, Held,
     Mgrs
<1>21. CASE UNCHANGED vars
  BY <1>21 DEF vars, vault, endpoint, worker, TypeOK, LocalsInv, LockInv,
     KnownInv, Known, UnseenInv, Unseen, DoomedInv, DeadIsNotPosted, Held,
     Mgrs
<1> QED
  BY <1>1, <1>2, <1>3, <1>4, <1>5, <1>6, <1>7, <1>8, <1>9, <1>10, <1>11,
     <1>12, <1>13, <1>14, <1>15, <1>16, <1>17, <1>18, <1>19, <1>20, <1>21 DEF
     Next, Step, Call

\* Losses and managers are counted upwards, and a request gets a manager that exists.
LEMMA StepMan ==
    ASSUME TypeOK, ManInv, [Next]_vars
    PROVE  losses <= losses' /\ current <= current' /\ ManInv'
<1> USE TokenAssumption, NoneAssumption
<1>1. ASSUME NEW w \in Workers, Begin(w) PROVE losses <= losses' /\ current <= current' /\ ManInv'
  BY <1>1 DEF Begin, Goto, vault, endpoint, TypeOK, ManInv, Mgrs
<1>2. ASSUME NEW w \in Workers, Get(w) PROVE losses <= losses' /\ current <= current' /\ ManInv'
  BY <1>2 DEF Get, Goto, vault, endpoint, TypeOK, ManInv, Mgrs
<1>3. ASSUME NEW w \in Workers, Buried(w) PROVE losses <= losses' /\ current <= current' /\ ManInv'
  BY <1>3 DEF Buried, Leave, Goto, vault, endpoint, TypeOK, ManInv, Mgrs
<1>4. ASSUME NEW w \in Workers, Judge(w) PROVE losses <= losses' /\ current <= current' /\ ManInv'
  BY <1>4 DEF Judge, Goto, worker, vault, endpoint, TypeOK, ManInv, Mgrs
<1>5. ASSUME NEW w \in Workers, Use(w) PROVE losses <= losses' /\ current <= current' /\ ManInv'
  BY <1>5 DEF Use, Leave, Goto, vault, endpoint, TypeOK, ManInv, Mgrs
<1>6. ASSUME NEW w \in Workers, Rejected(w) PROVE losses <= losses' /\ current <= current' /\ ManInv'
  BY <1>6 DEF Rejected, Goto, vault, endpoint, TypeOK, ManInv, Mgrs
<1>7. ASSUME NEW w \in Workers, Reuse(w) PROVE losses <= losses' /\ current <= current' /\ ManInv'
  BY <1>7 DEF Reuse, Goto, vault, endpoint, TypeOK, ManInv, Mgrs
<1>8. ASSUME NEW w \in Workers, StillDead(w) PROVE losses <= losses' /\ current <= current' /\ ManInv'
  BY <1>8 DEF StillDead, Leave, Goto, vault, endpoint, TypeOK, ManInv, Mgrs
<1>9. ASSUME NEW w \in Workers, Refresh(w) PROVE losses <= losses' /\ current <= current' /\ ManInv'
  BY <1>9 DEF Refresh, Goto, Free, vault, endpoint, TypeOK, ManInv, Mgrs
<1>10. ASSUME NEW w \in Workers, NEW rotate \in {0, 1}, Granted(w, rotate)
      PROVE  losses <= losses' /\ current <= current' /\ ManInv'
  BY <1>10 DEF Granted, Grant, Fresh, Goto, vault, TypeOK, ManInv, Mgrs
<1>11. ASSUME NEW w \in Workers, NEW rotate \in {0, 1}, GrantLost(w, rotate)
      PROVE  losses <= losses' /\ current <= current' /\ ManInv'
  BY <1>11 DEF GrantLost, Grant, Goto, vault, TypeOK, ManInv, Mgrs
<1>12. ASSUME NEW w \in Workers, Deny(w) PROVE losses <= losses' /\ current <= current' /\ ManInv'
  BY <1>12 DEF Deny, Goto, worker, vault, TypeOK, ManInv, Mgrs
<1>13. ASSUME NEW w \in Workers, PostFails(w) PROVE losses <= losses' /\ current <= current' /\ ManInv'
  BY <1>13 DEF PostFails, Goto, worker, vault, endpoint, TypeOK, ManInv, Mgrs
<1>14. ASSUME NEW w \in Workers, Bury(w) PROVE losses <= losses' /\ current <= current' /\ ManInv'
  BY <1>14 DEF Bury, Unlock, Leave, Goto, vault, endpoint, TypeOK, ManInv,
     Mgrs
<1>15. ASSUME NEW w \in Workers, GiveUp(w) PROVE losses <= losses' /\ current <= current' /\ ManInv'
  BY <1>15 DEF GiveUp, Unlock, Leave, Goto, vault, endpoint, TypeOK, ManInv,
     Mgrs
<1>16. ASSUME NEW w \in Workers, Put(w) PROVE losses <= losses' /\ current <= current' /\ ManInv'
  BY <1>16 DEF Put, Unlock, Goto, endpoint, TypeOK, ManInv, Mgrs
<1>17. ASSUME NEW w \in Workers, PutFails(w) PROVE losses <= losses' /\ current <= current' /\ ManInv'
  BY <1>17 DEF PutFails, Unlock, Leave, Goto, vault, endpoint, TypeOK, ManInv,
     Mgrs
<1>18. CASE Expire
  BY <1>18 DEF Expire, vault, endpoint, worker, TypeOK, ManInv, Mgrs
<1>19. CASE Connect
  BY <1>19 DEF Connect, endpoint, worker, TypeOK, ManInv, Mgrs
<1>20. CASE Reload
  BY <1>20 DEF Reload, vault, endpoint, worker, TypeOK, ManInv, Mgrs
<1>21. CASE UNCHANGED vars
  BY <1>21 DEF vars, vault, endpoint, worker, TypeOK, ManInv, Mgrs
<1> QED
  BY <1>1, <1>2, <1>3, <1>4, <1>5, <1>6, <1>7, <1>8, <1>9, <1>10, <1>11,
     <1>12, <1>13, <1>14, <1>15, <1>16, <1>17, <1>18, <1>19, <1>20, <1>21 DEF
     Next, Step, Call

\* Steps that touch neither the vault nor the endpoint and start no refresh.
Calm ==
    /\ UNCHANGED <<valid, stored, grants>>
    /\ \A v \in Workers :
           /\ pc'[v] \in {"post", "put", "denied"} =>
                  pc'[v] = pc[v] /\ got'[v] = got[v] /\ reply'[v] = reply[v]
           /\ pc[v] = "put" => pc'[v] = "put" /\ reply'[v] = reply[v]

LEMMA CalmStep == ASSUME LiveTokens, Calm PROVE LiveTokens'
BY DEF LiveTokens, NothingRevoked, Calm

\* With one manager the lock orders all uses of the token.
LEMMA StepLive ==
    ASSUME TypeOK, LocalsInv, LockInv, KnownInv, ManInv, LiveTokens,
           current = 1, losses = 0, losses' = 0, [Next]_vars
    PROVE  LiveTokens'
<1> USE TokenAssumption, NoneAssumption
<1>1. ASSUME NEW w \in Workers, Begin(w) PROVE LiveTokens'
  <2>1. Calm
    BY <1>1 DEF Begin, Goto, vault, endpoint, Calm, TypeOK
  <2> QED
    BY <2>1, CalmStep
<1>2. ASSUME NEW w \in Workers, Get(w) PROVE LiveTokens'
  <2>1. Calm
    BY <1>2 DEF Get, Goto, vault, endpoint, Calm, TypeOK
  <2> QED
    BY <2>1, CalmStep
<1>3. ASSUME NEW w \in Workers, Buried(w) PROVE LiveTokens'
  <2>1. Calm
    BY <1>3 DEF Buried, Leave, Goto, vault, endpoint, Calm, TypeOK
  <2> QED
    BY <2>1, CalmStep
<1>4. ASSUME NEW w \in Workers, Judge(w) PROVE LiveTokens'
  <2>1. Calm
    BY <1>4 DEF Judge, Goto, worker, vault, endpoint, Calm, TypeOK
  <2> QED
    BY <2>1, CalmStep
<1>5. ASSUME NEW w \in Workers, Use(w) PROVE LiveTokens'
  <2>1. Calm
    BY <1>5 DEF Use, Leave, Goto, vault, endpoint, Calm, TypeOK
  <2> QED
    BY <2>1, CalmStep
<1>6. ASSUME NEW w \in Workers, Rejected(w) PROVE LiveTokens'
  <2>1. Calm
    BY <1>6 DEF Rejected, Goto, vault, endpoint, Calm, TypeOK
  <2> QED
    BY <2>1, CalmStep
<1>7. ASSUME NEW w \in Workers, Reuse(w) PROVE LiveTokens'
  <2>1. Calm
    BY <1>7 DEF Reuse, Goto, vault, endpoint, Calm, TypeOK
  <2> QED
    BY <2>1, CalmStep
<1>8. ASSUME NEW w \in Workers, StillDead(w) PROVE LiveTokens'
  <2>1. Calm
    BY <1>8 DEF StillDead, Leave, Goto, vault, endpoint, Calm, TypeOK
  <2> QED
    BY <2>1, CalmStep
<1>9. ASSUME NEW w \in Workers, Refresh(w) PROVE LiveTokens'
  <2>1. lock[man[w]] = None
    BY <1>9 DEF Refresh, Free
  <2>2. \A v \in Workers : man[v] = 1
    BY DEF ManInv, TypeOK, Mgrs
  <2>3. \A v \in Workers : pc[v] \notin Held
    BY <2>1, <2>2 DEF LockInv
  <2>4. stored.refresh = valid[stored.grant]
    BY <2>3 DEF LiveTokens, Held
  <2>5. /\ got' = [got EXCEPT ![w] = stored] /\ pc' = [pc EXCEPT ![w] = "post"]
        /\ UNCHANGED <<valid, stored, grants, reply>>
    BY <1>9 DEF Refresh, Goto, vault, endpoint
  <2>6. \A v \in Workers :
            /\ pc'[v] # "denied" /\ pc'[v] # "put"
            /\ pc'[v] = "post" => got'[v] = stored
    BY <2>3, <2>5 DEF Held, TypeOK
  <2> QED
    BY <2>4, <2>5, <2>6 DEF LiveTokens, NothingRevoked
<1>10. ASSUME NEW w \in Workers, NEW rotate \in {0, 1}, Granted(w, rotate)
      PROVE  LiveTokens'
  <2>1. GrantEffect(w, rotate)
    BY <1>10, GrantFacts DEF Granted
  <2>2. \A v \in Workers : man[v] = 1
    BY DEF ManInv, TypeOK, Mgrs
  <2>3. \A v \in Workers : v # w => pc[v] \notin Held
    BY <2>1, <2>2 DEF GrantEffect, LockInv, Held
  <2>4. /\ pc'[w] = "put" /\ reply'[w] = Fresh(w, rotate)
        /\ \A v \in Workers : v # w => pc'[v] = pc[v]
    BY <1>10 DEF Granted, Goto, TypeOK
  <2>5. \A v \in Workers :
            /\ pc'[v] # "denied" /\ pc'[v] # "post"
            /\ pc'[v] = "put" => v = w
    BY <2>3, <2>4 DEF Held
  <2>6. reply'[w].refresh = valid'[reply'[w].grant]
    BY <2>1, <2>4 DEF GrantEffect, TypeOK
  <2>7. \A g \in 1..MaxGrant : valid'[g] # Revoked /\ (g > grants => valid'[g] = 0)
    <3>1. got[w].grant <= grants
      BY <2>1 DEF GrantEffect, KnownInv, Known
    <3>2. /\ got[w].refresh + rotate \in Nat
          /\ valid' = [valid EXCEPT ![got[w].grant] = got[w].refresh + rotate]
      BY <2>1 DEF GrantEffect
    <3>3. /\ DOMAIN valid = 1..MaxGrant
          /\ grants \in Nat
      BY DEF TypeOK
    <3>4. \A g \in 1..MaxGrant : valid[g] # Revoked /\ (g > grants => valid[g] = 0)
      BY DEF LiveTokens, NothingRevoked
    <3> SUFFICES ASSUME NEW g \in 1..MaxGrant
                 PROVE  valid'[g] # Revoked /\ (g > grants => valid'[g] = 0)
      OBVIOUS
    <3>5. CASE g = got[w].grant
      <4>1. valid'[g] = got[w].refresh + rotate
        BY <3>2, <3>3, <3>5
      <4>2. ~(g > grants)
        BY <3>1, <3>3, <3>5
      <4> QED
        BY <4>1, <4>2, <3>2 DEF Revoked
    <3>6. CASE g # got[w].grant
      <4>1. valid'[g] = valid[g]
        BY <3>2, <3>3, <3>6
      <4> QED
        BY <4>1, <3>4
    <3> QED
      BY <3>5, <3>6
  <2>8. \/ stored.refresh = valid'[stored.grant]
        \/ pc'[w] = "put" /\ reply'[w].grant = stored.grant
    <3>1. CASE stored.grant = got[w].grant
      BY <3>1, <2>1, <2>4 DEF GrantEffect
    <3>2. CASE stored.grant # got[w].grant
      <4>1. stored.refresh = valid[stored.grant]
        BY <3>2, <2>1, <2>3 DEF GrantEffect, LiveTokens, Held
      <4>2. stored.grant \in 1..MaxGrant
        BY DEF TypeOK, Pairs
      <4> QED
        BY <4>1, <4>2, <3>2, <2>1 DEF GrantEffect, TypeOK
    <3> QED
      BY <3>1, <3>2
  <2>9. UNCHANGED <<stored, grants>>
    BY <2>1 DEF GrantEffect
  <2> QED
    BY <2>5, <2>6, <2>7, <2>8, <2>9 DEF LiveTokens, NothingRevoked
<1>11. ASSUME NEW w \in Workers, NEW rotate \in {0, 1}, GrantLost(w, rotate)
      PROVE  LiveTokens'
  BY <1>11 DEF GrantLost, TypeOK
<1>12. ASSUME NEW w \in Workers, Deny(w) PROVE LiveTokens'
  BY <1>12 DEF Deny, LiveTokens
<1>13. ASSUME NEW w \in Workers, PostFails(w) PROVE LiveTokens'
  <2>1. Calm
    BY <1>13 DEF PostFails, Goto, worker, vault, endpoint, Calm, TypeOK
  <2> QED
    BY <2>1, CalmStep
<1>14. ASSUME NEW w \in Workers, Bury(w) PROVE LiveTokens'
  <2>1. Calm
    BY <1>14 DEF Bury, Unlock, Leave, Goto, vault, endpoint, Calm, TypeOK
  <2> QED
    BY <2>1, CalmStep
<1>15. ASSUME NEW w \in Workers, GiveUp(w) PROVE LiveTokens'
  <2>1. Calm
    BY <1>15 DEF GiveUp, Unlock, Leave, Goto, vault, endpoint, Calm, TypeOK
  <2> QED
    BY <2>1, CalmStep
<1>16. ASSUME NEW w \in Workers, Put(w) PROVE LiveTokens'
  <2>1. \A v \in Workers : man[v] = 1
    BY DEF ManInv, TypeOK, Mgrs
  <2>2. pc[w] = "put" /\ reply[w].refresh = valid[reply[w].grant]
    BY <1>16 DEF Put, LiveTokens
  <2>3. \A v \in Workers : v # w => pc[v] \notin Held
    BY <2>1, <2>2 DEF LockInv, Held
  <2>4. \A v \in Workers : pc'[v] \notin Held
    BY <2>3, <1>16 DEF Put, Goto, TypeOK, Held
  <2>5. stored' = reply[w] /\ UNCHANGED <<valid, grants>>
    BY <1>16 DEF Put, endpoint
  <2> QED
    BY <2>2, <2>4, <2>5 DEF LiveTokens, NothingRevoked, Held
<1>17. ASSUME NEW w \in Workers, PutFails(w) PROVE LiveTokens'
  BY <1>17 DEF PutFails, TypeOK
<1>18. CASE Expire
  <2>1. Calm
    BY <1>18 DEF Expire, vault, endpoint, worker, Calm, TypeOK
  <2> QED
    BY <2>1, CalmStep
<1>19. CASE Connect
  <2>1. grants + 1 \in 1..MaxGrant /\ valid[grants + 1] = 0
    BY <1>19 DEF Connect, TypeOK, LiveTokens
  <2>2. /\ stored'.grant = grants + 1 /\ stored'.refresh = 0 /\ grants' = grants + 1
        /\ UNCHANGED <<valid, pc, got, reply>>
    BY <1>19 DEF Connect, endpoint, worker
  <2>3. stored'.refresh = valid'[stored'.grant]
    BY <2>1, <2>2
  <2> QED
    BY <2>2, <2>3 DEF TypeOK, LiveTokens, NothingRevoked
<1>20. CASE Reload
  <2>1. Calm
    BY <1>20 DEF Reload, vault, endpoint, worker, Calm, TypeOK
  <2> QED
    BY <2>1, CalmStep
<1>21. CASE UNCHANGED vars
  <2>1. Calm
    BY <1>21 DEF vars, vault, endpoint, worker, Calm
  <2> QED
    BY <2>1, CalmStep
<1> QED
  BY <1>1, <1>2, <1>3, <1>4, <1>5, <1>6, <1>7, <1>8, <1>9, <1>10, <1>11,
     <1>12, <1>13, <1>14, <1>15, <1>16, <1>17, <1>18, <1>19, <1>20, <1>21 DEF
     Next, Step, Call

LEMMA IInvHolds == Spec => []IInv
<1>1. ASSUME IInv, [Next]_vars PROVE ValidInv'
  <2>1. losses <= losses' /\ current <= current'
    BY <1>1, StepMan DEF IInv
  <2>2. SUFFICES ASSUME losses' = 0, current' = 1 PROVE LiveTokens'
    BY DEF ValidInv
  <2>3. losses = 0 /\ current = 1
    BY <1>1, <2>1, <2>2, TokenAssumption DEF IInv, TypeOK, Mgrs
  <2> QED
    BY <1>1, <2>2, <2>3, StepLive DEF IInv, ValidInv
<1>2. IInv /\ [Next]_vars => IInv'
  BY <1>1, StepType, StepLocals, StepLock, StepKnown, StepUnseen, StepDoomed, StepMan
  DEF IInv
<1> QED
  BY <1>2, InitIInv, PTL DEF Spec

\* Vault, endpoint, managers and requests keep to their types.
THEOREM TypeCorrect == Spec => []TypeOK
<1>1. IInv => TypeOK
  BY DEF IInv
<1> QED
  BY <1>1, IInvHolds, PTL

\* One manager never spends a refresh token twice: until a reply or a save is lost
\* or a reload makes a second manager, no refresh costs the credential.
THEOREM OneRefresher == Spec => []CredentialSurvives
<1>1. IInv => CredentialSurvives
  BY DEF IInv, ValidInv, LiveTokens, CredentialSurvives
<1> QED
  BY <1>1, IInvHolds, PTL

\* No manager posts a pair again that it saw rejected, whatever reloads and losses.
THEOREM NoDeadPosts == Spec => []DeadIsNotPosted
<1>1. IInv => DeadIsNotPosted
  BY DEF IInv, DoomedInv
<1> QED
  BY <1>1, IInvHolds, PTL

=============================================================================
