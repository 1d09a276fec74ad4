---------------------------- MODULE TokenRefresh ----------------------------
(***************************************************************************)
(* Requests that share one account through its TokenManager.  The endpoint *)
(* rotates refresh tokens: one that has been replaced must not come back.  *)
(* A reload of the configuration may replace the provider, and with it the *)
(* manager, while requests still use the old one; all managers refresh the *)
(* one pair in the vault.                                                  *)
(***************************************************************************)
EXTENDS Integers

CONSTANTS
    Workers,   \* the requests and polls that use the account
    Managers,  \* bound: how many managers reloads may make, from 1 on
    MaxGrant,  \* bound: how often the user connects the account
    MaxIssue,  \* bound: access tokens of one grant that grow stale
    MaxLoss,   \* bound: replies and saves that are lost
    None       \* no pair, no worker

ASSUME TokenAssumption ==
    /\ Managers \in Nat \ {0}
    /\ MaxGrant \in Nat \ {0} /\ MaxIssue \in Nat /\ MaxLoss \in Nat

\* A pair: the login it comes from, its access token and its refresh token.
Pairs == [grant : 1..MaxGrant, access : Nat, refresh : Nat]

ASSUME NoneAssumption == None \notin Pairs /\ None \notin Workers

VARIABLES
    stored,  \* the pair in the vault
    grants,  \* the logins so far
    valid,   \* valid[g]: the refresh token the endpoint takes, or Revoked
    issued,  \* issued[g]: the last access token of g
    stale,   \* the pairs whose access token is about to expire
    current, \* the manager a new request gets
    lock,    \* lock[m]: the worker that holds m.mu, or None
    dead,    \* dead[m]: the pair m has seen rejected, or None
    pc, man, \* man[w]: the manager of w
    got,     \* got[w]: the pair w has read, or None
    forced,  \* forced[w]: w comes from a 401
    reply,   \* reply[w]: the pair that Refresh returned to w
    losses,  \* history: replies of the endpoint and saves that were lost
    doomed   \* history: doomed[m]: the pairs m has seen rejected

endpoint == <<valid, issued>>
vault == <<stored, grants>>
worker == <<man, got, forced, reply>>
vars == <<vault, endpoint, stale, current, lock, dead, pc, worker, losses, doomed>>

Revoked == -1
Mgrs == 1..Managers

Init ==
    /\ stored = [grant |-> 1, access |-> 0, refresh |-> 0]
    /\ grants = 1
    /\ valid = [g \in 1..MaxGrant |-> 0]
    /\ issued = [g \in 1..MaxGrant |-> 0]
    /\ stale = {}
    /\ current = 1
    /\ lock = [m \in Mgrs |-> None]
    /\ dead = [m \in Mgrs |-> None]
    /\ pc = [w \in Workers |-> "idle"]
    /\ man = [w \in Workers |-> 1]
    /\ got = [w \in Workers |-> None]
    /\ forced = [w \in Workers |-> FALSE]
    /\ reply = [w \in Workers |-> None]
    /\ losses = 0
    /\ doomed = [m \in Mgrs |-> {}]

Goto(w, l) == pc' = [pc EXCEPT ![w] = l]
Free(m) == lock[m] = None

\* A request ends, with its reply or with an error; its locals go with it.
Leave(w) ==
    /\ Goto(w, "idle")
    /\ man' = [man EXCEPT ![w] = 1]
    /\ got' = [got EXCEPT ![w] = None]
    /\ forced' = [forced EXCEPT ![w] = FALSE]
    /\ reply' = [reply EXCEPT ![w] = None]
-----------------------------------------------------------------------------
\* A request gets the manager of the provider it has resolved.
Begin(w) ==
    /\ pc[w] = "idle"
    /\ man' = [man EXCEPT ![w] = current]
    /\ Goto(w, "get")
    /\ UNCHANGED <<vault, endpoint, stale, current, lock, dead, got, forced, reply,
                   losses, doomed>>

\* EnsureFreshToken reads the pair without the lock of the manager.
Get(w) ==
    /\ pc[w] = "get"
    /\ got' = [got EXCEPT ![w] = stored]
    /\ Goto(w, "look")
    /\ UNCHANGED <<vault, endpoint, stale, current, lock, dead, man, forced, reply,
                   losses, doomed>>

\* credentialsDead takes the lock; then the pair that was read is judged.
Buried(w) ==
    /\ pc[w] = "look" /\ Free(man[w]) /\ got[w] = dead[man[w]]
    /\ Leave(w)
    /\ UNCHANGED <<vault, endpoint, stale, current, lock, dead, losses, doomed>>

Judge(w) ==
    /\ pc[w] = "look" /\ Free(man[w]) /\ got[w] # dead[man[w]]
    /\ Goto(w, IF got[w] \in stale THEN "lock" ELSE "use")
    /\ UNCHANGED <<vault, endpoint, stale, current, lock, dead, worker, losses, doomed>>

\* The generation: a reply, or a 401 that sends the first try to a forced refresh.
Use(w) ==
    /\ pc[w] = "use" /\ Leave(w)
    /\ UNCHANGED <<vault, endpoint, stale, current, lock, dead, losses, doomed>>

Rejected(w) ==
    /\ pc[w] = "use" /\ ~forced[w]
    /\ issued[got[w].grant] < MaxIssue
    /\ forced' = [forced EXCEPT ![w] = TRUE]
    /\ Goto(w, "lock")
    /\ UNCHANGED <<vault, endpoint, stale, current, lock, dead, man, got, reply,
                   losses, doomed>>

SameAccess(p, q) == p.grant = q.grant /\ p.access = q.access

\* The pair is read again under the lock: another request may have refreshed it.
AlreadyFresh(w) ==
    IF forced[w] THEN ~SameAccess(stored, got[w]) ELSE stored \notin stale

\* refresh, until it returns or calls the endpoint.
Reuse(w) ==
    /\ pc[w] = "lock" /\ Free(man[w]) /\ AlreadyFresh(w)
    /\ got' = [got EXCEPT ![w] = stored]
    /\ Goto(w, "use")
    /\ UNCHANGED <<vault, endpoint, stale, current, lock, dead, man, forced, reply,
                   losses, doomed>>

StillDead(w) ==
    /\ pc[w] = "lock" /\ Free(man[w]) /\ ~AlreadyFresh(w) /\ stored = dead[man[w]]
    /\ Leave(w)
    /\ UNCHANGED <<vault, endpoint, stale, current, lock, dead, losses, doomed>>

\* mutant: the second look under the lock is left out
RefreshBlind(w) ==
    /\ pc[w] = "lock" /\ Free(man[w])
    /\ lock' = [lock EXCEPT ![man[w]] = w]
    /\ dead' = [dead EXCEPT ![man[w]] = None]
    /\ Goto(w, "post")
    /\ UNCHANGED <<vault, endpoint, stale, current, worker, losses, doomed>>

Refresh(w) ==
    /\ pc[w] = "lock" /\ Free(man[w]) /\ ~AlreadyFresh(w) /\ stored # dead[man[w]]
    /\ got' = [got EXCEPT ![w] = stored]
    /\ lock' = [lock EXCEPT ![man[w]] = w]
    /\ dead' = [dead EXCEPT ![man[w]] = None]
    /\ Goto(w, "post")
    /\ UNCHANGED <<vault, endpoint, stale, current, man, forced, reply, losses, doomed>>

\* The token endpoint.  A token that was replaced revokes its grant.
Fresh(w, rotate) ==
    [grant |-> got[w].grant, access |-> issued[got[w].grant] + 1,
     refresh |-> got[w].refresh + rotate]

Grant(w, rotate) ==
    /\ pc[w] = "post" /\ got[w].refresh = valid[got[w].grant]
    /\ valid' = [valid EXCEPT ![got[w].grant] = got[w].refresh + rotate]
    /\ issued' = [issued EXCEPT ![got[w].grant] = @ + 1]
    /\ UNCHANGED <<vault, stale, current, lock, dead, man, got, forced, doomed>>

Granted(w, rotate) ==
    /\ Grant(w, rotate)
    /\ reply' = [reply EXCEPT ![w] = Fresh(w, rotate)]
    /\ Goto(w, "put")
    /\ UNCHANGED losses

\* The answer of the endpoint does not arrive.
GrantLost(w, rotate) ==
    /\ Grant(w, rotate)
    /\ losses < MaxLoss
    /\ losses' = losses + 1
    /\ Goto(w, "failed")
    /\ UNCHANGED reply

Deny(w) ==
    /\ pc[w] = "post" /\ got[w].refresh # valid[got[w].grant]
    /\ valid' = [valid EXCEPT ![got[w].grant] = Revoked]
    /\ Goto(w, "denied")
    /\ UNCHANGED <<vault, issued, stale, current, lock, dead, worker, losses, doomed>>

\* mutant: the error of the call is not returned
PostFailsUnseen(w) ==
    /\ pc[w] = "post" /\ Goto(w, "put")
    /\ UNCHANGED <<vault, endpoint, stale, current, lock, dead, worker, losses, doomed>>

\* The call fails before the endpoint sees it.
PostFails(w) ==
    /\ pc[w] = "post"
    /\ Goto(w, "failed")
    /\ UNCHANGED <<vault, endpoint, stale, current, lock, dead, worker, losses, doomed>>

\* The rest of refresh, up to the unlock.
Unlock(w) == lock' = [lock EXCEPT ![man[w]] = None]

\* mutant: the rejected pair is not remembered
BuryNothing(w) ==
    /\ pc[w] = "denied"
    /\ doomed' = [doomed EXCEPT ![man[w]] = @ \cup {got[w]}]
    /\ Unlock(w) /\ Leave(w)
    /\ UNCHANGED <<vault, endpoint, stale, current, dead, losses>>

\* An answer that no retry can change: the pair is dead for this manager.
Bury(w) ==
    /\ pc[w] = "denied"
    /\ dead' = [dead EXCEPT ![man[w]] = got[w]]
    /\ doomed' = [doomed EXCEPT ![man[w]] = @ \cup {got[w]}]
    /\ Unlock(w) /\ Leave(w)
    /\ UNCHANGED <<vault, endpoint, stale, current, losses>>

\* mutant: the call is tried again until it succeeds
GiveUpNever(w) ==
    /\ pc[w] = "failed" /\ Goto(w, "post")
    /\ UNCHANGED <<vault, endpoint, stale, current, lock, dead, worker, losses, doomed>>

GiveUp(w) ==
    /\ pc[w] = "failed"
    /\ Unlock(w) /\ Leave(w)
    /\ UNCHANGED <<vault, endpoint, stale, current, dead, losses, doomed>>

\* PutAccount replaces what the vault has under the identity of the account.
Put(w) ==
    /\ pc[w] = "put"
    /\ stored' = reply[w]
    /\ got' = [got EXCEPT ![w] = reply[w]]
    /\ reply' = [reply EXCEPT ![w] = None]
    /\ Unlock(w) /\ Goto(w, "use")
    /\ UNCHANGED <<grants, endpoint, stale, current, dead, man, forced, losses, doomed>>

\* The save fails: the vault keeps the pair whose refresh token is spent.
PutFails(w) ==
    /\ pc[w] = "put" /\ losses < MaxLoss
    /\ losses' = losses + 1
    /\ Unlock(w) /\ Leave(w)
    /\ UNCHANGED <<vault, endpoint, stale, current, dead, doomed>>
-----------------------------------------------------------------------------
\* An access token comes near its end.
Expire ==
    /\ stored \notin stale /\ issued[stored.grant] < MaxIssue
    /\ stale' = stale \cup {stored}
    /\ UNCHANGED <<vault, endpoint, current, lock, dead, pc, worker, losses, doomed>>

\* The user connects the account again.
Connect ==
    /\ grants < MaxGrant
    /\ grants' = grants + 1
    /\ stored' = [grant |-> grants + 1, access |-> 0, refresh |-> 0]
    /\ UNCHANGED <<endpoint, stale, current, lock, dead, pc, worker, losses, doomed>>

\* A reload replaces the provider.
Reload ==
    /\ current < Managers
    /\ current' = current + 1
    /\ UNCHANGED <<vault, endpoint, stale, lock, dead, pc, worker, losses, doomed>>

Call(w) ==
    \/ \E rotate \in {0, 1} : Granted(w, rotate) \/ GrantLost(w, rotate)
    \/ Deny(w) \/ PostFails(w)

Step(w) ==
    \/ Get(w) \/ Buried(w) \/ Judge(w) \/ Use(w) \/ Rejected(w)
    \/ Reuse(w) \/ StillDead(w) \/ Refresh(w) \/ Call(w)
    \/ Bury(w) \/ GiveUp(w) \/ Put(w) \/ PutFails(w)

Next ==
    \/ \E w \in Workers : Begin(w) \/ Step(w)
    \/ Expire \/ Connect \/ Reload

Spec == Init /\ [][Next]_vars

\* Requests go on; m.mu, as every sync.Mutex, reaches a waiter in the end.  Only
\* the two steps that wait for it can be disabled before they are taken.
FairSpec == Spec /\ \A w \in Workers : SF_vars(Step(w))
-----------------------------------------------------------------------------
(***************************************************************************)
(* Properties.                                                             *)
(***************************************************************************)

\* Vault, endpoint, managers and requests keep to their types.
TypeOK ==
    /\ stored \in Pairs /\ grants \in 1..MaxGrant
    /\ valid \in [1..MaxGrant -> Nat \cup {Revoked}]
    /\ issued \in [1..MaxGrant -> Nat]
    /\ stale \subseteq Pairs /\ current \in Mgrs
    /\ lock \in [Mgrs -> Workers \cup {None}]
    /\ dead \in [Mgrs -> Pairs \cup {None}]
    /\ pc \in [Workers -> {"idle", "get", "look", "use", "lock", "post", "put",
                           "denied", "failed"}]
    /\ man \in [Workers -> Mgrs] /\ got \in [Workers -> Pairs \cup {None}]
    /\ forced \in [Workers -> BOOLEAN]
    /\ reply \in [Workers -> Pairs \cup {None}]
    /\ losses \in 0..MaxLoss /\ doomed \in [Mgrs -> SUBSET Pairs]

NothingRevoked == \A g \in 1..MaxGrant : valid[g] # Revoked

\* One manager never spends a refresh token twice, however requests, 401s, errors
\* and new logins race: until a reply or a save is lost or a reload makes a second
\* manager, no refresh costs the credential.
CredentialSurvives == losses = 0 /\ current = 1 => NothingRevoked

\* A manager never posts a pair again that the endpoint has rejected.
DeadIsNotPosted ==
    \A w \in Workers : pc[w] = "post" => got[w] \notin doomed[man[w]]

\* Every request comes to an end, and none waits for ever for the manager.
EveryRequestEnds == \A w \in Workers : pc[w] # "idle" ~> pc[w] = "idle"
=============================================================================
