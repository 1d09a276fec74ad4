---------------------------- MODULE AccountVault ----------------------------
(***************************************************************************)
(* The vault in memory and on disk, and those who use it at once: the      *)
(* dashboard's forms, the OAuth logins that come back through the browser, *)
(* the requests that authenticate with a client key, and the token         *)
(* refreshes that write an account back.  Every change is one Update: it   *)
(* holds the store's lock while it copies, changes, saves and swaps.  Who  *)
(* reads holds a snapshot that stays as it was.                            *)
(***************************************************************************)
EXTENDS VaultData

CONSTANTS Requests, Refreshes, Flows,
          Logins,      \* who may come back from an identity provider
          ApiKeys, Pastes,
          Stored,      \* what auth.yaml holds at first
          Broken,      \* a file that does not decrypt
          MaxSwaps,    \* bound: snapshots
          MaxFaults    \* bound: saves that fail and restarts

\* What an entry may hold: an account is named by its identity provider, or
\* numbered by setProviderKey.
Keys == ApiKeys \cup UNION {Range(ks) : ks \in Pastes}

Secrets ==
    [account : Accounts \cup Nat \cup {None}, user : Users \cup {None},
     email : Emails \cup {None}, key : Keys \cup {None}]

\* Snapshots are numbered; None is no number.
ASSUME VaultAssumption ==
    /\ None \notin Nat
    /\ Stored \subseteq Vaults(Secrets)
    /\ \A ks \in Pastes : ks \in Seq(Range(ks))

\* Nobody comes back from a login without a name: oauthCallback and
\* finishCodexLogin refuse it.
ASSUME LoginAssumption ==
    Logins \subseteq {s \in Secrets : s.account # None \/ s.user # None}

\* The name of an account, the id of a user and a mail address differ: the
\* identity of an entry tells which of them it has.
ASSUME NamesAssumption ==
    /\ None \notin Accounts \cup Users \cup Emails
    /\ Accounts \cap Users = {} /\ Accounts \cap Emails = {} /\ Users \cap Emails = {}
    /\ Nat \cap (Users \cup Emails) = {}

VARIABLES
    vault,     \* store.v: the snapshot Get returns
    swaps,     \* the identity of that snapshot: a pointer, moved by every swap
    disk,      \* auth.yaml
    index,     \* the middleware's [of, keys]: an index and the snapshot it is of
    requests,  \* per request [pc, key, of, seen]
    refreshes, \* per refresh [pc, provider, identity, secret]
    flows,     \* per login [pc, provider, login]
    cookie,    \* the login the browser started last
    faults,    \* the faults so far
    owed       \* history: per provider the accounts the user was told are connected

vars == <<vault, swaps, disk, index, requests, refreshes, flows, cookie, faults, owed>>
store == <<vault, swaps, disk>>

NoSecret == Secret(None, None, None, None)
NoRequest == [pc |-> "new", key |-> None, of |-> 0, seen |-> {}]
NoRefresh == [pc |-> "new", provider |-> None, identity |-> <<>>, secret |-> NoSecret]
NoFlow    == [pc |-> "new", provider |-> None, login |-> NoSecret]

Init ==
    /\ disk \in Stored
    /\ vault = disk
    /\ swaps = 0
    /\ index = [of |-> None, keys |-> {}]
    /\ requests = [r \in Requests |-> NoRequest]
    /\ refreshes = [w \in Refreshes |-> NoRefresh]
    /\ flows = [f \in Flows |-> NoFlow]
    /\ cookie = None
    /\ faults = 0
    /\ owed = [p \in Providers |-> Range(disk.accounts[p])]

----------------------------------------------------------------------------
(* Store.Update.                                                           *)

Swap(v) ==
    /\ swaps < MaxSwaps
    /\ vault' = v
    /\ swaps' = swaps + 1

Update(v) == Swap(v) /\ disk' = v /\ UNCHANGED faults

\* The write fails after it truncated the file: memory keeps the old vault.
UpdateFails ==
    /\ faults < MaxFaults
    /\ faults' = faults + 1
    /\ disk' = Broken
    /\ UNCHANGED <<vault, swaps>>

SetAccounts(p, accounts) == [vault EXCEPT !.accounts[p] = accounts]

----------------------------------------------------------------------------
(* The dashboard.                                                          *)

\* What is owed at p besides the account of s.
Besides(p, s) == {o \in owed[p] : Identity(o) # Identity(s)}

\* An entry without a user becomes the entry of its user.
Named(dues, s) == {IF Anonymous(o, s) THEN s ELSE o : o \in dues}

\* A form that changes the accounts of p and, with them, what is owed there.
Change(p, accounts, dues) ==
    /\ \/ Update(SetAccounts(p, accounts)) /\ owed' = [owed EXCEPT ![p] = dues]
       \/ UpdateFails /\ UNCHANGED owed
    /\ UNCHANGED <<index, requests, refreshes, flows, cookie>>

\* createProvider and setProviderKey with one key.
SetKey(p, k) ==
    LET old == vault.accounts[p]
        accounts == SetOneKey(old, k)
    IN  Change(p, accounts,
               Range(accounts) \cup (IF old = <<>> THEN {} ELSE Besides(p, old[1])))

PasteKeys(p, ks, append) ==
    LET accounts == WithPasted(IF append THEN vault.accounts[p] ELSE <<>>, ks)
    IN  Change(p, accounts, Range(accounts) \cup (IF append THEN owed[p] ELSE {}))

DeleteAccount(p, s) ==
    /\ s \in Range(vault.accounts[p]) /\ Identity(s) # <<>>
    /\ Change(p, WithoutAccount(vault.accounts[p], Identity(s)), Besides(p, s))

\* The secrets of a provider go with it.
DeleteProvider(p) == Change(p, <<>>, {})

CreateKey(k) ==
    /\ vault.keys[k] = "unknown"
    /\ Update([vault EXCEPT !.keys[k] = "active"]) \/ UpdateFails
    /\ UNCHANGED <<index, requests, refreshes, flows, cookie, owed>>

RevokeKey(k) ==
    /\ vault.keys[k] = "active"
    /\ Update([vault EXCEPT !.keys[k] = "revoked"]) \/ UpdateFails
    /\ UNCHANGED <<index, requests, refreshes, flows, cookie, owed>>

----------------------------------------------------------------------------
(* Logins.  A flow is known by its state parameter; the table of pending   *)
(* flows is in memory and forgets a flow that is used, too old or from     *)
(* before a restart, and then the browser's cookies stand in for it.       *)

OAuthLogin(f, p) ==
    /\ flows[f].pc = "new"
    /\ flows' = [flows EXCEPT ![f] = [NoFlow EXCEPT !.pc = "pending", !.provider = p]]
    /\ cookie' = f
    /\ UNCHANGED <<store, index, requests, refreshes, faults, owed>>

\* The table forgets: fifteen minutes, or a thousand flows.
Forget(f) ==
    /\ flows[f].pc = "pending"
    /\ flows' = [flows EXCEPT ![f].pc = "forgotten"]
    /\ UNCHANGED <<store, index, requests, refreshes, cookie, faults, owed>>

\* The browser, or a pasted URL, brings the state and a code; the exchange and
\* the lookup of who logged in follow without a lock.
OAuthCallback(f, login) ==
    /\ \/ flows[f].pc = "pending"
       \/ flows[f].pc = "forgotten" /\ cookie = f
    /\ flows' = [flows EXCEPT ![f].pc = "exchanged", ![f].login = login]
    /\ UNCHANGED <<store, index, requests, refreshes, cookie, faults, owed>>

\* A pasted code needs no flow of the table: the form names the provider.
OAuthPaste(f, p, login) ==
    /\ flows[f].pc = "new"
    /\ flows' = [flows EXCEPT ![f] = [pc |-> "exchanged", provider |-> p, login |-> login]]
    /\ UNCHANGED <<store, index, requests, refreshes, cookie, faults, owed>>

\* Any step on the way may be refused by the identity provider.
LoginFails(f) ==
    /\ flows[f].pc = "exchanged"
    /\ flows' = [flows EXCEPT ![f].pc = "failed"]
    /\ UNCHANGED <<store, index, requests, refreshes, cookie, faults, owed>>

\* "Connected": the credentials are persisted before the page says so.
FinishLogin(f) ==
    LET p == flows[f].provider
        s == flows[f].login
    IN  /\ flows[f].pc = "exchanged"
        /\ \/ /\ Update(SetAccounts(p, UpsertAccount(vault.accounts[p], s)))
              /\ flows' = [flows EXCEPT ![f].pc = "connected"]
              /\ owed' = [owed EXCEPT ![p] = Named(@, s) \cup {s}]
           \/ /\ UpdateFails
              /\ flows' = [flows EXCEPT ![f].pc = "failed"]
              /\ UNCHANGED owed
        /\ UNCHANGED <<index, requests, refreshes, cookie>>

----------------------------------------------------------------------------
(* A token refresh: it reads an account, talks to the endpoint and writes  *)
(* the account back, perhaps knowing better who it is.                     *)

ReadAccount(w, p, s) ==
    /\ refreshes[w].pc = "new"
    /\ s \in Range(vault.accounts[p])
    /\ s.account # None /\ s.key = None
    /\ refreshes' = [refreshes EXCEPT ![w] =
         [pc |-> "refreshing", provider |-> p, identity |-> Identity(s), secret |-> s]]
    /\ UNCHANGED <<store, index, requests, flows, cookie, faults, owed>>

\* The new ID token names the user of an account that had none.
WriteBack(w) ==
    LET rf == refreshes[w]
        known == {rf.secret} \cup {l \in Logins : Anonymous(rf.secret, l)}
    IN  /\ rf.pc = "refreshing"
        /\ \/ \E s \in known :
                /\ Update(SetAccounts(rf.provider,
                            PutAccount(vault.accounts[rf.provider], rf.identity, s)))
                /\ owed' = [owed EXCEPT ![rf.provider] = Named(@, s)]
           \/ UpdateFails /\ UNCHANGED owed
        /\ refreshes' = [refreshes EXCEPT ![w].pc = "done"]
        /\ UNCHANGED <<index, requests, flows, cookie>>

----------------------------------------------------------------------------
(* Requests: Middleware reads the snapshot, then looks the key up in the   *)
(* index of that snapshot, which it builds when the cached one is another's. *)

Arrive(r, k) ==
    /\ requests[r].pc = "new"
    /\ requests' = [requests EXCEPT ![r] =
         [pc |-> "arrived", key |-> k, of |-> swaps, seen |-> IndexKeys(vault)]]
    /\ UNCHANGED <<store, index, refreshes, flows, cookie, faults, owed>>

\* Mutant: the index is built for the first request and kept.
firstIndex(r) ==
    IF index.of # None
    THEN index
    ELSE [of |-> requests[r].of, keys |-> requests[r].seen]

indexOf(r) ==
    IF index.of = requests[r].of
    THEN index
    ELSE [of |-> requests[r].of, keys |-> requests[r].seen]

Authenticate(r) ==
    /\ requests[r].pc = "arrived"
    /\ index' = indexOf(r)
    /\ requests' = [requests EXCEPT
         ![r].pc = IF requests[r].key \in index'.keys THEN "admitted" ELSE "refused"]
    /\ UNCHANGED <<store, refreshes, flows, cookie, faults, owed>>

----------------------------------------------------------------------------
\* The watcher saw another mtime: the file is read again and becomes a new
\* snapshot, unless it does not decrypt.
Reload ==
    /\ disk # Broken
    /\ Swap(disk)
    /\ UNCHANGED <<disk, index, requests, refreshes, flows, cookie, faults, owed>>

\* The process dies and starts again from the file; a broken one stops it.
Restart ==
    /\ faults < MaxFaults
    /\ disk # Broken
    /\ faults' = faults + 1
    /\ Swap(disk)
    /\ index' = [of |-> None, keys |-> {}]
    /\ requests' = [r \in Requests |-> IF requests[r].pc = "arrived" THEN NoRequest
                                                                     ELSE requests[r]]
    /\ refreshes' = [w \in Refreshes |-> IF refreshes[w].pc = "refreshing"
                                         THEN NoRefresh ELSE refreshes[w]]
    /\ flows' = [f \in Flows |->
         [flows[f] EXCEPT !.pc = CASE @ = "pending"   -> "forgotten"
                                   [] @ = "exchanged" -> "failed"
                                   [] OTHER           -> @]]
    /\ UNCHANGED <<disk, cookie, owed>>

Dashboard ==
    \/ \E p \in Providers :
         \/ \E k \in ApiKeys : SetKey(p, k)
         \/ \E ks \in Pastes, append \in BOOLEAN : PasteKeys(p, ks, append)
         \/ \E s \in Range(vault.accounts[p]) : DeleteAccount(p, s)
         \/ DeleteProvider(p)
    \/ \E k \in ClientKeys : CreateKey(k) \/ RevokeKey(k)

OAuth ==
    \E f \in Flows :
       \/ \E p \in Providers : OAuthLogin(f, p)
       \/ Forget(f) \/ LoginFails(f) \/ FinishLogin(f)
       \/ \E login \in Logins :
            OAuthCallback(f, login) \/ \E p \in Providers : OAuthPaste(f, p, login)

Next ==
    \/ Dashboard \/ OAuth \/ Reload \/ Restart
    \/ \E w \in Refreshes :
         \/ \E p \in Providers : \E s \in Range(vault.accounts[p]) : ReadAccount(w, p, s)
         \/ WriteBack(w)
    \/ \E r \in Requests : Authenticate(r) \/ \E k \in ClientKeys : Arrive(r, k)

Spec == Init /\ [][Next]_vars

----------------------------------------------------------------------------
(* Properties.                                                             *)

\* An account the dashboard said is connected stays in the vault until the
\* user removes or overwrites it: no login of another user of the same account,
\* no write-back of an older snapshot and no restart takes it away.  An entry
\* without a user may become the entry of its user, who is owed it then.
ConnectedIsKept ==
    \A p \in Providers : \A s \in owed[p] :
        \E e \in Range(vault.accounts[p]) : Identity(e) = Identity(s)

\* A client key works from the moment its creation is acknowledged and no
\* longer once its revocation is: whatever snapshots other requests bring, a
\* request is judged by the keys that were active when it arrived.
JudgedAsOfArrival ==
    \A r \in Requests :
        /\ requests[r].pc = "admitted" => requests[r].key \in requests[r].seen
        /\ requests[r].pc = "refused"  => requests[r].key \notin requests[r].seen
=============================================================================
