------------------------------ MODULE VaultData ------------------------------
(***************************************************************************)
(* The contents of auth.yaml: the provider accounts, as sequences because  *)
(* their order is the order of use, and the client keys by id.  A secret   *)
(* is who the account is and its API key; the tokens of a login are the    *)
(* matter of TokenRefresh.  Account ids are names, or the numbers          *)
(* setProviderKey makes up for keys pasted without a name (key-1, key-2).  *)
(***************************************************************************)
EXTENDS Naturals, Sequences, FiniteSetsExt, Functions

CONSTANTS Providers, ClientKeys,
          Accounts, Users, Emails, \* what identity providers name
          None                     \* an empty field

Secret(account, user, email, key) ==
    [account |-> account, user |-> user, email |-> email, key |-> key]

ApiKeyOnly(k) == Secret(None, None, None, k)

Vaults(secrets) ==
    [accounts : [Providers -> Seq(secrets)],
     keys     : [ClientKeys -> {"unknown", "active", "revoked"}]]

\* Who an account is, to the pool, to a write-back and to the dashboard.
Identity(s) ==
    IF s.user # None
    THEN IF s.account \in {None, s.user} THEN <<s.user>> ELSE <<s.account, s.user>>
    ELSE IF s.account # None
    THEN IF s.email \in {None, s.account} THEN <<s.account>> ELSE <<s.account, s.email>>
    ELSE IF s.email # None THEN <<s.email>>
    ELSE IF s.key # None THEN <<None>>   \* "api-key"
    ELSE <<>>

\* An entry stored before users were told apart.
Anonymous(old, s) ==
    /\ s.account # None /\ old.account = s.account
    /\ old.user = None /\ (old.email = None \/ old.email = s.email)

Replaces(s, old) ==
    \/ Identity(s) # <<>> /\ Identity(old) = Identity(s)
    \/ Anonymous(old, s)

\* Mutant: an account has one entry, whoever its users are.
UpsertByAccount(accounts, s) ==
    LET mine == {i \in DOMAIN accounts : s.account # None /\ accounts[i].account = s.account}
    IN  IF mine # {} THEN [accounts EXCEPT ![Min(mine)] = s] ELSE Append(accounts, s)

\* The first entry the login belongs to is overwritten, or one is added.
UpsertAccount(accounts, s) ==
    LET mine == {i \in DOMAIN accounts : Replaces(s, accounts[i])}
    IN  IF mine # {} THEN [accounts EXCEPT ![Min(mine)] = s] ELSE Append(accounts, s)

\* A write-back goes to the entry it was read from; an entry that is gone is
\* put back as if it had just been connected.
PutAccount(accounts, identity, s) ==
    LET mine == {i \in DOMAIN accounts : Identity(accounts[i]) = identity}
    IN  IF mine # {} THEN [accounts EXCEPT ![Min(mine)] = s] ELSE UpsertAccount(accounts, s)

\* One API key: into the first account, or as the only one.
SetOneKey(accounts, k) ==
    IF accounts = <<>> THEN <<ApiKeyOnly(k)>> ELSE [accounts EXCEPT ![1].key = k]

\* Pasted keys, each numbered by the length of the list before it.
WithPasted(accounts, ks) ==
    accounts \o [i \in DOMAIN ks |-> Secret(Len(accounts) + i, None, None, ks[i])]

WithoutAccount(accounts, identity) ==
    LET kept[i \in 0..Len(accounts)] ==
          IF i = 0 THEN <<>>
          ELSE IF Identity(accounts[i]) # identity THEN Append(kept[i - 1], accounts[i])
                                                   ELSE kept[i - 1]
    IN  kept[Len(accounts)]

\* The keys a request may come with.
IndexKeys(v) == {k \in ClientKeys : v.keys[k] = "active"}

=============================================================================
