----------------------------- MODULE VaultProofs -----------------------------
(***************************************************************************)
(* Proofs about AccountVault, for every number of requests, client keys,   *)
(* providers, logins, refreshes and faults.                                *)
(*                                                                         *)
(* JudgedAsOfArrival: each request is judged by the keys of the moment it  *)
(* arrived, although all of them share one cached index.  The cache is     *)
(* keyed by a pointer to a snapshot, so the argument is that a pointer     *)
(* determines the keys: whoever holds the same number holds the same keys, *)
(* and the latest number holds those of the vault.                         *)
(*                                                                         *)
(* ConnectedIsKept: a connected account keeps its entry, although entries  *)
(* are overwritten by whoever has their identity.                          *)
(***************************************************************************)
EXTENDS AccountVault, SequenceTheorems, FiniteSetTheorems, TLAPS

RequestType ==
  [pc : {"new", "arrived", "admitted", "refused"}, key : ClientKeys \cup {None},
   of : Nat, seen : SUBSET ClientKeys]

IndexType == [of : Nat \cup {None}, keys : SUBSET ClientKeys]

TypeInv ==
  /\ swaps \in Nat
  /\ index \in IndexType
  /\ requests \in [Requests -> RequestType]

\* The keys that belong to snapshot n, as far as somebody holds it.
Holds(n, keys) ==
  /\ n \in 0..swaps
  /\ n = swaps => keys = IndexKeys(vault)
  /\ n = index.of => keys = index.keys

\* The number of a snapshot determines its keys.
SnapshotsInv ==
  /\ index.of # None => Holds(index.of, index.keys)
  /\ \A r \in Requests : requests[r].pc # "new" => Holds(requests[r].of, requests[r].seen)
  /\ \A r, q \in Requests :
       requests[r].pc # "new" /\ requests[q].pc # "new" /\ requests[r].of = requests[q].of
         => requests[r].seen = requests[q].seen

IInv == TypeInv /\ SnapshotsInv /\ JudgedAsOfArrival

-----------------------------------------------------------------------------
LEMMA InitIInv == Init => IInv
<1> SUFFICES ASSUME Init PROVE IInv
  OBVIOUS
<1>1. swaps \in Nat /\ index \in IndexType
  BY DEF Init, IndexType
<1>2. NoRequest \in RequestType /\ NoRequest.pc = "new"
  BY DEF NoRequest, RequestType
<1>3. requests \in [Requests -> RequestType] /\ \A r \in Requests : requests[r].pc = "new"
  BY <1>2 DEF Init
<1>4. index.of = None
  BY DEF Init
<1> QED BY <1>1, <1>3, <1>4 DEF IInv, TypeInv, SnapshotsInv, JudgedAsOfArrival

\* A step that leaves the snapshot and its readers alone.
LEMMA Nothing ==
  ASSUME IInv, UNCHANGED <<vault, swaps, index, requests>>
  PROVE  IInv'
<1>1. TypeInv' /\ JudgedAsOfArrival'
  BY DEF IInv, TypeInv, JudgedAsOfArrival
<1>2. SnapshotsInv'
  BY DEF IInv, SnapshotsInv, Holds, IndexKeys
<1> QED BY <1>1, <1>2 DEF IInv

\* A new snapshot has a number that nobody holds yet.
LEMMA NewSnapshot ==
  ASSUME IInv, swaps' = swaps + 1, UNCHANGED <<index, requests>>
  PROVE  IInv'
<1>1. TypeInv' /\ JudgedAsOfArrival'
  BY DEF IInv, TypeInv, JudgedAsOfArrival
<1>2. ASSUME NEW n, NEW keys, Holds(n, keys) PROVE Holds(n, keys)'
  BY <1>2 DEF Holds, IInv, TypeInv
<1>3. SnapshotsInv'
  BY <1>2 DEF IInv, SnapshotsInv
<1> QED BY <1>1, <1>3 DEF IInv

\* The store moves on by whole snapshots.
LEMMA StoreMoves ==
  ASSUME [Next]_vars, ~Restart,
         \A r \in Requests : ~Authenticate(r) /\ \A k \in ClientKeys : ~Arrive(r, k)
  PROVE  /\ UNCHANGED <<index, requests>>
         /\ UNCHANGED <<vault, swaps>> \/ swaps' = swaps + 1
<1>1. CASE UNCHANGED vars
  BY <1>1 DEF vars
<1>2. CASE Reload
  BY <1>2 DEF Reload, Swap
<1>3. ASSUME NEW v, Update(v) PROVE swaps' = swaps + 1
  BY <1>3 DEF Update, Swap
<1>4. ASSUME UpdateFails PROVE UNCHANGED <<vault, swaps>>
  BY <1>4 DEF UpdateFails
<1>5. CASE Dashboard
  <2>1. ASSUME NEW p \in Providers, NEW accounts, NEW dues, Change(p, accounts, dues)
        PROVE  /\ UNCHANGED <<index, requests>>
               /\ UNCHANGED <<vault, swaps>> \/ swaps' = swaps + 1
    BY <1>3, <1>4, <2>1 DEF Change
  <2>2. ASSUME NEW k \in ClientKeys, CreateKey(k) \/ RevokeKey(k)
        PROVE  /\ UNCHANGED <<index, requests>>
               /\ UNCHANGED <<vault, swaps>> \/ swaps' = swaps + 1
    BY <1>3, <1>4, <2>2 DEF CreateKey, RevokeKey
  <2> QED BY <1>5, <2>1, <2>2 DEF Dashboard, SetKey, PasteKeys, DeleteAccount, DeleteProvider
<1>6. CASE OAuth
  <2>1. ASSUME NEW f \in Flows, FinishLogin(f)
        PROVE  /\ UNCHANGED <<index, requests>>
               /\ UNCHANGED <<vault, swaps>> \/ swaps' = swaps + 1
    BY <1>3, <1>4, <2>1 DEF FinishLogin
  <2> QED BY <1>6, <2>1 DEF OAuth, OAuthLogin, Forget, LoginFails, OAuthCallback, OAuthPaste, store
<1>7. ASSUME NEW w \in Refreshes,
             WriteBack(w) \/ \E p \in Providers : \E s \in Range(vault.accounts[p]) : ReadAccount(w, p, s)
      PROVE  /\ UNCHANGED <<index, requests>>
             /\ UNCHANGED <<vault, swaps>> \/ swaps' = swaps + 1
  BY <1>3, <1>4, <1>7 DEF WriteBack, ReadAccount, store
<1> QED BY <1>1, <1>2, <1>5, <1>6, <1>7 DEF Next

LEMMA StepArrive ==
  ASSUME IInv, NEW r \in Requests, NEW k \in ClientKeys, Arrive(r, k)
  PROVE  IInv'
<1> DEFINE x == [pc |-> "arrived", key |-> k, of |-> swaps, seen |-> IndexKeys(vault)]
<1>1. requests' = [requests EXCEPT ![r] = x] /\ UNCHANGED <<vault, swaps, index>>
  BY DEF Arrive, store
<1>2. x \in RequestType
  BY DEF RequestType, IInv, TypeInv, IndexKeys
<1>3. TypeInv'
  BY <1>1, <1>2 DEF IInv, TypeInv
<1>4. requests'[r] = x /\ \A q \in Requests \ {r} : requests'[q] = requests[q]
  BY <1>1 DEF IInv, TypeInv
<1>5. \A n, keys : Holds(n, keys)' <=> Holds(n, keys)
  BY <1>1 DEF Holds, IndexKeys
<1>6. Holds(swaps, IndexKeys(vault))
  BY VaultAssumption DEF IInv, TypeInv, SnapshotsInv, Holds
<1>7. ASSUME NEW q \in Requests, requests'[q].pc # "new"
      PROVE  /\ Holds(requests'[q].of, requests'[q].seen)
             /\ requests'[q].of = swaps => requests'[q].seen = IndexKeys(vault)
  BY <1>4, <1>6, <1>7 DEF IInv, SnapshotsInv, Holds
<1>8. SnapshotsInv'
  <2>1. (index.of # None => Holds(index.of, index.keys))'
    BY <1>1, <1>5 DEF IInv, SnapshotsInv
  <2>2. ASSUME NEW q \in Requests, requests'[q].pc # "new"
        PROVE  Holds(requests[q].of, requests[q].seen)'
    BY <1>1, <1>7, <2>2 DEF Holds, IndexKeys
  <2>3. ASSUME NEW a \in Requests, NEW b \in Requests, requests'[a].pc # "new",
               requests'[b].pc # "new", requests'[a].of = requests'[b].of
        PROVE  requests'[a].seen = requests'[b].seen
    BY <1>4, <1>7, <2>3 DEF IInv, SnapshotsInv
  <2> QED BY <2>1, <2>2, <2>3 DEF SnapshotsInv
<1>9. JudgedAsOfArrival'
  BY <1>4 DEF IInv, JudgedAsOfArrival
<1> QED BY <1>3, <1>8, <1>9 DEF IInv

LEMMA StepAuthenticate ==
  ASSUME IInv, NEW r \in Requests, Authenticate(r)
  PROVE  IInv'
<1> DEFINE rq == requests[r]
           new == [of |-> rq.of, keys |-> rq.seen]
<1>1. /\ rq.pc = "arrived" /\ rq \in RequestType /\ UNCHANGED <<vault, swaps>>
      /\ Holds(rq.of, rq.seen)
  BY DEF Authenticate, store, IInv, TypeInv, SnapshotsInv
<1>2. index' = new
  <2>1. CASE index.of = rq.of
    <3>1. index.keys = rq.seen
      BY <1>1, <2>1 DEF Holds
    <3>2. index' = index /\ index \in IndexType
      BY <2>1 DEF Authenticate, indexOf, IInv, TypeInv
    <3> QED BY <2>1, <3>1, <3>2 DEF IndexType
  <2>2. CASE index.of # rq.of
    BY <2>2 DEF Authenticate, indexOf
  <2> QED BY <2>1, <2>2
<1>3. PICK pc \in {"admitted", "refused"} :
        /\ requests' = [requests EXCEPT ![r].pc = pc]
        /\ pc = "admitted" <=> rq.key \in rq.seen
  <2>1. index'.keys = rq.seen
    BY <1>2
  <2>2. CASE rq.key \in rq.seen
    BY <2>1, <2>2 DEF Authenticate
  <2>3. CASE rq.key \notin rq.seen
    BY <2>1, <2>3 DEF Authenticate
  <2> QED BY <2>2, <2>3
<1> DEFINE x == [rq EXCEPT !.pc = pc]
<1>4. requests'[r] = x /\ (\A q \in Requests \ {r} : requests'[q] = requests[q])
      /\ x \in RequestType /\ x.of = rq.of /\ x.seen = rq.seen /\ x.key = rq.key /\ x.pc = pc
  BY <1>1, <1>3 DEF IInv, TypeInv, RequestType
<1>5. TypeInv'
  BY <1>1, <1>2, <1>3, <1>4 DEF IInv, TypeInv, IndexType, RequestType
<1>6. \A q \in Requests : /\ requests'[q].of = requests[q].of /\ requests'[q].seen = requests[q].seen
                          /\ requests'[q].pc # "new" <=> requests[q].pc # "new"
  BY <1>1, <1>4
<1>7. SnapshotsInv'
  <2>1. ASSUME NEW q \in Requests, requests[q].pc # "new"
        PROVE  requests[q].of = rq.of => requests[q].seen = rq.seen
    BY <1>1, <2>1 DEF IInv, SnapshotsInv
  <2>2. ASSUME NEW q \in Requests, requests'[q].pc # "new"
        PROVE  Holds(requests[q].of, requests[q].seen)'
    <3>1. Holds(requests[q].of, requests[q].seen) /\ requests[q].pc # "new"
      BY <1>6, <2>2 DEF IInv, SnapshotsInv
    <3> QED BY <1>1, <1>2, <1>6, <2>1, <3>1 DEF Holds, IndexKeys
  <2>3. (index.of # None => Holds(index.of, index.keys))'
    BY <1>1, <1>2 DEF Holds, IndexKeys
  <2>4. \A a, b \in Requests :
          requests'[a].pc # "new" /\ requests'[b].pc # "new" /\ requests'[a].of = requests'[b].of
            => requests'[a].seen = requests'[b].seen
    BY <1>6 DEF IInv, SnapshotsInv
  <2> QED BY <2>2, <2>3, <2>4 DEF SnapshotsInv
<1>8. JudgedAsOfArrival'
  BY <1>3, <1>4 DEF IInv, JudgedAsOfArrival
<1> QED BY <1>5, <1>7, <1>8 DEF IInv

LEMMA StepRestart == ASSUME IInv, Restart PROVE IInv'
<1>1. swaps' = swaps + 1 /\ index' = [of |-> None, keys |-> {}]
  BY DEF Restart, Swap
<1>2. ASSUME NEW r \in Requests
      PROVE  /\ requests'[r] \in {requests[r], NoRequest}
             /\ requests'[r].pc # "new" => requests'[r] = requests[r]
  BY <1>2 DEF Restart, NoRequest
<1>3. NoRequest \in RequestType /\ NoRequest.pc = "new"
  BY DEF NoRequest, RequestType
<1>4. requests' \in [Requests -> RequestType]
  BY <1>3 DEF Restart, IInv, TypeInv
<1>5. TypeInv'
  BY <1>1, <1>4 DEF IInv, TypeInv, IndexType
<1>6. SnapshotsInv'
  <2>1. ASSUME NEW r \in Requests, requests'[r].pc # "new"
        PROVE  Holds(requests[r].of, requests[r].seen)'
    <3>1. requests'[r] = requests[r] /\ requests[r].of \in 0..swaps
      BY <1>2, <2>1 DEF IInv, SnapshotsInv, Holds
    <3>2. requests[r].of \in Nat /\ swaps \in Nat
      BY <3>1 DEF IInv, TypeInv
    <3> QED BY <1>1, <3>1, <3>2, VaultAssumption DEF Holds
  <2>2. \A a, b \in Requests :
          requests'[a].pc # "new" /\ requests'[b].pc # "new" /\ requests'[a].of = requests'[b].of
            => requests'[a].seen = requests'[b].seen
    BY <1>2 DEF IInv, SnapshotsInv
  <2> QED BY <1>1, <2>1, <2>2 DEF SnapshotsInv
<1>7. JudgedAsOfArrival'
  BY <1>2, <1>3 DEF IInv, JudgedAsOfArrival
<1> QED BY <1>5, <1>6, <1>7 DEF IInv

LEMMA StepIInv == IInv /\ [Next]_vars => IInv'
<1> SUFFICES ASSUME IInv, [Next]_vars PROVE IInv'
  OBVIOUS
<1>1. CASE Restart
  BY <1>1, StepRestart
<1>2. CASE \E r \in Requests : Authenticate(r) \/ \E k \in ClientKeys : Arrive(r, k)
  BY <1>2, StepAuthenticate, StepArrive
<1>3. CASE ~Restart /\ \A r \in Requests : ~Authenticate(r) /\ \A k \in ClientKeys : ~Arrive(r, k)
  BY <1>3, StoreMoves, Nothing, NewSnapshot
<1> QED BY <1>1, <1>2, <1>3

-----------------------------------------------------------------------------
\* Every request is admitted or refused by the client keys that were active when
\* it arrived (Middleware), whatever updates, reloads, failed saves and restarts
\* fall between.
THEOREM JudgedFairly == Spec => []JudgedAsOfArrival
<1>1. IInv => JudgedAsOfArrival
  BY DEF IInv
<1> QED BY <1>1, InitIInv, StepIInv, PTL DEF Spec

-----------------------------------------------------------------------------
(***************************************************************************)
(* ConnectedIsKept.  An entry is found by its identity, so the argument is *)
(* about identities: whatever overwrites an entry has the identity of it,  *)
(* or names the user of an entry that had none; and two entries of one     *)
(* identity agree on whether they have a user.                             *)
(***************************************************************************)
LEMMA Identities ==
  ASSUME NEW s \in Secrets
  PROVE  /\ s.user # None /\ s.account # None => Identity(s) = <<s.account, s.user>>
         /\ s.user # None /\ s.account = None => Identity(s) = <<s.user>>
         /\ s.user = None /\ s.account # None /\ s.email # None => Identity(s) = <<s.account, s.email>>
         /\ s.user = None /\ s.account # None /\ s.email = None => Identity(s) = <<s.account>>
         /\ s.user = None /\ s.account = None /\ s.email # None => Identity(s) = <<s.email>>
         /\ s.user = None /\ s.account = None /\ s.email = None => Identity(s) \in {<<None>>, <<>>}
<1>1. /\ s.account # None => s.account \in Accounts \cup Nat
      /\ s.user # None => s.user \in Users
      /\ s.email # None => s.email \in Emails
  BY DEF Secrets
<1>2. s.user # None => s.user # s.account
  BY <1>1, NamesAssumption
<1>3. s.email # None => s.email # s.account
  BY <1>1, NamesAssumption
<1>4. ASSUME s.user # None, s.account # None PROVE Identity(s) = <<s.account, s.user>>
  BY <1>2, <1>4 DEF Identity
<1>5. ASSUME s.user # None, s.account = None PROVE Identity(s) = <<s.user>>
  BY <1>5 DEF Identity
<1>6. ASSUME s.user = None, s.account # None, s.email # None
      PROVE  Identity(s) = <<s.account, s.email>>
  BY <1>3, <1>6 DEF Identity
<1>7. ASSUME s.user = None, s.account # None, s.email = None PROVE Identity(s) = <<s.account>>
  BY <1>7 DEF Identity
<1>8. ASSUME s.user = None, s.account = None, s.email # None PROVE Identity(s) = <<s.email>>
  BY <1>8 DEF Identity
<1>9. ASSUME s.user = None, s.account = None, s.email = None
      PROVE  Identity(s) \in {<<None>>, <<>>}
  BY <1>9 DEF Identity
<1> QED
  BY <1>4, <1>5, <1>6, <1>7, <1>8, <1>9

\* Entries without a user that have the same identity have the same names.
LEMMA SameNames ==
  ASSUME NEW s \in Secrets, NEW t \in Secrets, Identity(s) = Identity(t),
         t.account # None, t.user = None
  PROVE  s.account = t.account /\ s.user = None /\ s.email = t.email
<1>1. \A r \in {s, t} : /\ r.account # None => r.account \in Accounts \cup Nat
                        /\ r.user # None => r.user \in Users
                        /\ r.email # None => r.email \in Emails
  BY DEF Secrets
<1>2. \A a, b, c : <<a>> # <<b, c>> /\ <<>> # <<a>> /\ <<>> # <<a, b>>
  OBVIOUS
<1>3. \A a, b, c, d : (<<a, b>> = <<c, d>> => a = c /\ b = d) /\ (<<a>> = <<c>> => a = c)
  OBVIOUS
<1>4. CASE t.email = None
  <2>1. Identity(s) = <<t.account>> /\ t.account \in Accounts \cup Nat
    BY <1>1, <1>4, Identities
  <2>2. s.user = None
    <3>1. ASSUME s.user # None PROVE Identity(s) \in {<<s.user>>, <<s.account, s.user>>}
      BY <3>1, Identities
    <3> QED
      BY <1>1, <1>2, <1>3, <2>1, <3>1, NamesAssumption
  <2>3. s.account # None
    <3>2. ASSUME s.account = None, s.email # None PROVE Identity(s) = <<s.email>>
      BY <2>2, <3>2, Identities
    <3>3. ASSUME s.account = None, s.email = None PROVE Identity(s) \in {<<None>>, <<>>}
      BY <2>2, <3>3, Identities
    <3> QED
      BY <1>1, <1>2, <1>3, <2>1, <3>2, <3>3, NamesAssumption, VaultAssumption
  <2>4. s.email = None
    BY <1>2, <2>1, <2>2, <2>3, Identities
  <2>5. Identity(s) = <<s.account>>
    BY <2>2, <2>3, <2>4, Identities
  <2> QED
    BY <1>3, <1>4, <2>1, <2>2, <2>4, <2>5
<1>5. CASE t.email # None
  <2>1. Identity(s) = <<t.account, t.email>> /\ t.email \in Emails
    BY <1>1, <1>5, Identities
  <2>2. s.account # None
    BY <1>2, <2>1, Identities
  <2>3. s.user # None => Identity(s) = <<s.account, s.user>> /\ s.user \in Users
    BY <1>1, <2>2, Identities
  <2>4. s.user = None
    BY <1>3, <2>1, <2>3, NamesAssumption
  <2>5. s.email # None
    BY <1>2, <2>1, <2>2, <2>4, Identities
  <2>6. Identity(s) = <<s.account, s.email>>
    BY <2>2, <2>4, <2>5, Identities
  <2> QED
    BY <1>3, <2>1, <2>4, <2>6
<1> QED
  BY <1>4, <1>5

LEMMA HasName ==
  ASSUME NEW s \in Secrets, s.account # None \/ s.user # None
  PROVE  Identity(s) # <<>>
<1>1. \A a, b : <<>> # <<a>> /\ <<>> # <<a, b>>
  OBVIOUS
<1> QED
  BY <1>1, Identities

-----------------------------------------------------------------------------
(* The edits of a list of accounts.                                        *)

LEMMA MinIs ==
  ASSUME NEW N \in Nat, NEW S \in SUBSET (0..N), S # {}
  PROVE  Min(S) \in S /\ \A b \in S : Min(S) <= b
<1> DEFINE Up == {0..x : x \in S}
<1>1. IsFiniteSet(0..N)
  BY FS_Interval
<1>2. Up # {} /\ Up \subseteq SUBSET (0..N)
  <2>1. ASSUME NEW x \in S PROVE (0..x) \subseteq 0..N
    <3>1. x \in 0..N
      OBVIOUS
    <3> QED BY <3>1
  <2> QED BY <2>1
<1>3. IsWellFoundedOn(StrictSubsetOrdering(0..N), FiniteSubsetsOf(0..N))
  BY FS_StrictSubsetOrderingWellFounded
<1>4. Up \subseteq FiniteSubsetsOf(0..N)
  BY <1>1, <1>2, FS_Subset DEF FiniteSubsetsOf
<1>5. PICK A \in Up : \A B \in Up : <<B, A>> \notin StrictSubsetOrdering(0..N)
  BY <1>2, <1>3, <1>4, WFMin
<1>6. PICK x \in S : A = 0..x
  OBVIOUS
<1>7. ASSUME NEW y \in S PROVE x <= y
  <2>1. x \in 0..N /\ y \in 0..N
    OBVIOUS
  <2>2. CASE y < x
    <3>1. (0..y) \in Up /\ (0..y) \subseteq A /\ x \in A /\ x \notin 0..y
      BY <1>6, <2>1, <2>2
    <3>2. <<0..y, A>> \in StrictSubsetOrdering(0..N)
      BY <1>2, <3>1 DEF StrictSubsetOrdering
    <3> QED BY <1>5, <3>1, <3>2
  <2> QED BY <2>1, <2>2
<1> QED BY <1>7 DEF Min

LEMMA FirstOfMine ==
  ASSUME NEW accounts \in Seq(Secrets), NEW mine, mine \subseteq DOMAIN accounts, mine # {}
  PROVE  Min(mine) \in mine
<1>1. Len(accounts) \in Nat /\ mine \in SUBSET (0..Len(accounts))
  BY LenProperties
<1> QED BY <1>1, MinIs

\* One entry overwritten: the others stay.
LEMMA Overwrites ==
  ASSUME NEW accounts \in Seq(Secrets), NEW s \in Secrets, NEW i \in DOMAIN accounts
  PROVE  LET new == [accounts EXCEPT ![i] = s]
         IN  /\ new \in Seq(Secrets) /\ s \in Range(new)
             /\ \A e \in Range(accounts) : e \in Range(new) \/ e = accounts[i]
<1> DEFINE new == [accounts EXCEPT ![i] = s]
<1>1. i \in 1..Len(accounts)
  BY LenProperties
<1>2. new \in Seq(Secrets)
  BY <1>1, ExceptSeq
<1>3. DOMAIN new = DOMAIN accounts /\ new[i] = s
      /\ \A j \in DOMAIN accounts : j # i => new[j] = accounts[j]
  OBVIOUS
<1>4. s \in Range(new)
  BY <1>3 DEF Range
<1>5. ASSUME NEW e \in Range(accounts) PROVE e \in Range(new) \/ e = accounts[i]
  <2>1. PICK j \in DOMAIN accounts : e = accounts[j]
    BY DEF Range
  <2> QED BY <1>3, <2>1 DEF Range
<1> QED BY <1>2, <1>4, <1>5

LEMMA Appends ==
  ASSUME NEW accounts \in Seq(Secrets), NEW s \in Secrets
  PROVE  LET new == Append(accounts, s)
         IN  /\ new \in Seq(Secrets)
             /\ Range(new) = Range(accounts) \cup {s}
<1> DEFINE new == Append(accounts, s)
<1>1. /\ new \in Seq(Secrets) /\ Len(new) = Len(accounts) + 1
      /\ \A i \in 1..Len(accounts) : new[i] = accounts[i]
      /\ new[Len(accounts) + 1] = s
  BY AppendProperties
<1>2. /\ Len(accounts) \in Nat /\ DOMAIN accounts = 1..Len(accounts)
      /\ DOMAIN new = 1..Len(accounts) + 1
  BY <1>1, LenProperties
<1> HIDE DEF new
<1>3. Range(new) = Range(accounts) \cup {s}
  <2>1. \A i \in DOMAIN new : i \in DOMAIN accounts \/ i = Len(accounts) + 1
    BY <1>2
  <2>2. DOMAIN accounts \subseteq DOMAIN new /\ Len(accounts) + 1 \in DOMAIN new
    BY <1>2
  <2> QED BY <1>1, <1>2, <2>1, <2>2 DEF Range
<1> QED BY <1>1, <1>3 DEF new

LEMMA Upserts ==
  ASSUME NEW accounts \in Seq(Secrets), NEW s \in Secrets
  PROVE  LET new == UpsertAccount(accounts, s)
         IN  /\ new \in Seq(Secrets) /\ s \in Range(new)
             /\ \A e \in Range(accounts) : e \in Range(new) \/ Replaces(s, e)
<1> DEFINE mine == {i \in DOMAIN accounts : Replaces(s, accounts[i])}
<1>1. CASE mine # {}
  <2> DEFINE i == Min(mine)
  <2>1. UpsertAccount(accounts, s) = [accounts EXCEPT ![i] = s]
    BY <1>1 DEF UpsertAccount
  <2>2. i \in mine
    BY <1>1, FirstOfMine
  <2> HIDE DEF i
  <2>3. i \in DOMAIN accounts /\ Replaces(s, accounts[i])
    BY <2>2
  <2> QED BY <2>1, <2>3, Overwrites
<1>2. CASE mine = {}
  <2>1. UpsertAccount(accounts, s) = Append(accounts, s)
    BY <1>2 DEF UpsertAccount
  <2> QED BY <2>1, Appends
<1> QED BY <1>1, <1>2

LEMMA Puts ==
  ASSUME NEW accounts \in Seq(Secrets), NEW s \in Secrets, NEW identity
  PROVE  LET new == PutAccount(accounts, identity, s)
         IN  /\ new \in Seq(Secrets) /\ s \in Range(new)
             /\ \A e \in Range(accounts) :
                  e \in Range(new) \/ Replaces(s, e) \/ Identity(e) = identity
<1> DEFINE mine == {i \in DOMAIN accounts : Identity(accounts[i]) = identity}
<1>1. CASE mine # {}
  <2> DEFINE i == Min(mine)
  <2>1. PutAccount(accounts, identity, s) = [accounts EXCEPT ![i] = s]
    BY <1>1 DEF PutAccount
  <2>2. i \in mine
    BY <1>1, FirstOfMine
  <2> HIDE DEF i
  <2>3. i \in DOMAIN accounts /\ Identity(accounts[i]) = identity
    BY <2>2
  <2> QED BY <2>1, <2>3, Overwrites
<1>2. CASE mine = {}
  <2>1. PutAccount(accounts, identity, s) = UpsertAccount(accounts, s)
    BY <1>2 DEF PutAccount
  <2> QED BY <2>1, Upserts
<1> QED BY <1>1, <1>2

\* One API key: identities change at the first entry only.
LEMMA SetsOneKey ==
  ASSUME NEW accounts \in Seq(Secrets), NEW k \in ApiKeys
  PROVE  LET new == SetOneKey(accounts, k)
         IN  /\ new \in Seq(Secrets)
             /\ \A e \in Range(accounts) :
                  accounts # <<>> /\ (e \in Range(new) \/ e = accounts[1])
<1>1. CASE accounts = <<>>
  <2>1. ApiKeyOnly(k) \in Secrets
    BY DEF ApiKeyOnly, Secret, Secrets, Keys
  <2>2. SetOneKey(accounts, k) = <<ApiKeyOnly(k)>>
    BY <1>1 DEF SetOneKey
  <2>3. Range(accounts) = {}
    BY <1>1 DEF Range
  <2> QED BY <2>1, <2>2, <2>3
<1>2. CASE accounts # <<>>
  <2> DEFINE s == [accounts[1] EXCEPT !.key = k]
  <2>1. 1 \in DOMAIN accounts
    BY <1>2, EmptySeq, LenProperties
  <2>2. accounts[1] \in Secrets
    BY <2>1
  <2>3. s \in Secrets
    BY <2>2 DEF Secrets, Keys
  <2>4. SetOneKey(accounts, k) = [accounts EXCEPT ![1] = s]
    BY <1>2 DEF SetOneKey
  <2> HIDE DEF s
  <2> QED BY <1>2, <2>1, <2>3, <2>4, Overwrites
<1> QED BY <1>1, <1>2

LEMMA Pasted ==
  ASSUME NEW accounts \in Seq(Secrets), NEW ks \in Pastes
  PROVE  LET new == WithPasted(accounts, ks)
         IN  new \in Seq(Secrets) /\ Range(accounts) \subseteq Range(new)
<1> DEFINE added == [i \in DOMAIN ks |-> Secret(Len(accounts) + i, None, None, ks[i])]
           new == accounts \o added
<1>1. ks \in Seq(Range(ks)) /\ Range(ks) \subseteq Keys
  BY VaultAssumption DEF Keys
<1>2. Len(ks) \in Nat /\ DOMAIN ks = 1..Len(ks) /\ Len(accounts) \in Nat
  BY <1>1, LenProperties
<1>3. \A i \in DOMAIN ks : Len(accounts) + i \in Nat /\ ks[i] \in Keys
  BY <1>1, <1>2 DEF Range
<1>4. \A i \in DOMAIN ks : added[i] \in Secrets
  BY <1>3 DEF Secret, Secrets
<1>5. added \in [1..Len(ks) -> Secrets]
  BY <1>2, <1>4
<1>6. added \in Seq(Secrets)
  BY <1>2, <1>5
<1> HIDE DEF added
<1>7. /\ new \in Seq(Secrets) /\ Len(new) = Len(accounts) + Len(added)
      /\ \A i \in 1..Len(accounts) : new[i] = accounts[i]
  BY <1>6, ConcatProperties
<1>8. /\ DOMAIN new = 1..Len(new) /\ DOMAIN accounts = 1..Len(accounts) /\ Len(added) \in Nat
  BY <1>6, <1>7, LenProperties
<1> HIDE DEF new
<1>9. Range(accounts) \subseteq Range(new)
  <2>1. DOMAIN accounts \subseteq DOMAIN new
    BY <1>2, <1>7, <1>8
  <2> QED BY <1>7, <1>8, <2>1 DEF Range
<1> QED BY <1>7, <1>9 DEF WithPasted, new, added

\* The loop of WithoutAccount, by a least counterexample: what has passed it is
\* a list, and of the entries before it those of other identities.
LEMMA Without ==
  ASSUME NEW accounts \in Seq(Secrets), NEW identity
  PROVE  LET new == WithoutAccount(accounts, identity)
         IN  /\ new \in Seq(Secrets)
             /\ \A e \in Range(accounts) : Identity(e) # identity => e \in Range(new)
<1> DEFINE N == Len(accounts)
           next(i, before) == IF Identity(accounts[i]) # identity THEN Append(before, accounts[i])
                              ELSE before
           Keeps(f, m) == f = [i \in 0..m |-> IF i = 0 THEN <<>> ELSE next(i, f[i - 1])]
           kept == CHOOSE f : Keeps(f, N)
           Bad == {m \in 0..N : ~\E f : Keeps(f, m)}
<1>1. N \in Nat /\ N \in 0..N /\ DOMAIN accounts = 1..N
  BY LenProperties
<1>2. WithoutAccount(accounts, identity) = kept[N]
  BY DEF WithoutAccount
<1> HIDE DEF N
<1>3. ASSUME Bad # {} PROVE FALSE
  <2>1. PICK m \in Bad : \A k \in Bad : m <= k
    BY <1>1, <1>3, MinIs
  <2>2. CASE m = 0
    <3>1. Keeps([i \in 0..0 |-> <<>>], 0)
      OBVIOUS
    <3> QED BY <2>1, <2>2, <3>1
  <2>3. CASE m # 0
    <3>1. m \in 1..N /\ m - 1 \in 0..N /\ ~(m <= m - 1)
      BY <1>1, <2>1, <2>3
    <3>2. PICK g : Keeps(g, m - 1)
      BY <2>1, <3>1
    <3> DEFINE f == [i \in 0..m |-> IF i = m THEN next(m, g[m - 1]) ELSE g[i]]
    <3> HIDE DEF next
    <3>3. ASSUME NEW i \in 0..m
          PROVE  f[i] = IF i = 0 THEN <<>> ELSE next(i, f[i - 1])
      <4>1. CASE i = m
        BY <1>1, <3>1, <4>1
      <4>2. CASE i # m
        <5>1. i \in 0..(m - 1)
          BY <1>1, <3>1, <4>2
        <5>2. i # 0 => i - 1 \in 0..(m - 1) /\ i - 1 # m
          BY <1>1, <3>1, <5>1
        <5> QED BY <3>1, <3>2, <5>1, <5>2
      <4> QED BY <4>1, <4>2
    <3>4. Keeps(f, m)
      BY <3>3
    <3> QED BY <2>1, <3>4
  <2> QED BY <2>2, <2>3
<1>4. Keeps(kept, N)
  <2>1. \E f : Keeps(f, N)
    BY <1>1, <1>3
  <2> HIDE DEF Keeps
  <2> QED BY <2>1
<1> HIDE DEF kept
<1>5. kept[0] = <<>> /\ \A i \in 1..N : kept[i] = next(i, kept[i - 1])
  <2>1. kept[0] = <<>>
    BY <1>1, <1>4
  <2>2. ASSUME NEW i \in 1..N PROVE kept[i] = next(i, kept[i - 1])
    <3>1. i \in 0..N /\ i # 0
      BY <1>1
    <3> HIDE DEF next
    <3> QED BY <1>4, <3>1
  <2> QED BY <2>1, <2>2
<1> HIDE DEF Keeps
<1> DEFINE Good(m) == /\ kept[m] \in Seq(Secrets)
                      /\ \A i \in 1..m : Identity(accounts[i]) # identity => accounts[i] \in Range(kept[m])
           Worse == {m \in 0..N : ~Good(m)}
<1>6. ASSUME Worse # {} PROVE FALSE
  <2>1. PICK m \in Worse : \A k \in Worse : m <= k
    BY <1>1, <1>6, MinIs
  <2>2. Good(0)
    BY <1>5, EmptySeq
  <2>3. m \in 1..N /\ m - 1 \in 0..N /\ ~(m <= m - 1)
    BY <1>1, <2>1, <2>2
  <2>4. Good(m - 1)
    BY <2>1, <2>3
  <2>5. accounts[m] \in Secrets /\ kept[m] = next(m, kept[m - 1])
    BY <1>1, <1>5, <2>3
  <2>6. CASE Identity(accounts[m]) # identity
    <3>1. kept[m] = Append(kept[m - 1], accounts[m])
      BY <2>5, <2>6
    <3>2. kept[m] \in Seq(Secrets) /\ Range(kept[m]) = Range(kept[m - 1]) \cup {accounts[m]}
      BY <2>4, <2>5, <3>1, Appends
    <3>3. \A i \in 1..m : i \in 1..(m - 1) \/ i = m
      BY <2>3
    <3> QED BY <2>1, <2>4, <3>2, <3>3
  <2>7. CASE Identity(accounts[m]) = identity
    <3>1. kept[m] = kept[m - 1]
      BY <2>5, <2>7
    <3>3. \A i \in 1..m : i \in 1..(m - 1) \/ i = m
      BY <2>3
    <3> QED BY <2>1, <2>4, <2>7, <3>1, <3>3
  <2> QED BY <2>6, <2>7
<1>7. Good(N)
  BY <1>1, <1>6
<1> QED BY <1>1, <1>2, <1>7 DEF Range

-----------------------------------------------------------------------------
(* The store and those who write to it.                                    *)

\* Every account that is owed has an entry of its identity.
Kept(accounts, dues) ==
  \A s \in dues : \E e \in Range(accounts) : Identity(e) = Identity(s)

RefreshType ==
  [pc : {"new", "refreshing", "done"}, provider : Providers \cup {None},
   identity : {Identity(s) : s \in Secrets}, secret : Secrets]

FlowType ==
  [pc : {"new", "pending", "forgotten", "exchanged", "failed", "connected"},
   provider : Providers \cup {None}, login : Secrets]

\* A broken file holds nothing, any other what memory holds.
StoreInv ==
  /\ vault \in Vaults(Secrets)
  /\ disk # Broken => disk = vault
  /\ owed \in [Providers -> SUBSET Secrets]
  /\ \A p \in Providers : Kept(vault.accounts[p], owed[p])

\* A refresh writes back to the entry it has read.
RefreshInv ==
  /\ refreshes \in [Refreshes -> RefreshType]
  /\ \A w \in Refreshes : refreshes[w].pc = "refreshing" =>
        /\ refreshes[w].provider \in Providers
        /\ refreshes[w].identity = Identity(refreshes[w].secret)

\* A login has a name.
FlowInv ==
  /\ flows \in [Flows -> FlowType]
  /\ \A f \in Flows :
        /\ flows[f].pc # "new" => flows[f].provider \in Providers
        /\ flows[f].pc = "exchanged" => Identity(flows[f].login) # <<>>

KeptInv == StoreInv /\ RefreshInv /\ FlowInv

\* Whoever the new entry s overwrites is s, or had no user and is now that of s.
LEMMA NamedAreKept ==
  ASSUME NEW accounts, NEW new, NEW s \in Secrets, NEW dues \in SUBSET Secrets,
         Range(accounts) \subseteq Secrets, s \in Range(new), Kept(accounts, dues),
         \A e \in Range(accounts) :
            e \in Range(new) \/ Identity(e) = Identity(s) \/ Anonymous(e, s)
  PROVE  /\ Kept(new, Named(dues, s)) /\ Kept(new, Named(dues, s) \cup {s})
         /\ Named(dues, s) \subseteq Secrets
<1>1. ASSUME NEW o \in dues, ~Anonymous(o, s)
      PROVE  \E e \in Range(new) : Identity(e) = Identity(o)
  <2>1. PICK e \in Range(accounts) : Identity(e) = Identity(o)
    BY DEF Kept
  <2>2. CASE e \in Range(new) \/ Identity(e) = Identity(s)
    BY <2>1, <2>2
  <2>3. CASE Anonymous(e, s)
    <3>1. e.account # None /\ e.user = None
      BY <2>3 DEF Anonymous
    <3>2. o.account = e.account /\ o.user = None /\ o.email = e.email
      BY <2>1, <3>1, SameNames
    <3> QED BY <1>1, <2>3, <3>2 DEF Anonymous
  <2> QED BY <2>2, <2>3
<1> QED BY <1>1 DEF Kept, Named

LEMMA KeptInit == Init => KeptInv
<1> SUFFICES ASSUME Init PROVE KeptInv
  OBVIOUS
<1>1. vault \in Vaults(Secrets) /\ disk = vault
  BY VaultAssumption DEF Init
<1>2. ASSUME NEW p \in Providers
      PROVE  /\ Range(vault.accounts[p]) \subseteq Secrets /\ owed[p] = Range(vault.accounts[p])
             /\ Kept(vault.accounts[p], owed[p])
  <2>1. vault.accounts[p] \in Seq(Secrets)
    BY <1>1 DEF Vaults
  <2>2. \A i \in DOMAIN vault.accounts[p] : vault.accounts[p][i] \in Secrets
    BY <2>1
  <2> QED BY <1>1, <2>2 DEF Init, Range, Kept
<1>3. owed \in [Providers -> SUBSET Secrets]
  BY <1>2 DEF Init
<1>4. NoSecret \in Secrets
  BY DEF NoSecret, Secret, Secrets
<1>5. NoSecret.account = None /\ Identity(NoSecret) = <<>>
  BY DEF NoSecret, Secret, Identity
<1>6. NoRefresh \in RefreshType /\ NoRefresh.pc = "new"
  BY <1>4, <1>5 DEF NoRefresh, RefreshType
<1>7. NoFlow \in FlowType /\ NoFlow.pc = "new"
  BY <1>4 DEF NoFlow, FlowType
<1> QED BY <1>1, <1>2, <1>3, <1>6, <1>7 DEF Init, KeptInv, StoreInv, RefreshInv, FlowInv

LEMMA AccountsOf ==
  ASSUME StoreInv, NEW p \in Providers
  PROVE  /\ vault.accounts[p] \in Seq(Secrets) /\ Range(vault.accounts[p]) \subseteq Secrets
         /\ owed[p] \subseteq Secrets
<1>1. vault.accounts[p] \in Seq(Secrets)
  BY DEF StoreInv, Vaults
<1>2. \A i \in DOMAIN vault.accounts[p] : vault.accounts[p][i] \in Secrets
  BY <1>1
<1> QED BY <1>1, <1>2 DEF Range, StoreInv

\* An update of the accounts of p, with what is owed there.
LEMMA AccountsKept ==
  ASSUME StoreInv, NEW p \in Providers, NEW new \in Seq(Secrets), NEW dues \in SUBSET Secrets,
         Kept(new, dues), Update(SetAccounts(p, new)), owed' = [owed EXCEPT ![p] = dues]
  PROVE  StoreInv'
<1>1. /\ vault \in [accounts : [Providers -> Seq(Secrets)],
                    keys : [ClientKeys -> {"unknown", "active", "revoked"}]]
      /\ owed \in [Providers -> SUBSET Secrets]
  BY DEF StoreInv, Vaults
<1>2. vault' = [vault EXCEPT !.accounts[p] = new] /\ disk' = vault'
  BY DEF Update, Swap, SetAccounts
<1>3. vault' \in Vaults(Secrets)
  BY <1>1, <1>2 DEF Vaults
<1>4. owed' \in [Providers -> SUBSET Secrets]
  BY <1>1
<1>5. ASSUME NEW q \in Providers PROVE Kept(vault'.accounts[q], owed'[q])
  <2>1. CASE q = p
    <3>1. vault'.accounts[q] = new /\ owed'[q] = dues
      BY <1>1, <1>2, <2>1
    <3> QED BY <3>1
  <2>2. CASE q # p
    <3>1. vault'.accounts[q] = vault.accounts[q] /\ owed'[q] = owed[q]
      BY <1>1, <1>2, <2>2
    <3> QED BY <3>1 DEF StoreInv
  <2> QED BY <2>1, <2>2
<1>6. (\A q \in Providers : Kept(vault.accounts[q], owed[q]))'
  BY <1>5 DEF Kept
<1> QED BY <1>2, <1>3, <1>4, <1>6 DEF StoreInv

\* A failed update, a reload and a restart: memory and the debts stay.
LEMMA StoreStays ==
  ASSUME StoreInv, vault' = vault, owed' = owed, disk' \in {disk, Broken}
  PROVE  StoreInv'
BY DEF StoreInv, Kept

\* A change of the client keys.
LEMMA KeysKept ==
  ASSUME StoreInv, NEW k \in ClientKeys, NEW status \in {"active", "revoked"},
         Update([vault EXCEPT !.keys[k] = status]), UNCHANGED owed
  PROVE  StoreInv'
<1>1. vault' = [vault EXCEPT !.keys[k] = status] /\ disk' = vault'
  BY DEF Update, Swap
<1>2. vault' \in Vaults(Secrets) /\ vault'.accounts = vault.accounts
  BY <1>1 DEF StoreInv, Vaults
<1>3. (\A p \in Providers : Kept(vault.accounts[p], owed[p]))'
  BY <1>2 DEF StoreInv, Kept
<1> QED BY <1>1, <1>2, <1>3 DEF StoreInv

LEMMA ChangeKeeps ==
  ASSUME KeptInv, NEW p \in Providers, NEW new \in Seq(Secrets), NEW dues \in SUBSET Secrets,
         Kept(new, dues), Change(p, new, dues)
  PROVE  KeptInv'
<1>1. UNCHANGED <<refreshes, flows>>
  BY DEF Change
<1>2. RefreshInv' /\ FlowInv'
  BY <1>1 DEF KeptInv, RefreshInv, FlowInv
<1>3. StoreInv'
  <2>1. CASE Update(SetAccounts(p, new)) /\ owed' = [owed EXCEPT ![p] = dues]
    BY <2>1, AccountsKept DEF KeptInv
  <2>2. CASE UpdateFails /\ UNCHANGED owed
    BY <2>2, StoreStays DEF KeptInv, UpdateFails
  <2> QED BY <2>1, <2>2 DEF Change
<1> QED BY <1>2, <1>3 DEF KeptInv

LEMMA InRange ==
  ASSUME NEW new \in Seq(Secrets)
  PROVE  Range(new) \in SUBSET Secrets
<1>1. \A i \in DOMAIN new : new[i] \in Secrets
  OBVIOUS
<1> QED BY <1>1 DEF Range

LEMMA StepSetKey ==
  ASSUME KeptInv, NEW p \in Providers, NEW k \in ApiKeys, SetKey(p, k)
  PROVE  KeptInv'
<1> DEFINE old == vault.accounts[p]
           new == SetOneKey(old, k)
           besides == IF old = <<>> THEN {} ELSE Besides(p, old[1])
           dues == Range(new) \cup besides
<1>1. old \in Seq(Secrets) /\ owed[p] \subseteq Secrets /\ Kept(old, owed[p])
  BY AccountsOf DEF KeptInv, StoreInv
<1>2. Change(p, new, dues)
  BY DEF SetKey
<1> HIDE DEF old
<1>3. /\ new \in Seq(Secrets)
      /\ \A e \in Range(old) : old # <<>> /\ (e \in Range(new) \/ e = old[1])
  BY <1>1, SetsOneKey
<1> HIDE DEF new
<1>4. besides \subseteq owed[p] /\ (old # <<>> => \A o \in besides : Identity(o) # Identity(old[1]))
  BY DEF Besides
<1> HIDE DEF besides
<1>5. dues \in SUBSET Secrets
  BY <1>1, <1>3, <1>4, InRange
<1>6. Kept(new, dues)
  <2>1. ASSUME NEW o \in besides PROVE \E e \in Range(new) : Identity(e) = Identity(o)
    <3>1. PICK e \in Range(old) : Identity(e) = Identity(o)
      BY <1>1, <1>4 DEF Kept
    <3> QED BY <1>3, <1>4, <3>1
  <2> QED BY <2>1 DEF Kept
<1> HIDE DEF dues
<1> QED BY <1>2, <1>3, <1>5, <1>6, ChangeKeeps

LEMMA StepPasteKeys ==
  ASSUME KeptInv, NEW p \in Providers, NEW ks \in Pastes, NEW append \in BOOLEAN,
         PasteKeys(p, ks, append)
  PROVE  KeptInv'
<1> DEFINE old == IF append THEN vault.accounts[p] ELSE <<>>
           new == WithPasted(old, ks)
           before == IF append THEN owed[p] ELSE {}
           dues == Range(new) \cup before
<1>1. old \in Seq(Secrets) /\ before \subseteq Secrets /\ Kept(old, before)
  <2>1. CASE append
    BY <2>1, AccountsOf DEF KeptInv, StoreInv
  <2>2. CASE ~append
    BY <2>2, EmptySeq DEF Kept
  <2> QED BY <2>1, <2>2
<1>2. Change(p, new, dues)
  BY DEF PasteKeys
<1> HIDE DEF old, before
<1>3. new \in Seq(Secrets) /\ Range(old) \subseteq Range(new)
  BY <1>1, Pasted
<1> HIDE DEF new
<1>4. dues \in SUBSET Secrets
  BY <1>1, <1>3, InRange
<1>5. Kept(new, dues)
  BY <1>1, <1>3 DEF Kept
<1> HIDE DEF dues
<1> QED BY <1>2, <1>3, <1>4, <1>5, ChangeKeeps

LEMMA StepDelete ==
  ASSUME KeptInv, NEW p \in Providers,
         DeleteProvider(p) \/ \E s \in Range(vault.accounts[p]) : DeleteAccount(p, s)
  PROVE  KeptInv'
<1> DEFINE old == vault.accounts[p]
<1>1. old \in Seq(Secrets) /\ owed[p] \subseteq Secrets /\ Kept(old, owed[p])
  BY AccountsOf DEF KeptInv, StoreInv
<1>2. CASE DeleteProvider(p)
  <2>1. <<>> \in Seq(Secrets) /\ Kept(<<>>, {})
    BY EmptySeq DEF Kept
  <2> QED BY <1>2, <2>1, ChangeKeeps DEF DeleteProvider
<1>3. ASSUME NEW s \in Range(vault.accounts[p]), DeleteAccount(p, s) PROVE KeptInv'
  <2> DEFINE new == WithoutAccount(old, Identity(s))
             dues == Besides(p, s)
  <2>1. Change(p, new, dues)
    BY <1>3 DEF DeleteAccount
  <2> HIDE DEF old
  <2>2. /\ new \in Seq(Secrets)
        /\ \A e \in Range(old) : Identity(e) # Identity(s) => e \in Range(new)
    BY <1>1, Without
  <2>3. dues \in SUBSET Secrets
    BY <1>1 DEF Besides
  <2>4. Kept(new, dues)
    BY <1>1, <2>2 DEF Kept, Besides
  <2> HIDE DEF new, dues
  <2> QED BY <2>1, <2>2, <2>3, <2>4, ChangeKeeps
<1> QED BY <1>2, <1>3

LEMMA StepFinishLogin ==
  ASSUME KeptInv, NEW f \in Flows, FinishLogin(f)
  PROVE  KeptInv'
<1> DEFINE p == flows[f].provider
           s == flows[f].login
           old == vault.accounts[p]
           new == UpsertAccount(old, s)
           dues == Named(owed[p], s) \cup {s}
<1>1. /\ flows[f].pc = "exchanged" /\ flows[f] \in FlowType
      /\ p \in Providers /\ s \in Secrets /\ Identity(s) # <<>>
  BY DEF FinishLogin, KeptInv, FlowInv, FlowType
<1>2. PICK pc \in {"connected", "failed"} : flows' = [flows EXCEPT ![f].pc = pc]
  BY DEF FinishLogin
<1>3. FlowInv'
  <2>1. /\ flows' \in [Flows -> FlowType] /\ flows'[f].pc = pc /\ flows'[f].provider = p
        /\ \A g \in Flows \ {f} : flows'[g] = flows[g]
    BY <1>1, <1>2 DEF KeptInv, FlowInv, FlowType
  <2> QED BY <1>1, <2>1 DEF KeptInv, FlowInv
<1>4. RefreshInv'
  BY DEF FinishLogin, KeptInv, RefreshInv
<1>5. CASE Update(SetAccounts(p, new)) /\ owed' = [owed EXCEPT ![p] = Named(@, s) \cup {s}]
  <2>1. /\ old \in Seq(Secrets) /\ Range(old) \subseteq Secrets /\ owed[p] \in SUBSET Secrets
        /\ Kept(old, owed[p]) /\ owed \in [Providers -> SUBSET Secrets]
    BY <1>1, AccountsOf DEF KeptInv, StoreInv
  <2>2. owed' = [owed EXCEPT ![p] = dues]
    BY <1>1, <1>5, <2>1
  <2> HIDE DEF p, s, old
  <2>3. /\ new \in Seq(Secrets) /\ s \in Range(new)
        /\ \A e \in Range(old) : e \in Range(new) \/ Replaces(s, e)
    BY <1>1, <2>1, Upserts
  <2> HIDE DEF new
  <2>4. \A e \in Range(old) : e \in Range(new) \/ Identity(e) = Identity(s) \/ Anonymous(e, s)
    BY <2>3 DEF Replaces
  <2>5. Kept(new, dues) /\ dues \in SUBSET Secrets
    BY <1>1, <2>1, <2>3, <2>4, NamedAreKept
  <2> HIDE DEF dues
  <2>6. StoreInv'
    BY <1>1, <1>5, <2>2, <2>3, <2>5, AccountsKept DEF KeptInv
  <2> QED BY <1>3, <1>4, <2>6 DEF KeptInv
<1>6. CASE UpdateFails /\ UNCHANGED owed
  BY <1>3, <1>4, <1>6, StoreStays DEF KeptInv, UpdateFails
<1> QED BY <1>5, <1>6 DEF FinishLogin

LEMMA StepWriteBack ==
  ASSUME KeptInv, NEW w \in Refreshes, WriteBack(w)
  PROVE  KeptInv'
<1> DEFINE rf == refreshes[w]
           p == rf.provider
           old == vault.accounts[p]
<1>1. /\ rf.pc = "refreshing" /\ rf \in RefreshType
      /\ p \in Providers /\ rf.secret \in Secrets /\ rf.identity = Identity(rf.secret)
  BY DEF WriteBack, KeptInv, RefreshInv, RefreshType
<1>2. RefreshInv'
  <2>1. /\ refreshes' \in [Refreshes -> RefreshType] /\ refreshes'[w].pc = "done"
        /\ \A v \in Refreshes \ {w} : refreshes'[v] = refreshes[v]
    BY <1>1 DEF WriteBack, KeptInv, RefreshInv, RefreshType
  <2> QED BY <2>1 DEF KeptInv, RefreshInv
<1>3. FlowInv'
  BY DEF WriteBack, KeptInv, FlowInv
<1>4. ASSUME NEW s \in {rf.secret} \cup {l \in Logins : Anonymous(rf.secret, l)},
             Update(SetAccounts(p, PutAccount(old, rf.identity, s))),
             owed' = [owed EXCEPT ![p] = Named(@, s)]
      PROVE  StoreInv'
  <2> DEFINE new == PutAccount(old, rf.identity, s)
             dues == Named(owed[p], s)
  <2>1. /\ old \in Seq(Secrets) /\ Range(old) \subseteq Secrets /\ owed[p] \in SUBSET Secrets
        /\ Kept(old, owed[p]) /\ owed \in [Providers -> SUBSET Secrets]
    BY <1>1, AccountsOf DEF KeptInv, StoreInv
  <2>2. owed' = [owed EXCEPT ![p] = dues]
    BY <1>1, <1>4, <2>1
  <2>3. s \in Secrets /\ (s = rf.secret \/ Anonymous(rf.secret, s))
    BY <1>1, LoginAssumption
  <2> HIDE DEF rf, p, old
  <2>4. /\ new \in Seq(Secrets) /\ s \in Range(new)
        /\ \A e \in Range(old) : e \in Range(new) \/ Replaces(s, e) \/ Identity(e) = rf.identity
    BY <2>1, <2>3, Puts
  <2> HIDE DEF new
  <2>5. ASSUME NEW e \in Range(old)
        PROVE  e \in Range(new) \/ Identity(e) = Identity(s) \/ Anonymous(e, s)
    <3>1. CASE Identity(e) = rf.identity /\ Anonymous(rf.secret, s)
      <4>1. rf.secret.account # None /\ rf.secret.user = None
        BY <3>1 DEF Anonymous
      <4>2. e.account = rf.secret.account /\ e.user = None /\ e.email = rf.secret.email
        BY <1>1, <2>1, <3>1, <4>1, SameNames
      <4> QED BY <3>1, <4>1, <4>2 DEF Anonymous
    <3>2. CASE Identity(e) = rf.identity /\ s = rf.secret
      BY <1>1, <3>2
    <3> QED BY <2>3, <2>4, <3>1, <3>2 DEF Replaces
  <2>6. Kept(new, dues) /\ dues \in SUBSET Secrets
    BY <2>1, <2>3, <2>4, <2>5, NamedAreKept
  <2> HIDE DEF dues
  <2> QED BY <1>1, <1>4, <2>2, <2>4, <2>6, AccountsKept DEF KeptInv, new
<1>5. ASSUME UpdateFails, UNCHANGED owed PROVE StoreInv'
  BY <1>5, StoreStays DEF KeptInv, UpdateFails
<1> QED BY <1>2, <1>3, <1>4, <1>5 DEF WriteBack, KeptInv

\* Steps of a login or a refresh that leave the store alone.
LEMMA FlowsMove ==
  ASSUME KeptInv, NEW f \in Flows, NEW x \in FlowType, UNCHANGED <<store, refreshes, owed>>,
         flows' = [flows EXCEPT ![f] = x],
         x.pc # "new" => x.provider \in Providers,
         x.pc = "exchanged" => Identity(x.login) # <<>>
  PROVE  KeptInv'
<1>1. StoreInv' /\ RefreshInv'
  BY StoreStays DEF store, KeptInv, RefreshInv
<1>2. FlowInv'
  BY DEF KeptInv, FlowInv
<1> QED BY <1>1, <1>2 DEF KeptInv

LEMMA StepOAuth ==
  ASSUME KeptInv, OAuth
  PROVE  KeptInv'
<1> SUFFICES ASSUME NEW f \in Flows,
                    \/ \E p \in Providers : OAuthLogin(f, p)
                    \/ Forget(f) \/ LoginFails(f) \/ FinishLogin(f)
                    \/ \E login \in Logins :
                         OAuthCallback(f, login) \/ \E p \in Providers : OAuthPaste(f, p, login)
             PROVE  KeptInv'
  BY DEF OAuth
<1>1. /\ flows[f] \in FlowType /\ (flows[f].pc # "new" => flows[f].provider \in Providers)
      /\ NoFlow \in FlowType
  <2>1. NoFlow \in FlowType
    BY DEF NoFlow, NoSecret, Secret, Secrets, FlowType
  <2> QED BY <2>1 DEF KeptInv, FlowInv
<1>2. ASSUME NEW p \in Providers, OAuthLogin(f, p) PROVE KeptInv'
  <2> DEFINE x == [NoFlow EXCEPT !.pc = "pending", !.provider = p]
  <2>1. x \in FlowType /\ x.pc = "pending" /\ x.provider = p
    BY <1>1 DEF FlowType
  <2>2. flows' = [flows EXCEPT ![f] = x] /\ UNCHANGED <<store, refreshes, owed>>
    BY <1>2 DEF OAuthLogin
  <2> HIDE DEF x
  <2> QED BY <2>1, <2>2, FlowsMove
<1>3. ASSUME NEW pc \in {"forgotten", "failed"}, flows' = [flows EXCEPT ![f].pc = pc],
             flows[f].pc # "new", UNCHANGED <<store, refreshes, owed>>
      PROVE  KeptInv'
  <2> DEFINE x == [flows[f] EXCEPT !.pc = pc]
  <2>1. x \in FlowType /\ x.pc = pc /\ x.provider = flows[f].provider
    BY <1>1 DEF FlowType
  <2>2. flows' = [flows EXCEPT ![f] = x]
    BY <1>3
  <2> HIDE DEF x
  <2> QED BY <1>1, <1>3, <2>1, <2>2, FlowsMove
<1>4. CASE Forget(f) \/ LoginFails(f)
  BY <1>3, <1>4 DEF Forget, LoginFails
<1>5. ASSUME NEW login \in Logins PROVE login \in Secrets /\ Identity(login) # <<>>
  BY LoginAssumption, HasName
<1>6. ASSUME NEW login \in Logins, OAuthCallback(f, login) PROVE KeptInv'
  <2> DEFINE x == [flows[f] EXCEPT !.pc = "exchanged", !.login = login]
  <2>1. /\ x \in FlowType /\ x.pc = "exchanged" /\ x.provider = flows[f].provider
        /\ x.login = login
    BY <1>1, <1>5 DEF FlowType
  <2>2. flows' = [flows EXCEPT ![f] = x] /\ UNCHANGED <<store, refreshes, owed>>
        /\ flows[f].pc # "new"
    BY <1>1, <1>6 DEF OAuthCallback, FlowType, KeptInv, FlowInv
  <2> HIDE DEF x
  <2> QED BY <1>1, <1>5, <2>1, <2>2, FlowsMove
<1>7. ASSUME NEW login \in Logins, NEW p \in Providers, OAuthPaste(f, p, login) PROVE KeptInv'
  <2> DEFINE x == [pc |-> "exchanged", provider |-> p, login |-> login]
  <2>1. x \in FlowType /\ x.pc = "exchanged" /\ x.provider = p /\ x.login = login
    BY <1>5 DEF FlowType
  <2>2. flows' = [flows EXCEPT ![f] = x] /\ UNCHANGED <<store, refreshes, owed>>
    BY <1>7 DEF OAuthPaste
  <2> HIDE DEF x
  <2> QED BY <1>5, <2>1, <2>2, FlowsMove
<1> QED BY <1>2, <1>4, <1>6, <1>7, StepFinishLogin

LEMMA StepReadAccount ==
  ASSUME KeptInv, NEW w \in Refreshes, NEW p \in Providers, NEW s \in Range(vault.accounts[p]),
         ReadAccount(w, p, s)
  PROVE  KeptInv'
<1> DEFINE x == [pc |-> "refreshing", provider |-> p, identity |-> Identity(s), secret |-> s]
<1>1. s \in Secrets
  BY AccountsOf DEF KeptInv
<1>2. x \in RefreshType /\ x.provider = p /\ x.identity = Identity(x.secret)
  BY <1>1 DEF RefreshType
<1>3. refreshes' = [refreshes EXCEPT ![w] = x] /\ UNCHANGED <<store, flows, owed>>
  BY DEF ReadAccount
<1> HIDE DEF x
<1>4. RefreshInv'
  BY <1>2, <1>3 DEF KeptInv, RefreshInv
<1>5. StoreInv' /\ FlowInv'
  BY <1>3, StoreStays DEF store, KeptInv, FlowInv
<1> QED BY <1>4, <1>5 DEF KeptInv

\* What was under way is gone; the debts are not.
LEMMA StepRestarts ==
  ASSUME KeptInv, Restart \/ Reload
  PROVE  KeptInv'
<1>1. StoreInv'
  <2>1. vault' = vault /\ disk' = disk /\ owed' = owed
    BY DEF Restart, Reload, Swap, KeptInv, StoreInv
  <2> QED BY <2>1, StoreStays DEF KeptInv
<1>2. CASE Reload
  BY <1>1, <1>2 DEF Reload, KeptInv, RefreshInv, FlowInv
<1>3. CASE Restart
  <2>1. NoRefresh \in RefreshType /\ NoRefresh.pc = "new"
    <3>1. NoSecret \in Secrets /\ Identity(NoSecret) = <<>>
      BY DEF NoSecret, Secret, Secrets, Identity
    <3> QED BY <3>1 DEF NoRefresh, RefreshType
  <2>2. RefreshInv'
    <3>1. \A w \in Refreshes :
             refreshes'[w] = IF refreshes[w].pc = "refreshing" THEN NoRefresh ELSE refreshes[w]
      BY <1>3 DEF Restart
    <3>2. refreshes' \in [Refreshes -> RefreshType]
      BY <1>3, <2>1 DEF Restart, KeptInv, RefreshInv
    <3> QED BY <2>1, <3>1, <3>2 DEF KeptInv, RefreshInv
  <2>3. FlowInv'
    <3>1. ASSUME NEW f \in Flows
          PROVE  \E pc \in {"new", "forgotten", "failed", "connected"} :
                    /\ flows'[f] = [flows[f] EXCEPT !.pc = pc]
                    /\ pc = "new" <=> flows[f].pc = "new"
      <4>1. flows[f] \in FlowType
        BY DEF KeptInv, FlowInv
      <4>2. flows'[f] = [flows[f] EXCEPT !.pc = CASE @ = "pending"   -> "forgotten"
                                                  [] @ = "exchanged" -> "failed"
                                                  [] OTHER           -> @]
        BY <1>3 DEF Restart
      <4>3. CASE flows[f].pc = "pending"
        BY <4>2, <4>3
      <4>4. CASE flows[f].pc = "exchanged"
        BY <4>2, <4>4
      <4>5. CASE flows[f].pc \notin {"pending", "exchanged"}
        BY <4>1, <4>2, <4>5 DEF FlowType
      <4> QED BY <4>3, <4>4, <4>5
    <3>2. ASSUME NEW f \in Flows
          PROVE  /\ flows'[f] \in FlowType /\ flows'[f].pc # "exchanged"
                 /\ flows'[f].pc # "new" => flows'[f].provider \in Providers
      BY <3>1 DEF KeptInv, FlowInv, FlowType
    <3>3. flows' = [f \in Flows |-> flows'[f]]
      BY <1>3 DEF Restart
    <3> QED BY <3>2, <3>3 DEF FlowInv
  <2> QED BY <1>1, <2>2, <2>3 DEF KeptInv
<1> QED BY <1>2, <1>3

LEMMA KeptNext == KeptInv /\ [Next]_vars => KeptInv'
<1> SUFFICES ASSUME KeptInv, [Next]_vars PROVE KeptInv'
  OBVIOUS
<1>1. ASSUME UNCHANGED <<vault, disk, refreshes, flows, owed>> PROVE KeptInv'
  BY <1>1, StoreStays DEF KeptInv, RefreshInv, FlowInv
<1>2. CASE UNCHANGED vars
  BY <1>1, <1>2 DEF vars
<1>3. ASSUME NEW r \in Requests, Authenticate(r) \/ \E k \in ClientKeys : Arrive(r, k)
      PROVE  KeptInv'
  BY <1>1, <1>3 DEF Authenticate, Arrive, store
<1>4. ASSUME NEW k \in ClientKeys, CreateKey(k) \/ RevokeKey(k) PROVE KeptInv'
  <2>1. UNCHANGED <<refreshes, flows, owed>>
    BY <1>4 DEF CreateKey, RevokeKey
  <2>2. StoreInv'
    <3>1. CASE UpdateFails
      BY <2>1, <3>1, StoreStays DEF KeptInv, UpdateFails
    <3>2. CASE \E status \in {"active", "revoked"} : Update([vault EXCEPT !.keys[k] = status])
      BY <2>1, <3>2, KeysKept DEF KeptInv
    <3> QED BY <1>4, <3>1, <3>2 DEF CreateKey, RevokeKey
  <2> QED BY <2>1, <2>2 DEF KeptInv, RefreshInv, FlowInv
<1>5. CASE Dashboard
  BY <1>4, <1>5, StepSetKey, StepPasteKeys, StepDelete DEF Dashboard
<1>6. ASSUME NEW w \in Refreshes,
             WriteBack(w) \/ \E p \in Providers : \E s \in Range(vault.accounts[p]) : ReadAccount(w, p, s)
      PROVE  KeptInv'
  BY <1>6, StepWriteBack, StepReadAccount
<1> QED BY <1>2, <1>3, <1>5, <1>6, StepOAuth, StepRestarts DEF Next

\* An account the page said is connected (oauthCallback, finishCodexLogin, the
\* key forms) keeps its entry until the user deletes or overwrites it, whatever
\* other logins, write-backs of older snapshots, failed saves, reloads and
\* restarts fall between.
THEOREM AccountsStay == Spec => []ConnectedIsKept
<1>1. KeptInv => ConnectedIsKept
  BY DEF KeptInv, StoreInv, Kept, ConnectedIsKept
<1> QED BY <1>1, KeptInit, KeptNext, PTL DEF Spec
=============================================================================
