----------------------------- MODULE PoolProofs -----------------------------
(***************************************************************************)
(* Proofs about AccountPool, for every number of requests, models,         *)
(* accounts, reloads and polls: types, the balance of the limiter, answers *)
(* of one account, innocent accounts that stay warm, and bad prompts that  *)
(* cost antigravity no target.                                             *)
(***************************************************************************)
EXTENDS AccountPool, FiniteSetTheorems, WellFoundedInduction, TLAPS

-----------------------------------------------------------------------------
(* A set of numbers has a first one *)

\* First is the least element of a bounded set of numbers.  (The intervals that
\* end in the set have a least one, since inclusion of finite sets is well-founded.)
LEMMA FirstIs ==
  ASSUME NEW N \in Nat, NEW S \in SUBSET (0..N), S # {}
  PROVE  First(S) \in S /\ \A b \in S : First(S) <= b
<1> DEFINE Up == {0..x : x \in S}
<1>1. IsFiniteSet(0..N)
  BY FS_Interval
<1>2. Up # {}
  OBVIOUS
<1>3. Up \subseteq SUBSET (0..N)
  <2>1. ASSUME NEW x \in S PROVE (0..x) \subseteq 0..N
    <3>1. x \in 0..N
      OBVIOUS
    <3> QED BY <3>1
  <2> QED BY <2>1
<1>4. IsWellFoundedOn(StrictSubsetOrdering(0..N), FiniteSubsetsOf(0..N))
  BY FS_StrictSubsetOrderingWellFounded
<1>5. Up \subseteq FiniteSubsetsOf(0..N)
  BY <1>1, <1>3, FS_Subset DEF FiniteSubsetsOf
<1>6. PICK A \in Up : \A B \in Up : <<B, A>> \notin StrictSubsetOrdering(0..N)
  BY <1>2, <1>4, <1>5, WFMin
<1>7. PICK x \in S : A = 0..x
  OBVIOUS
<1>8. ASSUME NEW y \in S PROVE x <= y
  <2>1. x \in 0..N /\ y \in 0..N
    OBVIOUS
  <2>2. CASE y < x
    <3>1. (0..y) \in Up /\ (0..y) \subseteq A /\ x \in A /\ x \notin 0..y
      BY <1>7, <2>1, <2>2
    <3>2. <<0..y, A>> \in StrictSubsetOrdering(0..N)
      BY <1>3, <3>1 DEF StrictSubsetOrdering
    <3> QED BY <3>1, <3>2, <1>6
  <2> QED BY <2>1, <2>2
<1> QED BY <1>8 DEF First

\* The account in use is one of those that are left.
LEMMA AccountIs ==
  ASSUME TypeOK, NEW r \in Requests, reqs[r].left # {}
  PROVE  Account(r) \in reqs[r].left /\ Account(r) \in Accounts
<1>1. reqs[r].left \in SUBSET (1..NAccounts)
  BY DEF TypeOK, RequestType, Accounts
<1>2. reqs[r].left \in SUBSET (0..NAccounts) /\ reqs[r].left \subseteq Accounts
  BY <1>1, PoolAssumption DEF Accounts
<1> QED BY <1>2, FirstIs, PoolAssumption DEF Account

\* A cooldown of the syncer lasts for at most MaxCool.
LEMMA CooldownIs ==
  ASSUME TypeOK, NEW resets \in SUBSET (1..(MaxTime + MaxCool + 1))
  PROVE  CooldownFor(resets) \in 0..MaxCool
<1> DEFINE later == {t \in resets : t > now}
<1>1. CASE later = {}
  BY <1>1, PoolAssumption DEF CooldownFor
<1>2. CASE later # {}
  <2>1. later \in SUBSET (0..(MaxTime + MaxCool + 1)) /\ MaxTime + MaxCool + 1 \in Nat
    <3>1. MaxTime + MaxCool + 1 \in Nat
      BY PoolAssumption
    <3>2. ASSUME NEW t \in later PROVE t \in 0..(MaxTime + MaxCool + 1)
      BY <3>1
    <3> QED BY <3>1, <3>2
  <2>2. First(later) \in later
    BY <1>2, <2>1, FirstIs
  <2>3. First(later) - now \in Nat
    BY <2>2, <2>1 DEF TypeOK
  <2> QED BY <1>2, <2>3, PoolAssumption DEF CooldownFor
<1> QED BY <1>1, <1>2

-----------------------------------------------------------------------------
(* Types *)

LEMMA NewIsTyped == NewRequest \in RequestType
<1>1. 1 \in Settings /\ 1 \in Instances
  BY PoolAssumption DEF Settings, Instances
<1> QED BY <1>1 DEF NewRequest, RequestType, Phases, Endings

LEMMA TypeInit == Init => TypeOK
<1> SUFFICES ASSUME Init PROVE TypeOK
  OBVIOUS
<1>1. 1 \in Settings /\ 1 \in Instances /\ NoDrain \in DrainType
  BY PoolAssumption DEF Settings, Instances, NoDrain, DrainType, Failures
<1>2. NewRequest \in RequestType
  BY NewIsTyped
<1>3. /\ style \in {"codex", "antigravity"} /\ limit \in Limits /\ live \in BOOLEAN
      /\ now \in Nat /\ config \in Settings
  BY <1>1 DEF Init
<1>4. registry \in [config : Settings, inst : Instances, built : Instances]
  BY <1>1 DEF Init
<1>5. drains \in [Instances -> [Accounts -> [Models \cup {Everything} -> DrainType]]]
  BY <1>1 DEF Init
<1>6. slots \in [Instances -> Nat] /\ reqs \in [Requests -> RequestType]
  BY <1>2 DEF Init
<1>7. poll \in [reads : Accounts \cup {Nobody}, number : Nat] /\ faulty \in BOOLEAN
  BY DEF Init
<1> QED BY <1>3, <1>4, <1>5, <1>6, <1>7 DEF TypeOK

\* What a request does to itself keeps to the types.
LEMMA ReqType ==
  ASSUME TypeOK, NEW r \in Requests, NEW x \in RequestType,
         reqs' = [reqs EXCEPT ![r] = x]
  PROVE  reqs' \in [Requests -> RequestType]
BY DEF TypeOK

-----------------------------------------------------------------------------
(* The balance of the limiter *)

\* Who holds a slot is counted.
LEMMA SlotHeld ==
  ASSUME TypeOK, SlotsBalanced, NEW r \in Requests, HoldsSlot(r)
  PROVE  /\ reqs[r].inst \in Instances
         /\ slots[reqs[r].inst] \in Nat /\ slots[reqs[r].inst] >= 1
<1>1. reqs[r].inst \in Instances
  BY DEF TypeOK, RequestType
<1>2. r \in InFlight(reqs[r].inst)
  BY DEF InFlight
<1>3. IsFiniteSet(InFlight(reqs[r].inst))
  BY FS_Subset, PoolAssumption DEF InFlight
<1>4. Cardinality(InFlight(reqs[r].inst)) \in Nat /\ Cardinality(InFlight(reqs[r].inst)) # 0
  BY <1>2, <1>3, FS_CardinalityType, FS_EmptySet
<1> QED BY <1>1, <1>4 DEF SlotsBalanced

\* Nobody takes a slot, nobody returns one.
LEMMA SlotsStay ==
  ASSUME SlotsBalanced, limit' = limit, slots' = slots,
         \A q \in Requests : /\ reqs'[q].pc \in {"admitted", "trying"} <=> HoldsSlot(q)
                             /\ HoldsSlot(q) => reqs'[q].inst = reqs[q].inst
  PROVE  SlotsBalanced'
<1>1. ASSUME NEW i \in Instances PROVE InFlight(i)' = InFlight(i)
  BY DEF InFlight, HoldsSlot
<1> QED BY <1>1 DEF SlotsBalanced

\* One request takes a slot that is free.
LEMMA SlotTaken ==
  ASSUME TypeOK, SlotsBalanced, limit' = limit, NEW r \in Requests,
         ~HoldsSlot(r), HasRoom(reqs[r].inst),
         reqs' = [reqs EXCEPT ![r].pc = "admitted"],
         slots' = [slots EXCEPT ![reqs[r].inst] = @ + 1]
  PROVE  SlotsBalanced'
<1> DEFINE j == reqs[r].inst
<1>1. j \in Instances /\ reqs'[r].pc = "admitted" /\ reqs'[r].inst = j
      /\ \A q \in Requests \ {r} : reqs'[q] = reqs[q]
  BY DEF TypeOK, RequestType
<1>2. InFlight(j)' = InFlight(j) \cup {r} /\ r \notin InFlight(j)
  BY <1>1 DEF InFlight, HoldsSlot
<1>3. ASSUME NEW i \in Instances, i # j PROVE InFlight(i)' = InFlight(i)
  BY <1>1, <1>3 DEF InFlight, HoldsSlot
<1>4. IsFiniteSet(InFlight(j))
  BY FS_Subset, PoolAssumption DEF InFlight
<1>5. Cardinality(InFlight(j)') = Cardinality(InFlight(j)) + 1
  BY <1>2, <1>4, FS_AddElement
<1>6. slots[j] \in Nat /\ slots[j] = Cardinality(InFlight(j)) /\ limit \in Nat
  BY <1>1, PoolAssumption DEF TypeOK, SlotsBalanced
<1>7. slots'[j] = slots[j] + 1 /\ \A i \in Instances \ {j} : slots'[i] = slots[i]
  BY <1>1 DEF TypeOK
<1>8. limit # 0 => slots'[j] <= limit
  BY <1>6, <1>7 DEF HasRoom
<1> QED BY <1>3, <1>5, <1>6, <1>7, <1>8 DEF SlotsBalanced

\* One request returns, and gives its slot back.
LEMMA SlotReturned ==
  ASSUME TypeOK, SlotsBalanced, limit' = limit, NEW r \in Requests, HoldsSlot(r),
         reqs'[r].pc = "done", \A q \in Requests \ {r} : reqs'[q] = reqs[q],
         slots' = [slots EXCEPT ![reqs[r].inst] = @ - 1]
  PROVE  SlotsBalanced' /\ slots' \in [Instances -> Nat]
<1>1. PICK j \in Instances : j = reqs[r].inst /\ slots[j] \in Nat /\ slots[j] >= 1
  BY SlotHeld
<1>2. InFlight(j)' = InFlight(j) \ {r} /\ r \in InFlight(j)
  <2>1. r \in InFlight(j) /\ r \notin InFlight(j)'
    BY <1>1 DEF InFlight, HoldsSlot
  <2>2. ASSUME NEW q \in Requests \ {r} PROVE q \in InFlight(j)' <=> q \in InFlight(j)
    BY <2>2 DEF InFlight, HoldsSlot
  <2>3. InFlight(j) \subseteq Requests /\ InFlight(j)' \subseteq Requests
    BY DEF InFlight
  <2> QED BY <2>1, <2>2, <2>3
<1>3. ASSUME NEW i \in Instances, i # j PROVE InFlight(i)' = InFlight(i)
  BY <1>1, <1>3 DEF InFlight, HoldsSlot
<1>4. IsFiniteSet(InFlight(j))
  BY FS_Subset, PoolAssumption DEF InFlight
<1>5. Cardinality(InFlight(j)') = Cardinality(InFlight(j)) - 1
  BY <1>2, <1>4, FS_RemoveElement
<1>6. slots[j] = Cardinality(InFlight(j)) /\ limit \in Nat /\ (limit # 0 => slots[j] <= limit)
  BY <1>1, PoolAssumption DEF TypeOK, SlotsBalanced
<1>7. slots'[j] = slots[j] - 1 /\ \A i \in Instances \ {j} : slots'[i] = slots[i]
  BY <1>1 DEF TypeOK
<1>8. slots' \in [Instances -> Nat]
  BY <1>1 DEF TypeOK
<1>9. limit # 0 => slots'[j] <= limit
  BY <1>1, <1>6, <1>7
<1>10. slots'[j] = Cardinality(InFlight(j)')
  BY <1>5, <1>6, <1>7
<1>11. ASSUME NEW i \in Instances, i # j
       PROVE  slots'[i] = Cardinality(InFlight(i)') /\ (limit # 0 => slots'[i] <= limit)
  BY <1>3, <1>7, <1>11 DEF SlotsBalanced
<1> QED BY <1>8, <1>9, <1>10, <1>11 DEF SlotsBalanced

\* The same of Ends, whether or not the request holds a slot.
LEMMA EndsBalanced ==
  ASSUME TypeOK, SlotsBalanced, limit' = limit, NEW r \in Requests,
         NEW ending \in Endings, Ends(r, ending)
  PROVE  SlotsBalanced' /\ slots' \in [Instances -> Nat] /\ reqs' \in [Requests -> RequestType]
<1> DEFINE x == [NewRequest EXCEPT !.pc = "done", !.ending = ending, !.heard = reqs[r].heard]
<1>1. x \in RequestType
  <2>1. reqs[r].heard \in SUBSET Accounts /\ "done" \in Phases
    BY DEF TypeOK, RequestType, Phases
  <2>2. NewRequest \in RequestType
    BY NewIsTyped
  <2> QED BY <2>1, <2>2 DEF RequestType
<1>2. reqs' = [reqs EXCEPT ![r] = x]
  BY DEF Ends
<1>3. reqs' \in [Requests -> RequestType]
  BY <1>1, <1>2, ReqType
<1>4. reqs'[r].pc = "done" /\ \A q \in Requests \ {r} : reqs'[q] = reqs[q]
  BY <1>2 DEF TypeOK, NewRequest
<1>5. CASE HoldsSlot(r)
  BY <1>3, <1>4, <1>5, SlotReturned DEF Ends
<1>6. CASE ~HoldsSlot(r)
  <2>1. slots' = slots
    BY <1>6 DEF Ends
  <2> QED BY <1>3, <1>4, <1>6, <2>1, SlotsStay DEF HoldsSlot, TypeOK
<1> QED BY <1>5, <1>6

-----------------------------------------------------------------------------
(* The inductive invariant *)

\* A request that has no account yet has said nothing; one that tries accounts has
\* the words of the first that is left, if any; after that nothing is held back.
Sound(x) ==
  /\ x.pc \in {"new", "asked", "got", "admitted"} => x.left = {} /\ x.held = {} /\ x.heard = {}
  /\ x.pc = "trying" => x.left # {} /\ x.held \cup x.heard \subseteq {First(x.left)}
  /\ x.pc = "done" => x.left = {}
  /\ \A a, b \in x.heard : a = b
  /\ x.ending \in {"cancelled", "busy", "prompt", "fault"} => x.heard = {}
  /\ x.pc # "done" => x.ending = "none"

Writers == \A r \in Requests : Sound(reqs[r])

\* As long as nothing but prompts has failed, prompts are what accounts cool for.
OnlyPrompts ==
  ~faulty => \A i \in Instances, a \in Accounts, s \in Models \cup {Everything} :
               drains[i][a][s].until # 0 => drains[i][a][s].why = "prompt"

IInv == TypeOK /\ SlotsBalanced /\ Writers /\ now >= 1 /\ OnlyPrompts /\ KeptReasonProtects

LEMMA InitIInv == Init => IInv
<1> SUFFICES ASSUME Init PROVE IInv
  OBVIOUS
<1>1. TypeOK
  BY TypeInit
<1>2. SlotsBalanced
  <2>1. ASSUME NEW i \in Instances PROVE InFlight(i) = {}
    BY DEF Init, InFlight, HoldsSlot, NewRequest
  <2>2. \A i \in Instances : slots[i] = 0
    BY DEF Init
  <2>3. limit \in Nat
    BY PoolAssumption DEF Init
  <2> QED BY <2>1, <2>2, <2>3, FS_EmptySet DEF SlotsBalanced
<1>3. Writers
  BY DEF Init, Writers, Sound, NewRequest
<1>4. now >= 1 /\ OnlyPrompts /\ KeptReasonProtects
  BY DEF Init, OnlyPrompts, KeptReasonProtects, NoDrain, NewRequest
<1> QED BY <1>1, <1>2, <1>3, <1>4 DEF IInv

\* A request changes, takes no slot and returns none, and does not fail.
LEMMA RequestGoesOn ==
  ASSUME IInv, NEW r \in Requests, NEW x \in RequestType,
         reqs' = [reqs EXCEPT ![r] = x], Sound(x),
         x.pc \in {"admitted", "trying"} <=> HoldsSlot(r),
         HoldsSlot(r) => x.inst = reqs[r].inst,
         x.ending = "fault" => reqs[r].ending = "fault",
         registry' \in [config : Settings, inst : Instances, built : Instances],
         UNCHANGED <<style, limit, live, now, config, drains, slots, poll, faulty>>
  PROVE  IInv'
<1>1. reqs' \in [Requests -> RequestType]
  BY ReqType DEF IInv
<1>2. reqs'[r] = x /\ \A q \in Requests \ {r} : reqs'[q] = reqs[q]
  BY DEF IInv, TypeOK
<1>3. TypeOK'
  BY <1>1 DEF IInv, TypeOK
<1>4. SlotsBalanced'
  BY <1>2, SlotsStay DEF IInv, HoldsSlot
<1>5. Writers'
  BY <1>2 DEF IInv, Writers
<1>6. (now >= 1)' /\ OnlyPrompts'
  BY DEF IInv, OnlyPrompts
<1>7. KeptReasonProtects'
  BY <1>2 DEF IInv, KeptReasonProtects
<1> QED BY <1>3, <1>4, <1>5, <1>6, <1>7 DEF IInv

\* A request returns; drains may change before.
LEMMA RequestEnds ==
  ASSUME IInv, NEW r \in Requests, NEW ending \in Endings, Ends(r, ending),
         \A a, b \in reqs[r].heard : a = b,
         ending \in {"cancelled", "busy", "prompt", "fault"} => reqs[r].heard = {},
         drains' \in [Instances -> [Accounts -> [Models \cup {Everything} -> DrainType]]],
         faulty' \in BOOLEAN, faulty => faulty', OnlyPrompts',
         ending = "fault" /\ style = "antigravity" => faulty',
         UNCHANGED <<style, limit, live, now, config, registry, poll>>
  PROVE  IInv'
<1>1. SlotsBalanced' /\ slots' \in [Instances -> Nat] /\ reqs' \in [Requests -> RequestType]
  BY EndsBalanced DEF IInv
<1>2. /\ reqs'[r] = [NewRequest EXCEPT !.pc = "done", !.ending = ending, !.heard = reqs[r].heard]
      /\ \A q \in Requests \ {r} : reqs'[q] = reqs[q]
  BY DEF IInv, TypeOK, Ends
<1>3. TypeOK'
  BY <1>1 DEF IInv, TypeOK
<1>4. Writers'
  <2>1. Sound(reqs'[r])
    BY <1>2 DEF Sound, NewRequest
  <2> QED BY <1>2, <2>1 DEF IInv, Writers
<1>5. KeptReasonProtects'
  <2>1. reqs'[r].ending = ending
    BY <1>2 DEF NewRequest
  <2> QED BY <1>2, <2>1 DEF IInv, TypeOK, KeptReasonProtects
<1> QED BY <1>1, <1>3, <1>4, <1>5 DEF IInv

-----------------------------------------------------------------------------
(* Every step keeps it *)

\* What the types say of one request.
LEMMA ReqFields ==
  ASSUME IInv, NEW r \in Requests
  PROVE  /\ reqs[r] \in RequestType /\ Sound(reqs[r])
         /\ reqs[r].config \in Settings /\ reqs[r].inst \in Instances
         /\ reqs[r].model \in Models \cup {Everything}
         /\ reqs[r].left \subseteq Accounts /\ reqs[r].held \subseteq Accounts
         /\ reqs[r].heard \subseteq Accounts
BY DEF IInv, TypeOK, RequestType, Writers

\* A failure of the account in use finds that account.
LEMMA Trying ==
  ASSUME IInv, NEW r \in Requests, Is(r, "trying")
  PROVE  /\ Account(r) \in reqs[r].left /\ Account(r) \in Accounts
         /\ reqs[r].held \cup reqs[r].heard \subseteq {Account(r)}
         /\ reqs[r].ending = "none" /\ HoldsSlot(r)
<1>1. Sound(reqs[r]) /\ reqs[r].pc = "trying"
  BY ReqFields DEF Is
<1>2. reqs[r].left # {}
  BY <1>1 DEF Sound
<1> QED BY <1>1, <1>2, AccountIs DEF IInv, Sound, Account, HoldsSlot

LEMMA StepArrive == ASSUME IInv, NEW r \in Requests, Arrive(r) PROVE IInv'
<1>1. PICK m \in Models :
        reqs' = [reqs EXCEPT ![r] = [@ EXCEPT !.pc = "asked", !.config = config, !.model = m]]
  BY DEF Arrive
<1> DEFINE x == [reqs[r] EXCEPT !.pc = "asked", !.config = config, !.model = m]
<1>2. reqs' = [reqs EXCEPT ![r] = x]
  BY <1>1
<1>3. Is(r, "new") /\ Sound(reqs[r])
  BY ReqFields DEF Arrive
<1>4. x \in RequestType
  BY ZenonT(60), ReqFields DEF IInv, TypeOK, RequestType, Phases
<1>5. Sound(x)
  BY <1>3, ReqFields DEF Sound, Is, RequestType
<1>6. x.pc = "asked" /\ x.ending = reqs[r].ending /\ ~HoldsSlot(r)
  BY <1>3, ReqFields DEF Is, HoldsSlot, RequestType
<1>7. /\ registry' \in [config : Settings, inst : Instances, built : Instances]
      /\ UNCHANGED <<style, limit, live, now, config, drains, slots, poll, faulty>>
  BY DEF Arrive, IInv, TypeOK
<1> QED BY <1>2, <1>4, <1>5, <1>6, <1>7, RequestGoesOn

\* Whoever asks for an instance gets one.
LEMMA GetType ==
  ASSUME IInv, NEW settings \in Settings, Get(settings)
  PROVE  /\ InstanceFor(settings) \in Instances
         /\ registry' \in [config : Settings, inst : Instances, built : Instances]
<1>1. InstanceFor(settings) \in Instances
  BY DEF Get
<1>2. CASE Rebuilds(settings)
  BY <1>1, <1>2 DEF Get, InstanceFor
<1>3. CASE ~Rebuilds(settings)
  BY <1>1, <1>3 DEF Get, IInv, TypeOK
<1> QED BY <1>1, <1>2, <1>3

LEMMA StepGetProvider == ASSUME IInv, NEW r \in Requests, GetProvider(r) PROVE IInv'
<1> DEFINE j == InstanceFor(reqs[r].config)
           x == [reqs[r] EXCEPT !.pc = "got", !.inst = j]
<1>1. j \in Instances /\ registry' \in [config : Settings, inst : Instances, built : Instances]
  BY ReqFields, GetType DEF GetProvider
<1>2. reqs' = [reqs EXCEPT ![r] = x]
  BY DEF GetProvider, IInv, TypeOK, RequestType
<1>3. Is(r, "asked") /\ Sound(reqs[r])
  BY ReqFields DEF GetProvider
<1>4. x \in RequestType
  BY <1>1, ReqFields DEF RequestType, Phases
<1>5. Sound(x)
  BY <1>3, ReqFields DEF Sound, Is, RequestType
<1>6. x.pc = "got" /\ x.ending = reqs[r].ending /\ ~HoldsSlot(r)
  BY <1>3, ReqFields DEF Is, HoldsSlot, RequestType
<1>7. UNCHANGED <<style, limit, live, now, config, drains, slots, poll, faulty>>
  BY DEF GetProvider
<1> QED BY <1>1, <1>2, <1>4, <1>5, <1>6, <1>7, RequestGoesOn

\* Nothing else changes when a request returns before it has an account.
LEMMA EndsEarly ==
  ASSUME IInv, NEW r \in Requests, NEW ending \in Endings, Ends(r, ending),
         reqs[r].pc \in {"got", "admitted"}, ending = "fault" /\ style = "antigravity" => faulty,
         UNCHANGED <<style, limit, live, now, config, registry, drains, poll, faulty>>
  PROVE  IInv'
<1>1. reqs[r].heard = {}
  BY ReqFields DEF Sound
<1>2. OnlyPrompts' /\ faulty' \in BOOLEAN
  BY DEF IInv, OnlyPrompts, TypeOK
<1>3. drains' \in [Instances -> [Accounts -> [Models \cup {Everything} -> DrainType]]]
  BY DEF IInv, TypeOK
<1> QED BY <1>1, <1>2, <1>3, RequestEnds

LEMMA StepAcquire == ASSUME IInv, NEW r \in Requests, Acquire(r) PROVE IInv'
<1>1. /\ reqs[r].pc = "got" /\ Sound(reqs[r]) /\ ~HoldsSlot(r)
      /\ UNCHANGED <<style, limit, live, now, config, registry, drains, poll, faulty>>
  BY ReqFields DEF Acquire, Is, HoldsSlot
<1>2. CASE /\ HasRoom(reqs[r].inst) /\ reqs' = [reqs EXCEPT ![r].pc = "admitted"]
           /\ slots' = [slots EXCEPT ![reqs[r].inst] = @ + 1]
  <2>1. SlotsBalanced'
    BY <1>1, <1>2, SlotTaken DEF IInv
  <2> DEFINE x == [reqs[r] EXCEPT !.pc = "admitted"]
  <2>2. reqs' = [reqs EXCEPT ![r] = x] /\ x \in RequestType
    BY ZenonT(60), <1>2, ReqFields DEF IInv, TypeOK, RequestType, Phases
  <2>3. Sound(x) /\ x.ending = reqs[r].ending
    BY <1>1, ReqFields DEF Sound, RequestType
  <2>4. reqs' \in [Requests -> RequestType]
    BY <2>2, ReqType DEF IInv
  <2>5. slots' \in [Instances -> Nat]
    <3>1. slots \in [Instances -> Nat] /\ reqs[r].inst \in Instances
      BY ReqFields DEF IInv, TypeOK
    <3> QED BY <1>2, <3>1
  <2>6. reqs'[r] = x /\ \A q \in Requests \ {r} : reqs'[q] = reqs[q]
    BY <2>2 DEF IInv, TypeOK
  <2>7. TypeOK'
    BY <1>1, <2>4, <2>5 DEF IInv, TypeOK
  <2>8. Writers'
    BY <2>3, <2>6 DEF IInv, Writers
  <2>9. (now >= 1)' /\ OnlyPrompts'
    BY <1>1 DEF IInv, OnlyPrompts
  <2>10. KeptReasonProtects'
    BY <1>1, <2>3, <2>6 DEF IInv, KeptReasonProtects
  <2> QED BY <2>1, <2>7, <2>8, <2>9, <2>10 DEF IInv
<1>3. CASE Ends(r, "busy")
  BY <1>1, <1>3, EndsEarly DEF Endings
<1>4. CASE Ends(r, "cancelled")
  BY <1>1, <1>4, EndsEarly DEF Endings
<1> QED BY <1>2, <1>3, <1>4 DEF Acquire

\* If only prompts have failed and every account cools, the first one tells of a prompt.
LEMMA ReasonIsKept ==
  ASSUME IInv, ~faulty, NEW i \in Instances, NEW m \in Models \cup {Everything},
         Available(i, m) = {}
  PROVE  FirstIsPrompt(i, m)
<1>1. 1 \in Accounts /\ 1..(1 - 1) = {}
  BY PoolAssumption DEF Accounts
<1>2. Cooling(i, 1, m)
  BY <1>1 DEF Available
<1>3. ASSUME NEW s \in Models \cup {Everything}, Live(i, 1, s)
      PROVE  drains[i][1][s].why = "prompt"
  <2>1. drains[i][1][s].until \in Nat /\ now < drains[i][1][s].until
    BY <1>1, <1>3 DEF IInv, TypeOK, DrainType, Live, Cools
  <2> QED BY <1>1, <2>1 DEF IInv, TypeOK, OnlyPrompts
<1>4. ActiveDrain(i, 1, m).why = "prompt"
  BY <1>2, <1>3 DEF ActiveDrain, Cooling
<1> QED BY <1>1, <1>2, <1>4 DEF FirstIsPrompt

LEMMA StepSelect == ASSUME IInv, NEW r \in Requests, Select(r) PROVE IInv'
<1> DEFINE i == reqs[r].inst  m == reqs[r].model  list == Available(i, m)
<1>1. /\ reqs[r].pc = "admitted" /\ Sound(reqs[r]) /\ HoldsSlot(r)
      /\ UNCHANGED <<style, limit, live, now, config, registry, drains, poll, faulty>>
  BY ReqFields DEF Select, Is, HoldsSlot
<1>2. CASE Ends(r, "cancelled")
  BY <1>1, <1>2, EndsEarly DEF Endings
<1>3. CASE list = {} /\ Ends(r, IF style = "antigravity" /\ FirstIsPrompt(i, m)
                                 THEN "prompt" ELSE "fault")
  <2>1. CASE style = "antigravity" /\ FirstIsPrompt(i, m)
    <3>1. Ends(r, "prompt")
      BY <1>3, <2>1
    <3> QED BY <1>1, <3>1, EndsEarly DEF Endings
  <2>2. CASE ~(style = "antigravity" /\ FirstIsPrompt(i, m))
    <3>1. Ends(r, "fault")
      BY <1>3, <2>2
    <3>2. style = "antigravity" => faulty
      BY <1>3, <2>2, ReqFields, ReasonIsKept
    <3> QED BY <1>1, <3>1, <3>2, EndsEarly DEF Endings
  <2> QED BY <2>1, <2>2
<1>4. CASE /\ list # {} /\ reqs' = [reqs EXCEPT ![r].pc = "trying", ![r].left = list]
           /\ UNCHANGED slots
  <2> DEFINE x == [reqs[r] EXCEPT !.pc = "trying", !.left = list]
  <2>1. list \subseteq Accounts
    BY DEF Available
  <2>2. reqs' = [reqs EXCEPT ![r] = x] /\ x \in RequestType
    BY ZenonT(60), <1>4, <2>1, ReqFields DEF IInv, TypeOK, RequestType, Phases
  <2>3. Sound(x) /\ x.ending = reqs[r].ending /\ x.pc = "trying" /\ x.inst = reqs[r].inst
    BY <1>1, <1>4, ReqFields DEF Sound, RequestType
  <2>4. registry' \in [config : Settings, inst : Instances, built : Instances]
    BY <1>1 DEF IInv, TypeOK
  <2> QED BY <1>1, <1>4, <2>2, <2>3, <2>4, RequestGoesOn
<1> QED BY <1>2, <1>3, <1>4 DEF Select

LEMMA StepFlush == ASSUME IInv, NEW r \in Requests, Flush(r) PROVE IInv'
<1> DEFINE a == Account(r)
           heard == [reqs[r] EXCEPT !.held = {}, !.heard = @ \cup reqs[r].held \cup {a}]
           held == [reqs[r] EXCEPT !.held = @ \cup {a}]
<1>1. PICK x \in {heard, held} : reqs' = [reqs EXCEPT ![r] = x]
  <2>1. CASE live
    <3>1. reqs' = [reqs EXCEPT ![r] = heard]
      BY <2>1 DEF Flush, IInv, TypeOK, RequestType
    <3> QED BY <3>1
  <2>2. CASE ~live
    <3>1. reqs' = [reqs EXCEPT ![r] = held]
      BY <2>2 DEF Flush, IInv, TypeOK, RequestType
    <3> QED BY <3>1
  <2> QED BY <2>1, <2>2
<1>2. /\ Is(r, "trying")
      /\ UNCHANGED <<style, limit, live, now, config, registry, drains, slots, poll, faulty>>
  BY DEF Flush
<1>3. /\ a \in reqs[r].left /\ a \in Accounts /\ HoldsSlot(r) /\ reqs[r].ending = "none"
      /\ reqs[r].held \cup reqs[r].heard \subseteq {a} /\ a = First(reqs[r].left)
  BY <1>2, Trying DEF Account
<1>4. heard \in RequestType /\ held \in RequestType
  BY <1>3, ReqFields DEF RequestType
<1>5. /\ x \in RequestType
      /\ x.pc = "trying" /\ x.inst = reqs[r].inst /\ x.ending = "none" /\ x.left = reqs[r].left
      /\ x.held \cup x.heard \subseteq {a}
  <2>1. CASE x = heard
    BY <1>2, <1>3, <1>4, <2>1, ReqFields DEF RequestType, Is
  <2>2. CASE x = held
    BY <1>2, <1>3, <1>4, <2>2, ReqFields DEF RequestType, Is
  <2> QED BY <2>1, <2>2
<1>6. Sound(x)
  BY <1>3, <1>5 DEF Sound
<1>7. registry' \in [config : Settings, inst : Instances, built : Instances]
  BY <1>2 DEF IInv, TypeOK
<1> QED BY <1>1, <1>2, <1>3, <1>5, <1>6, <1>7, RequestGoesOn

LEMMA StepSucceed == ASSUME IInv, NEW r \in Requests, Succeed(r) PROVE IInv'
<1> DEFINE x == [NewRequest EXCEPT !.pc = "done", !.ending = "ok",
                   !.heard = reqs[r].heard \cup reqs[r].held \cup {Account(r)}]
<1>1. /\ Is(r, "trying") /\ reqs' = [reqs EXCEPT ![r] = x]
      /\ slots' = [slots EXCEPT ![reqs[r].inst] = @ - 1]
      /\ UNCHANGED <<style, limit, live, now, config, registry, drains, poll, faulty>>
  BY DEF Succeed
<1>2. Account(r) \in Accounts /\ HoldsSlot(r) /\ reqs[r].held \cup reqs[r].heard \subseteq {Account(r)}
  BY <1>1, Trying
<1>3. x \in RequestType
  BY <1>2, NewIsTyped DEF RequestType, Phases, Endings
<1>4. x.pc = "done" /\ x.left = {} /\ x.ending = "ok" /\ x.heard \subseteq {Account(r)}
  BY <1>2 DEF NewRequest
<1>5. Sound(x)
  BY <1>4 DEF Sound
<1>6. reqs' \in [Requests -> RequestType]
  BY <1>1, <1>3, ReqType DEF IInv
<1>7. reqs'[r] = x /\ \A q \in Requests \ {r} : reqs'[q] = reqs[q]
  BY <1>1 DEF IInv, TypeOK
<1>8. SlotsBalanced' /\ slots' \in [Instances -> Nat]
  BY <1>1, <1>2, <1>4, <1>7, SlotReturned DEF IInv
<1>9. TypeOK'
  BY <1>1, <1>6, <1>8 DEF IInv, TypeOK
<1>10. Writers'
  BY <1>5, <1>7 DEF IInv, Writers
<1>11. (now >= 1)' /\ OnlyPrompts'
  BY <1>1 DEF IInv, OnlyPrompts
<1>12. KeptReasonProtects'
  BY <1>1, <1>4, <1>7 DEF IInv, KeptReasonProtects
<1> QED BY <1>8, <1>9, <1>10, <1>11, <1>12 DEF IInv

\* The cooldowns of a failure are short enough, and a failure is a reason.
LEMMA CooldownsType ==
  ASSUME NEW err \in Failures, NEW cooldown \in Cooldowns(err)
  PROVE  cooldown \in Nat /\ cooldown >= 1 /\ cooldown <= MaxCool
BY PoolAssumption DEF Cooldowns, DefaultAccountCooldown

\* A cooldown replaces one drain.
LEMMA MarkedType ==
  ASSUME IInv, NEW i \in Instances, NEW a \in Accounts, NEW m \in Models \cup {Everything},
         NEW err \in Failures, NEW cooldown \in Nat, MarkFailed(i, a, m, err, cooldown)
  PROVE  /\ Scope(err, m) \in Models \cup {Everything}
         /\ drains' = [drains EXCEPT ![i][a][Scope(err, m)] = [until |-> now + cooldown, why |-> err]]
         /\ drains' \in [Instances -> [Accounts -> [Models \cup {Everything} -> DrainType]]]
<1>1. Scope(err, m) \in Models \cup {Everything}
  BY DEF Scope
<1>2. drains' = [drains EXCEPT ![i][a][Scope(err, m)] = [until |-> now + cooldown, why |-> err]]
  BY DEF MarkFailed
<1>3. [until |-> now + cooldown, why |-> err] \in DrainType
  BY DEF DrainType, IInv, TypeOK
<1> QED BY <1>1, <1>2, <1>3 DEF IInv, TypeOK

\* After a failure that was not a prompt's there is nothing left to say about prompts;
\* after one that was, the new drain tells of it.
LEMMA MarkedKept ==
  ASSUME IInv, NEW i \in Instances, NEW a \in Accounts, NEW m \in Models \cup {Everything},
         NEW err \in Failures, NEW cooldown \in Nat, MarkFailed(i, a, m, err, cooldown),
         faulty' = (faulty \/ err # "prompt")
  PROVE  OnlyPrompts'
<1> SUFFICES ASSUME ~faulty', NEW j \in Instances, NEW b \in Accounts,
                    NEW s \in Models \cup {Everything}, drains'[j][b][s].until # 0
             PROVE  drains'[j][b][s].why = "prompt"
  BY DEF OnlyPrompts
<1>1. err = "prompt" /\ ~faulty
  OBVIOUS
<1> DEFINE Scopes == Models \cup {Everything}
           drain == [until |-> now + cooldown, why |-> err]
<1>4. /\ drains \in [Instances -> [Accounts -> [Scopes -> DrainType]]]
      /\ Scope(err, m) \in Scopes /\ drains' = [drains EXCEPT ![i][a][Scope(err, m)] = drain]
  <2>1. drains \in [Instances -> [Accounts -> [Scopes -> DrainType]]]
    BY DEF IInv, TypeOK
  <2>2. Scope(err, m) \in Scopes /\ drains' = [drains EXCEPT ![i][a][Scope(err, m)] = drain]
    BY MarkedType
  <2> QED BY <2>1, <2>2
<1>2. CASE j = i /\ b = a /\ s = Scope(err, m)
  <2>1. drains'[j][b][s] = drain
    BY <1>2, <1>4
  <2> QED BY <1>1, <2>1
<1>3. CASE ~(j = i /\ b = a /\ s = Scope(err, m))
  <2>1. drains'[j][b][s] = drains[j][b][s]
    BY <1>3, <1>4
  <2> QED BY <1>1, <2>1 DEF IInv, OnlyPrompts
<1> QED BY <1>2, <1>3

LEMMA StepInterrupted == ASSUME IInv, NEW r \in Requests, Interrupted(r) PROVE IInv'
<1>1. /\ Is(r, "trying")
      /\ UNCHANGED <<style, limit, live, now, config, registry, drains, poll, faulty>>
  BY DEF Interrupted
<1>2. \A a, b \in reqs[r].heard : a = b
  BY <1>1, Trying
<1>3. OnlyPrompts' /\ faulty' \in BOOLEAN
  BY <1>1 DEF IInv, OnlyPrompts, TypeOK
<1>4. drains' \in [Instances -> [Accounts -> [Models \cup {Everything} -> DrainType]]]
  BY <1>1 DEF IInv, TypeOK
<1>5. CASE Committed(r)
  <2>1. Ends(r, "broken")
    BY <1>5 DEF Interrupted
  <2> QED BY <1>1, <1>2, <1>3, <1>4, <2>1, RequestEnds DEF Endings
<1>6. CASE ~Committed(r)
  <2>1. Ends(r, "cancelled") /\ reqs[r].heard = {}
    BY <1>6 DEF Interrupted, Committed
  <2> QED BY <1>1, <1>2, <1>3, <1>4, <2>1, RequestEnds DEF Endings
<1> QED BY <1>5, <1>6

\* The next account starts with a clean writer, and nobody has heard of the last one.
LEMMA NextStarts ==
  ASSUME IInv, NEW r \in Requests, Is(r, "trying"), ~Committed(r), reqs[r].left # {Account(r)},
         reqs' = [reqs EXCEPT ![r].held = {}, ![r].left = @ \ {Account(r)}],
         slots' = slots, faulty' \in BOOLEAN, faulty => faulty', OnlyPrompts',
         drains' \in [Instances -> [Accounts -> [Models \cup {Everything} -> DrainType]]],
         UNCHANGED <<style, limit, live, now, config, registry, poll>>
  PROVE  IInv'
<1> DEFINE x == [reqs[r] EXCEPT !.held = {}, !.left = @ \ {Account(r)}]
<1>1. /\ Account(r) \in reqs[r].left /\ reqs[r].left \subseteq Accounts /\ HoldsSlot(r)
      /\ reqs[r].ending = "none" /\ reqs[r].heard = {} /\ reqs[r].pc = "trying"
  BY Trying, ReqFields DEF Committed, Is
<1>a. reqs' = [reqs EXCEPT ![r] = x]
  BY DEF IInv, TypeOK, RequestType
<1>2. x \in RequestType
  BY <1>1, ReqFields DEF RequestType
<1>3. x.pc = "trying" /\ x.held = {} /\ x.heard = {} /\ x.left # {} /\ x.ending = "none"
      /\ x.inst = reqs[r].inst
  BY <1>1, ReqFields DEF RequestType
<1>4. Sound(x)
  BY <1>3 DEF Sound
<1>5. reqs' \in [Requests -> RequestType]
  BY <1>a, <1>2, ReqType DEF IInv
<1>6. reqs'[r] = x /\ \A q \in Requests \ {r} : reqs'[q] = reqs[q]
  BY <1>a DEF IInv, TypeOK
<1>7. TypeOK'
  BY <1>5 DEF IInv, TypeOK
<1>8. SlotsBalanced'
  BY <1>1, <1>3, <1>6, SlotsStay DEF IInv, HoldsSlot
<1>9. Writers'
  BY <1>4, <1>6 DEF IInv, Writers
<1>10. KeptReasonProtects'
  BY <1>3, <1>6 DEF IInv, TypeOK, KeptReasonProtects
<1> QED BY <1>7, <1>8, <1>9, <1>10 DEF IInv

LEMMA StepFail == ASSUME IInv, NEW r \in Requests, Fail(r) PROVE IInv'
<1>1. PICK err \in Failures :
        /\ faulty' = (faulty \/ err # "prompt")
        /\ \/ Committed(r) /\ Ends(r, "broken") /\ UNCHANGED drains
           \/ ~Committed(r) /\ Ends(r, "cancelled") /\ UNCHANGED drains
           \/ /\ ~Committed(r) /\ NextAccount(r, err)
              /\ \E cooldown \in Cooldowns(err) :
                   MarkFailed(reqs[r].inst, Account(r), reqs[r].model, err, cooldown)
  BY DEF Fail
<1>2. /\ Is(r, "trying") /\ faulty' \in BOOLEAN /\ (faulty => faulty')
      /\ UNCHANGED <<style, limit, live, now, config, registry, poll>>
  BY <1>1 DEF Fail, IInv, TypeOK
<1>3. Account(r) \in Accounts /\ \A a, b \in reqs[r].heard : a = b
  BY <1>2, Trying
<1>4. ASSUME UNCHANGED drains
      PROVE  /\ OnlyPrompts'
             /\ drains' \in [Instances -> [Accounts -> [Models \cup {Everything} -> DrainType]]]
  BY ZenonT(60), <1>1, <1>4 DEF IInv, OnlyPrompts, TypeOK
<1>5. CASE Committed(r) /\ Ends(r, "broken") /\ UNCHANGED drains
  BY <1>2, <1>3, <1>4, <1>5, RequestEnds DEF Endings
<1>6. CASE ~Committed(r) /\ Ends(r, "cancelled") /\ UNCHANGED drains
  <2>1. reqs[r].heard = {}
    BY <1>6 DEF Committed
  <2> QED BY <1>2, <1>3, <1>4, <1>6, <2>1, RequestEnds DEF Endings
<1>7. CASE /\ ~Committed(r) /\ NextAccount(r, err)
           /\ \E cooldown \in Cooldowns(err) :
                MarkFailed(reqs[r].inst, Account(r), reqs[r].model, err, cooldown)
  <2>1. PICK cooldown \in Cooldowns(err) :
          MarkFailed(reqs[r].inst, Account(r), reqs[r].model, err, cooldown)
    BY <1>7
  <2>2. cooldown \in Nat
    BY CooldownsType
  <2>3. OnlyPrompts'
    BY <1>1, <1>3, <2>1, <2>2, ReqFields, MarkedKept
  <2>4. drains' \in [Instances -> [Accounts -> [Models \cup {Everything} -> DrainType]]]
    BY <1>1, <1>3, <2>1, <2>2, ReqFields, MarkedType
  <2>5. CASE reqs[r].left # {Account(r)}
    <3>1. /\ reqs' = [reqs EXCEPT ![r].held = {}, ![r].left = @ \ {Account(r)}]
          /\ slots' = slots
      BY <1>7, <2>5 DEF NextAccount
    <3> QED BY <1>2, <1>7, <2>3, <2>4, <2>5, <3>1, NextStarts
  <2>6. CASE reqs[r].left = {Account(r)}
    <3>1. reqs[r].heard = {}
      BY <1>7 DEF Committed
    <3>2. CASE err = "prompt"
      <4>1. Ends(r, "prompt")
        BY <1>7, <2>6, <3>2 DEF NextAccount
      <4> QED BY <1>2, <1>3, <2>3, <2>4, <3>1, <4>1, RequestEnds DEF Endings
    <3>3. CASE err # "prompt"
      <4>1. Ends(r, "fault") /\ faulty'
        BY <1>1, <1>7, <2>6, <3>3 DEF NextAccount
      <4> QED BY <1>2, <1>3, <2>3, <2>4, <3>1, <4>1, RequestEnds DEF Endings
    <3> QED BY <3>2, <3>3
  <2> QED BY <2>5, <2>6
<1> QED BY <1>1, <1>5, <1>6, <1>7

LEMMA StepLeave == ASSUME IInv, NEW r \in Requests, Leave(r) PROVE IInv'
<1> DEFINE x == [reqs[r] EXCEPT !.gone = TRUE]
<1>1. /\ reqs' = [reqs EXCEPT ![r] = x]
      /\ UNCHANGED <<style, limit, live, now, config, registry, drains, slots, poll, faulty>>
  BY DEF Leave, IInv, TypeOK, RequestType
<1>2. x \in RequestType /\ x.pc = reqs[r].pc /\ x.inst = reqs[r].inst /\ x.ending = reqs[r].ending
      /\ x.left = reqs[r].left /\ x.held = reqs[r].held /\ x.heard = reqs[r].heard
  BY ReqFields DEF RequestType
<1>3. Sound(x)
  BY <1>2, ReqFields DEF Sound
<1>4. registry' \in [config : Settings, inst : Instances, built : Instances]
  BY <1>1 DEF IInv, TypeOK
<1> QED BY <1>1, <1>2, <1>3, <1>4, RequestGoesOn DEF HoldsSlot

\* The steps of no request leave the requests and the slots alone.
LEMMA OthersStep ==
  ASSUME IInv, UNCHANGED <<style, limit, live, slots, reqs>>,
         now' \in Nat, now' >= 1, config' \in Settings,
         registry' \in [config : Settings, inst : Instances, built : Instances],
         drains' \in [Instances -> [Accounts -> [Models \cup {Everything} -> DrainType]]],
         poll' \in [reads : Accounts \cup {Nobody}, number : Nat],
         faulty' \in BOOLEAN, faulty => faulty', OnlyPrompts'
  PROVE  IInv'
<1>1. TypeOK'
  BY DEF IInv, TypeOK
<1>2. SlotsBalanced'
  BY SlotsStay DEF IInv, HoldsSlot
<1>3. Writers' /\ KeptReasonProtects'
  BY DEF IInv, TypeOK, Writers, KeptReasonProtects
<1> QED BY <1>1, <1>2, <1>3 DEF IInv

LEMMA StepPollStarts == ASSUME IInv, PollStarts PROVE IInv'
<1>1. /\ UNCHANGED <<style, limit, live, now, config, drains, slots, reqs, faulty>>
      /\ Get(config) /\ config \in Settings
  BY DEF PollStarts, IInv, TypeOK
<1>2. poll' \in [reads : Accounts \cup {Nobody}, number : Nat]
  <2>1. PICK a \in Accounts : poll' = [reads |-> a, number |-> poll.number + 1]
    BY DEF PollStarts
  <2> QED BY <2>1 DEF IInv, TypeOK
<1>3. registry' \in [config : Settings, inst : Instances, built : Instances]
  BY <1>1, GetType
<1>4. /\ now' \in Nat /\ now' >= 1 /\ config' \in Settings /\ faulty' \in BOOLEAN /\ (faulty => faulty')
      /\ drains' \in [Instances -> [Accounts -> [Models \cup {Everything} -> DrainType]]]
  BY <1>1 DEF IInv, TypeOK
<1>5. OnlyPrompts'
  BY <1>1 DEF IInv, OnlyPrompts
<1> QED BY <1>1, <1>2, <1>3, <1>4, <1>5, OthersStep

\* What the syncer does when it has read an exhausted quota.
LEMMA PollCools ==
  ASSUME IInv, PollFindsExhausted
  PROVE  \/ UNCHANGED <<drains, registry>>
         \/ \E cooldown \in 1..MaxCool :
              /\ Get(config)
              /\ drains' = [drains EXCEPT ![InstanceFor(config)][poll.reads][Everything] =
                              [until |-> now + cooldown, why |-> "quota"]]
<1>1. PICK resets \in SUBSET (1..(MaxTime + MaxCool + 1)) :
        IF CooldownFor(resets) = 0 THEN UNCHANGED <<drains, registry>>
        ELSE /\ Get(config)
             /\ drains' = [drains EXCEPT ![InstanceFor(config)][poll.reads][Everything] =
                  [until |-> now + CooldownFor(resets), why |-> "quota"]]
  BY DEF PollFindsExhausted
<1>2. CooldownFor(resets) \in 0..MaxCool
  BY CooldownIs DEF IInv
<1>3. CASE CooldownFor(resets) = 0
  BY <1>1, <1>3
<1>4. CASE CooldownFor(resets) # 0
  <2>1. CooldownFor(resets) \in 1..MaxCool
    BY <1>2, <1>4, PoolAssumption
  <2> QED BY <1>1, <1>4, <2>1
<1> QED BY <1>3, <1>4

LEMMA StepPollFindsExhausted == ASSUME IInv, PollFindsExhausted PROVE IInv'
<1>1. /\ UNCHANGED <<style, limit, live, now, config, slots, reqs>> /\ faulty' = TRUE
      /\ poll' = [poll EXCEPT !.reads = Nobody] /\ poll.reads \in Accounts
  BY DEF PollFindsExhausted, IInv, TypeOK
<1>2. poll' \in [reads : Accounts \cup {Nobody}, number : Nat]
  BY <1>1 DEF IInv, TypeOK
<1>3. now' \in Nat /\ now' >= 1 /\ config' \in Settings /\ OnlyPrompts'
  BY <1>1 DEF IInv, TypeOK, OnlyPrompts
<1> DEFINE Drains == [Instances -> [Accounts -> [Models \cup {Everything} -> DrainType]]]
           Registries == [config : Settings, inst : Instances, built : Instances]
<1>4. drains \in Drains /\ registry \in Registries
  BY DEF IInv, TypeOK
<1>5. drains' \in Drains /\ registry' \in Registries
  <2>1. CASE UNCHANGED <<drains, registry>>
    BY <1>4, <2>1
  <2>2. ASSUME NEW cooldown \in 1..MaxCool, Get(config),
               drains' = [drains EXCEPT ![InstanceFor(config)][poll.reads][Everything] =
                            [until |-> now + cooldown, why |-> "quota"]]
        PROVE  drains' \in Drains /\ registry' \in Registries
    <3>1. InstanceFor(config) \in Instances /\ registry' \in Registries
      BY <2>2, GetType DEF IInv, TypeOK
    <3>2. [until |-> now + cooldown, why |-> "quota"] \in DrainType
      BY PoolAssumption DEF IInv, TypeOK, DrainType, Failures
    <3>3. drains' \in Drains
      BY <1>1, <1>4, <2>2, <3>1, <3>2
    <3> QED BY <3>1, <3>3
  <2> QED BY <2>1, <2>2, PollCools
<1> QED BY <1>1, <1>2, <1>3, <1>5, OthersStep

LEMMA StepPollFindsNothing == ASSUME IInv, PollFindsNothing PROVE IInv'
<1>1. /\ UNCHANGED <<style, limit, live, now, config, registry, drains, slots, reqs, faulty>>
      /\ poll' = [poll EXCEPT !.reads = Nobody]
  BY DEF PollFindsNothing
<1>2. poll' \in [reads : Accounts \cup {Nobody}, number : Nat] /\ OnlyPrompts'
  BY <1>1 DEF IInv, TypeOK, OnlyPrompts
<1> QED BY <1>1, <1>2, OthersStep DEF IInv, TypeOK

LEMMA StepReload == ASSUME IInv, Reload PROVE IInv'
<1>1. /\ UNCHANGED <<style, limit, live, now, registry, drains, slots, reqs, poll, faulty>>
      /\ config <= MaxReloads /\ config' = config + 1
  BY DEF Reload
<1>2. config' \in Settings /\ OnlyPrompts'
  BY <1>1, PoolAssumption DEF IInv, TypeOK, OnlyPrompts, Settings
<1> QED BY <1>1, <1>2, OthersStep DEF IInv, TypeOK

LEMMA StepTick == ASSUME IInv, Tick PROVE IInv'
<1> DEFINE Scopes == Models \cup {Everything}
<1>1. /\ UNCHANGED <<style, limit, live, config, registry, slots, reqs, poll, faulty>>
      /\ now' \in Nat /\ now' >= 1
  BY DEF Tick, IInv, TypeOK
<1>2. \A i \in Instances, a \in Accounts, s \in Scopes :
        drains'[i][a][s] = drains[i][a][s] \/ drains'[i][a][s] = NoDrain
  BY DEF Tick
<1>3. /\ drains \in [Instances -> [Accounts -> [Scopes -> DrainType]]]
      /\ NoDrain \in DrainType /\ NoDrain.until = 0
  BY DEF IInv, TypeOK, DrainType, NoDrain
<1>4. drains' \in [Instances -> [Accounts -> [Scopes -> DrainType]]]
  BY <1>3 DEF Tick
<1>5. OnlyPrompts'
  BY <1>1, <1>2, <1>3 DEF IInv, OnlyPrompts
<1> QED BY <1>1, <1>4, <1>5, OthersStep DEF IInv, TypeOK

LEMMA StepIInv == IInv /\ [Next]_vars => IInv'
<1> SUFFICES ASSUME IInv, [Next]_vars PROVE IInv'
  OBVIOUS
<1>1. ASSUME NEW r \in Requests, Step(r) PROVE IInv'
  BY <1>1, StepArrive, StepGetProvider, StepAcquire, StepSelect, StepFlush, StepSucceed,
     StepFail, StepInterrupted DEF Step
<1>2. CASE UNCHANGED vars
  <2>1. OnlyPrompts'
    BY <1>2 DEF vars, IInv, OnlyPrompts
  <2> QED BY <1>2, <2>1, OthersStep DEF vars, IInv, TypeOK
<1> QED BY <1>1, <1>2, StepLeave, StepPollStarts, StepPollFindsExhausted, StepPollFindsNothing,
           StepReload, StepTick DEF Next

LEMMA IInvHolds == Spec => []IInv
BY InitIInv, StepIInv, PTL DEF Spec

-----------------------------------------------------------------------------
(* Who cools *)

Scopes == Models \cup {Everything}

CoolsOnly(i, a, s) ==
  drains'[i][a][s].until > drains[i][a][s].until =>
    Guilty(i, a, s, drains'[i][a][s].why) /\ drains'[i][a][s].until <= now + MaxCool

\* The drains and their deadlines, for the steps that change them.
LEMMA DrainsType ==
  ASSUME IInv
  PROVE  /\ drains \in [Instances -> [Accounts -> [Scopes -> DrainType]]] /\ now \in Nat
         /\ \A i \in Instances, a \in Accounts, s \in Scopes : drains[i][a][s].until \in Nat
<1>1. drains \in [Instances -> [Accounts -> [Scopes -> DrainType]]] /\ now \in Nat
  BY DEF IInv, TypeOK, Scopes
<1>2. ASSUME NEW i \in Instances, NEW a \in Accounts, NEW s \in Scopes
      PROVE  drains[i][a][s].until \in Nat
  <2>1. drains[i][a][s] \in DrainType
    BY <1>1
  <2> QED BY <2>1 DEF DrainType
<1> QED BY <1>1, <1>2

LEMMA UnchangedCools ==
  ASSUME IInv, drains' = drains, NEW i \in Instances, NEW a \in Accounts, NEW s \in Scopes
  PROVE  CoolsOnly(i, a, s)
BY DrainsType DEF CoolsOnly

LEMMA FailCools ==
  ASSUME IInv, NEW r \in Requests, Fail(r),
         NEW i \in Instances, NEW a \in Accounts, NEW s \in Scopes
  PROVE  CoolsOnly(i, a, s)
<1>1. Is(r, "trying") /\ Account(r) \in Accounts
  BY Trying DEF Fail
<1>2. CASE UNCHANGED drains
  BY <1>2, UnchangedCools
<1>3. ASSUME NEW err \in Failures, NEW cooldown \in Cooldowns(err),
             MarkFailed(reqs[r].inst, Account(r), reqs[r].model, err, cooldown)
      PROVE  CoolsOnly(i, a, s)
  <2> DEFINE j == reqs[r].inst
             b == Account(r)
             u == Scope(err, reqs[r].model)
             drain == [until |-> now + cooldown, why |-> err]
  <2>1. cooldown \in Nat /\ cooldown <= MaxCool /\ MaxCool \in Nat
    BY CooldownsType, PoolAssumption
  <2>2. u \in Scopes /\ drains' = [drains EXCEPT ![j][b][u] = drain]
    <3>1. u \in Scopes
      BY ReqFields DEF Scopes, Scope
    <3>2. drains' = [drains EXCEPT ![j][b][u] = drain]
      BY <1>3 DEF MarkFailed
    <3> QED BY <3>1, <3>2
  <2>3. CASE i = j /\ a = b /\ s = u
    <3>1. drains'[i][a][s] = drain
      BY <2>2, <2>3, DrainsType
    <3>2. drains'[i][a][s].until <= now + MaxCool
      BY <2>1, <3>1, DrainsType
    <3>3. s = IF err = "quota" THEN reqs[r].model ELSE Everything
      BY <2>3 DEF Scope
    <3>4. Guilty(i, a, s, err)
      BY <1>1, <2>3, <3>3 DEF Guilty
    <3> QED BY <3>1, <3>2, <3>4 DEF CoolsOnly
  <2>4. CASE ~(i = j /\ a = b /\ s = u)
    <3>1. drains'[i][a][s] = drains[i][a][s]
      BY <2>2, <2>4, DrainsType
    <3> QED BY <3>1, DrainsType DEF CoolsOnly
  <2> QED BY <2>3, <2>4
<1>4. \/ UNCHANGED drains
      \/ \E err \in Failures : \E cooldown \in Cooldowns(err) :
           MarkFailed(reqs[r].inst, Account(r), reqs[r].model, err, cooldown)
  BY DEF Fail
<1> QED BY <1>2, <1>3, <1>4

LEMMA PollExhaustedCools ==
  ASSUME IInv, PollFindsExhausted,
         NEW i \in Instances, NEW a \in Accounts, NEW s \in Scopes
  PROVE  CoolsOnly(i, a, s)
<1>1. CASE UNCHANGED <<drains, registry>>
  BY <1>1, UnchangedCools
<1>2. ASSUME NEW cooldown \in 1..MaxCool, Get(config),
             drains' = [drains EXCEPT ![InstanceFor(config)][poll.reads][Everything] =
                          [until |-> now + cooldown, why |-> "quota"]]
      PROVE  CoolsOnly(i, a, s)
  <2>1. Everything \in Scopes /\ MaxCool \in Nat
    BY PoolAssumption DEF Scopes
  <2>2. CASE i = InstanceFor(config) /\ a = poll.reads /\ s = Everything
    <3>1. drains'[i][a][s] = [until |-> now + cooldown, why |-> "quota"]
      BY <1>2, <2>1, <2>2, DrainsType
    <3>2. Guilty(i, a, s, "quota") /\ drains'[i][a][s].until <= now + MaxCool
      BY <2>1, <2>2, <3>1, DrainsType DEF Guilty
    <3> QED BY <3>1, <3>2 DEF CoolsOnly
  <2>3. CASE ~(i = InstanceFor(config) /\ a = poll.reads /\ s = Everything)
    <3>1. drains'[i][a][s] = drains[i][a][s]
      BY <1>2, <2>1, <2>3, DrainsType
    <3> QED BY <3>1, DrainsType DEF CoolsOnly
  <2> QED BY <2>2, <2>3
<1> QED BY <1>1, <1>2, PollCools

LEMMA TickCools ==
  ASSUME IInv, Tick, NEW i \in Instances, NEW a \in Accounts, NEW s \in Scopes
  PROVE  CoolsOnly(i, a, s)
<1>1. drains'[i][a][s] = drains[i][a][s] \/ drains'[i][a][s] = NoDrain
  BY DEF Tick, Scopes
<1> QED BY <1>1, DrainsType DEF CoolsOnly, NoDrain

LEMMA StepCools ==
  ASSUME IInv, [Next]_vars, NEW i \in Instances, NEW a \in Accounts, NEW s \in Scopes
  PROVE  CoolsOnly(i, a, s)
<1>1. ASSUME NEW r \in Requests, Step(r) \/ Leave(r) PROVE CoolsOnly(i, a, s)
  <2>1. CASE Fail(r)
    BY <2>1, FailCools
  <2>2. CASE ~Fail(r)
    <3>1. drains' = drains
      BY <1>1, <2>2 DEF Step, Leave, Arrive, GetProvider, Acquire, Select, Flush, Succeed,
                         Interrupted
    <3> QED BY <3>1, UnchangedCools
  <2> QED BY <2>1, <2>2
<1>2. CASE PollStarts \/ PollFindsNothing \/ Reload \/ UNCHANGED vars
  <2>1. drains' = drains
    BY <1>2 DEF PollStarts, PollFindsNothing, Reload, vars
  <2> QED BY <2>1, UnchangedCools
<1> QED BY <1>1, <1>2, PollExhaustedCools, TickCools DEF Next

-----------------------------------------------------------------------------
(* The theorems *)

\* The pool, the limiter, the registry and the requests keep their types.
THEOREM TypeCorrect == Spec => []TypeOK
<1>1. IInv => TypeOK
  BY DEF IInv
<1> QED BY <1>1, IInvHolds, PTL

\* Every slot is given back: limitedProvider releases on every path.
THEOREM EverySlotReturns == Spec => []SlotsBalanced
<1>1. IInv => SlotsBalanced
  BY DEF IInv
<1> QED BY <1>1, IInvHolds, PTL

\* No answer is put together from the words of two accounts (AttemptWriter).
THEOREM NoMixedAccounts == Spec => []OneAccountAnswers
<1>1. ASSUME IInv PROVE OneAccountAnswers
  <2>1. ASSUME NEW r \in Requests
        PROVE  /\ \A a, b \in reqs[r].heard : a = b
               /\ reqs[r].left # {} => reqs[r].heard \subseteq {Account(r)}
               /\ reqs[r].ending \in {"cancelled", "busy", "prompt", "fault"} => reqs[r].heard = {}
    <3>1. Sound(reqs[r]) /\ reqs[r].pc \in Phases
      BY <1>1, ReqFields DEF RequestType
    <3>2. reqs[r].left # {} => reqs[r].pc = "trying"
      BY <3>1 DEF Sound, Phases
    <3> QED BY <3>1, <3>2 DEF Sound, Account
  <2> QED BY <2>1 DEF OneAccountAnswers
<1> QED BY <1>1, IInvHolds, PTL

\* On antigravity a bad prompt costs the combo no target (accountUnavailableError).
THEOREM BadPromptForgiven == Spec => []KeptReasonProtects
<1>1. IInv => KeptReasonProtects
  BY DEF IInv
<1> QED BY <1>1, IInvHolds, PTL

\* Only accounts that failed, or whose quota was read, start to cool (MarkFailed, drain).
THEOREM InnocentStayWarm == Spec => CoolsTheGuilty
<1>1. ASSUME IInv, [Next]_vars
      PROVE  [\A i \in Instances, a \in Accounts, s \in Models \cup {Everything} :
                drains'[i][a][s].until > drains[i][a][s].until =>
                  Guilty(i, a, s, drains'[i][a][s].why)
                  /\ drains'[i][a][s].until <= now + MaxCool]_vars
  BY <1>1, StepCools DEF CoolsOnly, Scopes
<1> QED BY <1>1, IInvHolds, PTL DEF Spec, CoolsTheGuilty
=============================================================================
