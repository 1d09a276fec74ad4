----------------------------- MODULE ComboProofs -----------------------------
(***************************************************************************)
(* What is proved of ComboChain for every set of requests, combos and      *)
(* targets, every strategy, chain, timeout and cooldown: its types, that   *)
(* no target is dispatched once a reply is on the wire, that without combo *)
(* budgets a client sees exactly the answer ClientAnswer promises, that    *)
(* statuses are honest and drains have reasons, and what a 429 costs.      *)
(***************************************************************************)
EXTENDS ComboChain, SequenceTheorems, FiniteSetTheorems, TLAPS

-----------------------------------------------------------------------------
(***************************************************************************)
(* Lemmas about the helpers.                                               *)
(***************************************************************************)

\* Updating one entry of a two-level table keeps its type.
LEMMA TableUpdate ==
    ASSUME NEW A, NEW B, NEW V, NEW f \in [A -> [B -> V]],
           NEW a \in A, NEW b \in B, NEW v \in V
    PROVE  [f EXCEPT ![a][b] = v] \in [A -> [B -> V]]
<1>1. [f[a] EXCEPT ![b] = v] \in [B -> V]
  OBVIOUS
<1> QED
  BY <1>1

\* Rotating a sequence of targets yields a sequence of targets: round-robin
\* never invents one.
LEMMA RotateType ==
    ASSUME NEW s \in Seq(Targets), Len(s) > 0, NEW n \in Nat
    PROVE  Rotate(s, n) \in Seq(Targets)
<1>1. \A i \in 1..Len(s) : (n + i - 1) % Len(s) \in 0..(Len(s) - 1)
  <2>1. TAKE i \in 1..Len(s)
  <2>2. Len(s) \in Nat \ {0} /\ n + i - 1 \in Nat
    BY LenProperties
  <2> QED
    BY <2>2
<1>2. \A i \in 1..Len(s) : s[((n + i - 1) % Len(s)) + 1] \in Targets
  <2>1. TAKE i \in 1..Len(s)
  <2>2. ((n + i - 1) % Len(s)) + 1 \in 1..Len(s)
    BY <1>1, LenProperties
  <2> QED
    BY <2>2, ElementOfSeq
<1> QED
  BY <1>2, LenProperties, IsASeq DEF Rotate

\* Whatever the strategy, the chain that is walked holds targets only.
LEMMA ArrangedType ==
    ASSUME NEW c \in Combos, NEW h \in Seq(Targets), NEW d \in Seq(Targets),
           rrCounter \in [Combos -> Nat]
    PROVE  Arranged(c, h, d) \in Seq(Targets)
<1>1. CASE Strategy[c] = "fill-first"
  BY <1>1, ConcatProperties DEF Arranged
<1>2. CASE Strategy[c] = "round-robin" /\ Len(h) >= 2
  <2>1. rrCounter[c] % Len(h) \in Nat
    BY <1>2, LenProperties
  <2> QED
    BY <1>2, <2>1, RotateType, LenProperties DEF Arranged
<1>3. CASE Strategy[c] # "fill-first" /\ ~(Strategy[c] = "round-robin" /\ Len(h) >= 2)
  BY <1>3 DEF Arranged
<1> QED
  BY <1>1, <1>2, <1>3

\* A set of indexes of a sequence is no larger than the sequence.
LEMMA IndexSet ==
    ASSUME NEW n \in Nat, NEW S \in SUBSET (1..n)
    PROVE  IsFiniteSet(S) /\ Cardinality(S) \in 0..n
<1>1. IsFiniteSet(1..n) /\ Cardinality(1..n) = n
  BY FS_Interval
<1>2. IsFiniteSet(S) /\ Cardinality(S) <= n
  BY <1>1, FS_Subset
<1> QED
  BY <1>2, FS_CardinalityType

\* The strikes kept for a target are times, and each 5xx adds at most one.
LEMMA StruckType ==
    ASSUME NEW c \in Combos, NEW t \in Targets, TypeOK
    PROVE  /\ Struck(c, t) \in Seq(Nat) /\ Len(Struck(c, t)) \in Nat
           /\ Len(Struck(c, t)) <= Len(strikes[c][t]) + 1
<1> DEFINE s == strikes[c][t]
           old == {i \in 1..Len(s) : s[i] <= now - TransientWindow}
           kept == SubSeq(s, Cardinality(old) + 1, Len(s))
<1>1. s \in Seq(Nat) /\ Len(s) \in Nat /\ now \in Nat
  BY LenProperties DEF TypeOK
<1>2. Cardinality(old) \in 0..Len(s)
  <2>1. old \in SUBSET (1..Len(s))
    OBVIOUS
  <2> HIDE DEF old, s
  <2> QED
    BY <1>1, <2>1, IndexSet
<1>3. Struck(c, t) = Append(kept, now)
  BY DEF Struck
<1> HIDE DEF old, s
<1>4. kept \in Seq(Nat) /\ Len(kept) <= Len(s)
  <2>1. Cardinality(old) + 1 \in 1..(Len(s) + 1)
    BY <1>1, <1>2
  <2> QED
    BY <1>1, <1>2, <2>1, SubSeqProperties
<1>5. Len(kept) \in Nat
  BY <1>4, LenProperties
<1> HIDE DEF kept
<1>6. Append(kept, now) \in Seq(Nat) /\ Len(Append(kept, now)) = Len(kept) + 1
  BY <1>1, <1>4, AppendProperties
<1> QED
  BY <1>1, <1>3, <1>4, <1>5, <1>6 DEF s

-----------------------------------------------------------------------------
(***************************************************************************)
(* The cooldown of a 429.  The loop that computes it is a recursive        *)
(* function: that there is one is shown by a least counterexample.         *)
(***************************************************************************)
LEMMA Least ==
    ASSUME NEW N \in Nat, NEW S \in SUBSET (0..N), S # {}
    PROVE  \E x \in S : \A y \in S : x <= y
<1> DEFINE Up == {0..x : x \in S}
<1>1. IsFiniteSet(0..N)
  BY FS_Interval
<1>2. Up # {} /\ Up \subseteq SUBSET (0..N)
  <2>1. ASSUME NEW x \in S PROVE (0..x) \subseteq 0..N
    <3>1. x \in 0..N
      OBVIOUS
    <3> QED
      BY <3>1
  <2> QED
    BY <2>1
<1>3. IsWellFoundedOn(StrictSubsetOrdering(0..N), FiniteSubsetsOf(0..N))
  BY FS_StrictSubsetOrderingWellFounded
<1>4. Up \subseteq FiniteSubsetsOf(0..N)
  BY <1>1, <1>2, FS_Subset DEF FiniteSubsetsOf
<1>5. PICK A \in Up : \A B \in Up : <<B, A>> \notin StrictSubsetOrdering(0..N)
  BY <1>2, <1>3, <1>4, WFMin
<1>6. PICK x \in S : A = 0..x
  OBVIOUS
<1>7. ASSUME NEW y \in S PROVE x <= y
  <2>1. x \in 0..N /\ y \in 0..N
    OBVIOUS
  <2>2. CASE y < x
    <3>1. (0..y) \in Up /\ (0..y) \subseteq A /\ x \in A /\ x \notin 0..y
      BY <1>6, <2>1, <2>2
    <3>2. <<0..y, A>> \in StrictSubsetOrdering(0..N)
      BY <1>2, <3>1 DEF StrictSubsetOrdering
    <3> QED
      BY <1>5, <3>1, <3>2
  <2> QED
    BY <2>1, <2>2
<1> QED
  BY <1>7

\* f is what step does to base, up to m times.
Iterates(f, m, base, step) ==
    /\ f \in [0..m -> Nat]
    /\ \A k \in 0..m : f[k] = IF k = 0 THEN base ELSE step[f[k - 1]]

LEMMA Iterated ==
    ASSUME NEW N \in Nat, NEW base \in Nat, NEW step \in [Nat -> Nat]
    PROVE  \E f : Iterates(f, N, base, step)
<1> DEFINE Bad == {m \in 0..N : ~\E f : Iterates(f, m, base, step)}
<1>1. ASSUME Bad # {} PROVE FALSE
  <2>1. PICK m \in Bad : \A k \in Bad : m <= k
    BY <1>1, Least
  <2>2. CASE m = 0
    <3>1. Iterates([k \in 0..0 |-> base], 0, base, step)
      BY DEF Iterates
    <3> QED
      BY <2>1, <2>2, <3>1
  <2>3. CASE m # 0
    <3>1. m \in 1..N /\ m - 1 \in 0..N /\ ~(m <= m - 1)
      BY <2>1, <2>3
    <3>2. PICK g : Iterates(g, m - 1, base, step)
      BY <2>1, <3>1
    <3>3. /\ \A k \in 0..(m - 1) : g[k] \in Nat
          /\ \A k \in 0..(m - 1) : g[k] = IF k = 0 THEN base ELSE step[g[k - 1]]
      BY <3>1, <3>2 DEF Iterates
    <3> DEFINE f == [k \in 0..m |-> IF k = m THEN step[g[m - 1]] ELSE g[k]]
    <3>4. ASSUME NEW k \in 0..m
          PROVE  f[k] \in Nat /\ f[k] = IF k = 0 THEN base ELSE step[f[k - 1]]
      <4>1. CASE k = m
        <5>1. m - 1 \in 0..(m - 1) /\ m - 1 \in 0..m /\ m - 1 # m /\ m # 0
          BY <3>1
        <5>2. f[m] = step[g[m - 1]] /\ f[m - 1] = g[m - 1]
          BY <5>1
        <5>3. step[g[m - 1]] \in Nat
          BY <3>3, <5>1
        <5> HIDE DEF f
        <5> QED
          BY <4>1, <5>1, <5>2, <5>3
      <4>2. CASE k # m
        <5>1. k \in 0..(m - 1)
          BY <3>1, <4>2
        <5>2. k # 0 => k - 1 \in 0..(m - 1) /\ k - 1 # m
          BY <3>1, <5>1
        <5>3. f[k] = g[k] /\ (k # 0 => f[k - 1] = g[k - 1])
          BY <4>2, <5>2
        <5> QED
          BY <3>3, <5>1, <5>3
      <4> QED
        BY <4>1, <4>2
    <3>5. Iterates(f, m, base, step)
      BY <3>4 DEF Iterates
    <3> QED
      BY <2>1, <3>5
  <2> QED
    BY <2>2, <2>3
<1>2. N \in 0..N
  OBVIOUS
<1> QED
  BY <1>1, <1>2

\* The loop of rateLimitCooldown is defined, and every value of it a time.
LEMMA LoopRuns ==
    ASSUME NEW n \in Nat
    PROVE  LET cooldown[k \in 0..n] ==
                 IF k = 0 THEN RateLimitBase
                 ELSE IF cooldown[k - 1] >= RateLimitCap \div 2 THEN RateLimitCap
                 ELSE 2 * cooldown[k - 1]
           IN  \A k \in 0..n :
                  /\ cooldown[k] \in Nat
                  /\ cooldown[k] = IF k = 0 THEN RateLimitBase
                                   ELSE IF cooldown[k - 1] >= RateLimitCap \div 2 THEN RateLimitCap
                                   ELSE 2 * cooldown[k - 1]
<1> DEFINE half == RateLimitCap \div 2
           Loops(f) == f = [k \in 0..n |-> IF k = 0 THEN RateLimitBase
                                           ELSE IF f[k - 1] >= half THEN RateLimitCap
                                           ELSE 2 * f[k - 1]]
           g == CHOOSE f : Loops(f)
<1>1. RateLimitBase \in Nat /\ RateLimitCap \in Nat \ {0} /\ half \in Nat
  BY ComboAssumption
<1> HIDE DEF half
<1>2. Loops(g)
  <2> DEFINE step == [x \in Nat |-> IF x >= half THEN RateLimitCap ELSE 2 * x]
  <2>1. step \in [Nat -> Nat]
    BY <1>1
  <2>2. PICK f : Iterates(f, n, RateLimitBase, step)
    BY <1>1, <2>1, Iterated
  <2>3. \A k \in 0..n : f[k] = IF k = 0 THEN RateLimitBase
                               ELSE IF f[k - 1] >= half THEN RateLimitCap ELSE 2 * f[k - 1]
    <3>1. ASSUME NEW k \in 0..n, k # 0
          PROVE  f[k] = IF f[k - 1] >= half THEN RateLimitCap ELSE 2 * f[k - 1]
      <4>1. k - 1 \in 0..n
        BY <3>1
      <4> QED
        BY <2>2, <3>1, <4>1 DEF Iterates
    <3> QED
      BY <2>2, <3>1 DEF Iterates
  <2>4. Loops(f)
    BY <2>2, <2>3 DEF Iterates
  <2> HIDE DEF Loops
  <2> QED
    BY <2>4
<1> HIDE DEF g
<1> DEFINE Bad == {k \in 0..n : g[k] \notin Nat}
<1>3. ASSUME Bad # {} PROVE FALSE
  <2>1. PICK k \in Bad : \A j \in Bad : k <= j
    BY <1>3, Least
  <2>2. k # 0
    BY <1>1, <1>2, <2>1
  <2>3. k - 1 \in 0..n /\ ~(k <= k - 1)
    BY <2>1, <2>2
  <2>4. g[k - 1] \in Nat
    BY <2>1, <2>3
  <2>5. g[k] = IF g[k - 1] >= half THEN RateLimitCap ELSE 2 * g[k - 1]
    BY <1>2, <2>1, <2>2
  <2> QED
    BY <1>1, <2>1, <2>4, <2>5
<1> QED
  BY <1>2, <1>3 DEF g, half

\* Every cooldown is a number of ticks, so a drain is a time.
LEMMA CooldownType ==
    ASSUME NEW c \in Combos, NEW t \in Targets, NEW e, rateHits[c][t] \in Nat
    PROVE  CooldownFor(c, t, e) \in Nat
<1>1. {DrainTTL, UpstreamCooldown, RateLimitCap} \subseteq Nat
  BY ComboAssumption
<1>2. RateLimitCooldown(rateHits[c][t]) \in Nat
  <2> DEFINE n == rateHits[c][t]
  <2>1. n \in Nat /\ n \in 0..n
    OBVIOUS
  <2> HIDE DEF n
  <2>2. RateLimitCooldown(n) \in Nat
    BY <1>1, <2>1, LoopRuns DEF RateLimitCooldown
  <2> QED
    BY <2>2 DEF n
<1> QED
  BY <1>1, <1>2 DEF CooldownFor
-----------------------------------------------------------------------------
(***************************************************************************)
(* The inductive invariant.                                                *)
(***************************************************************************)
Running == {"inflight", "streaming", "returned"}

\* A dispatch in flight has a context, and is of a target of the order.
DispatchInv(r) ==
    /\ ctx[r] # "none" <=> pc[r] \in Running
    /\ pc[r] \in Running \cup {"attempt"} => idx[r] <= Len(order[r])

\* A timer only fires on a spent budget, and a context that was born cancelled
\* lets no dispatch succeed.
ContextInv(r) ==
    /\ ctx[r] = "expired" => BudgetSpent(r)
    /\ ctx[r] = "cancelled" =>
          /\ BudgetSpent(r) /\ pc[r] # "streaming"
          /\ pc[r] = "returned" => err[r] # "nil"

Silent(r) == reply[r] = NoTarget /\ ending[r] = {} /\ ~committed[r]

\* The wire is untouched until a dispatch commits its reply, and the dispatch
\* that did returns nil.
WireInv(r) ==
    /\ pc[r] \notin {"streaming", "returned", "done"} => Silent(r)
    /\ pc[r] = "streaming" =>
          reply[r] = Current(r) /\ ending[r] = {} /\ ~committed[r]
    /\ pc[r] = "returned" /\ err[r] # "nil" => Silent(r)

IInv ==
    /\ TypeOK
    /\ \A r \in Requests : DispatchInv(r) /\ ContextInv(r) /\ WireInv(r)

LEMMA InitIInv == Init => IInv
<1> SUFFICES ASSUME Init PROVE IInv
  OBVIOUS
<1>1. <<>> \in Seq(Targets) /\ <<>> \in Seq(Nat)
      /\ <<>> \in Seq(AllFaults \cup {"canceled"})
  BY EmptySeq
<1>2. TypeOK
  BY <1>1 DEF Init, TypeOK, PCs
<1>3. ASSUME NEW r \in Requests
      PROVE  DispatchInv(r) /\ ContextInv(r) /\ WireInv(r)
  BY <1>3 DEF Init, DispatchInv, ContextInv, WireInv, Silent, Running
<1> QED
  BY <1>2, <1>3 DEF IInv

\* The target of a dispatch is a target.
LEMMA CurrentType ==
    ASSUME TypeOK, NEW r \in Requests, idx[r] <= Len(order[r])
    PROVE  Current(r) \in Targets
<1>1. order[r] \in Seq(Targets) /\ idx[r] \in Nat \ {0}
  BY DEF TypeOK
<1>2. idx[r] \in 1..Len(order[r])
  BY <1>1, LenProperties
<1> QED
  BY <1>1, <1>2, ElementOfSeq DEF Current

\* A dispatch that Run treats as failed, although the client is there and the
\* budget is not the reason, has an error of its own to show.
LEMMA FailedNotNil ==
    ASSUME IInv, NEW r \in Requests, pc[r] = "returned", ~Succeeded(r), ~gone[r],
           ~(DeadlineExceeded(r) /\ BudgetSpent(r))
    PROVE  err[r] # "nil"
<1>1. ContextInv(r) /\ ctx[r] \in {"none", "live", "expired", "cancelled"}
  BY DEF IInv, TypeOK
<1>2. ctx[r] # "none"
  BY DEF IInv, DispatchInv, Running
<1> QED
  BY <1>1, <1>2 DEF Succeeded, CtxDone, DeadlineExceeded, ContextInv

-----------------------------------------------------------------------------
(***************************************************************************)
(* Types are preserved, one step per action.                               *)
(***************************************************************************)
LEMMA TypeStep == IInv /\ [Next]_vars => TypeOK'
<1> SUFFICES ASSUME IInv, [Next]_vars PROVE TypeOK'
  OBVIOUS
<1>a. TypeOK
  BY DEF IInv
<1>1. ASSUME NEW r \in Requests, Start(r) PROVE TypeOK'
  BY <1>a, <1>1 DEF TypeOK, Start, Goto, PCs, shared, chainVars, wire
<1>2. ASSUME NEW r \in Requests, Classify(r) PROVE TypeOK'
  <2> DEFINE t == Chain[ComboOf[r]][idx[r]]
  <2>1. t \in Targets
    <3>1. Chain[ComboOf[r]] \in Seq(Targets)
      BY ComboAssumption
    <3>2. idx[r] \in 1..Len(Chain[ComboOf[r]])
      BY <1>2, <1>a, <3>1, LenProperties DEF Classify, TypeOK
    <3> QED
      BY <3>1, <3>2, ElementOfSeq
  <2>2. /\ parked[r] \in Seq(Targets) /\ Append(parked[r], t) \in Seq(Targets)
        /\ order[r] \in Seq(Targets) /\ Append(order[r], t) \in Seq(Targets)
    BY <1>a, <2>1, AppendProperties DEF TypeOK
  <2>3. parked' \in [Requests -> Seq(Targets)] /\ order' \in [Requests -> Seq(Targets)]
    BY <1>2, <1>a, <2>2 DEF TypeOK, Classify
  <2>4. pc' = pc /\ idx' \in [Requests -> Nat \ {0}]
    BY <1>2, <1>a DEF TypeOK, Classify, Goto
  <2>5. UNCHANGED <<now, shared, started, retried, ctx, err, failures, throttled,
                    gone, wire>>
    BY <1>2 DEF Classify
  <2> QED
    BY <1>a, <2>3, <2>4, <2>5 DEF TypeOK, shared, wire
<1>3. ASSUME NEW r \in Requests, Arrange(r) PROVE TypeOK'
  <2> DEFINE c == ComboOf[r]
  <2>1. c \in Combos /\ Chain[c] \in Seq(Targets)
    BY ComboAssumption
  <2>2. Arranged(c, order[r], parked[r]) \in Seq(Targets)
    BY <2>1, <1>a, ArrangedType DEF TypeOK
  <2>3. order' \in [Requests -> Seq(Targets)]
    BY <1>3, <1>a, <2>1, <2>2 DEF TypeOK, Arrange
  <2>4. parked' \in [Requests -> Seq(Targets)]
    BY <1>3, <1>a, EmptySeq DEF TypeOK, Arrange
  <2>5. rrCounter' \in [Combos -> Nat]
    <3>1. rrCounter' = rrCounter \/ rrCounter' = [rrCounter EXCEPT ![c] = @ + 1]
      BY <1>3 DEF Arrange
    <3>2. rrCounter \in [Combos -> Nat]
      BY <1>a DEF TypeOK
    <3>3. rrCounter[c] + 1 \in Nat
      BY <3>2, <2>1
    <3> HIDE DEF c
    <3> QED
      BY <3>1, <3>2, <3>3
  <2>6. /\ pc' \in [Requests -> PCs] /\ idx' \in [Requests -> Nat \ {0}]
        /\ started' \in [Requests -> Nat]
    <3>1. /\ pc' = [pc EXCEPT ![r] = "top"] /\ idx' = [idx EXCEPT ![r] = 1]
          /\ started' = [started EXCEPT ![r] = now]
      BY <1>3 DEF Arrange, Goto
    <3> QED
      BY <1>a, <3>1 DEF TypeOK, PCs
  <2>7. UNCHANGED <<now, drains, strikes, rateHits, retried, ctx, err, failures,
                    throttled, gone, wire>>
    BY <1>3 DEF Arrange
  <2> QED
    BY <1>a, <2>3, <2>4, <2>5, <2>6, <2>7 DEF TypeOK, wire
<1>4. ASSUME NEW r \in Requests, BeginAttempt(r) PROVE TypeOK'
  BY <1>a, <1>4 DEF TypeOK, BeginAttempt, Goto, PCs, shared, chainVars, wire
<1>5. ASSUME NEW r \in Requests, StopOnBudget(r) PROVE TypeOK'
  BY <1>a, <1>5 DEF TypeOK, StopOnBudget, Goto, PCs, Write, Endings, shared, chainVars
<1>6. ASSUME NEW r \in Requests, Dispatch(r) PROVE TypeOK'
  BY <1>a, <1>6 DEF TypeOK, Dispatch, Goto, PCs, shared, chainVars, wire
<1>7. ASSUME NEW r \in Requests, DeadlineFires(r) PROVE TypeOK'
  BY <1>a, <1>7 DEF TypeOK, DeadlineFires, shared, chainVars, wire
<1>8. ASSUME NEW r \in Requests, ClientAbort(r) PROVE TypeOK'
  BY <1>a, <1>8 DEF TypeOK, ClientAbort, shared, chainVars, wire
<1>9. ASSUME NEW r \in Requests, CommitStream(r) PROVE TypeOK'
  <2>1. Current(r) \in Targets
    BY <1>9, CurrentType DEF IInv, DispatchInv, Running, CommitStream, Goto
  <2> QED
    BY <1>a, <1>9, <2>1 DEF TypeOK, CommitStream, Goto, PCs, shared, chainVars
<1>10. ASSUME NEW r \in Requests, DispatchOK(r) PROVE TypeOK'
  <2>1. Current(r) \in Targets
    BY <1>10, CurrentType DEF IInv, DispatchInv, Running, DispatchOK, Goto
  <2> QED
    BY <1>a, <1>10, <2>1
    DEF TypeOK, DispatchOK, Goto, PCs, Write, Endings, shared, chainVars
<1>11. ASSUME NEW r \in Requests, DispatchFail(r) PROVE TypeOK'
  <2>1. Faults \subseteq AllFaults
    BY ComboAssumption
  <2> QED
    BY SMTT(30), <1>a, <1>11, <2>1 DEF TypeOK, DispatchFail, Goto, PCs, shared, chainVars, wire
<1>12. ASSUME NEW r \in Requests, StreamFail(r) PROVE TypeOK'
  <2>1. DrainTTL \in Nat
    BY ComboAssumption
  <2>2. drains' \in [Targets -> Nat]
    <3>1. \/ drains' = drains
          \/ drains' = [drains EXCEPT ![Current(r)] = now + DrainTTL]
      BY <1>12 DEF StreamFail, MarkDrained
    <3>2. drains \in [Targets -> Nat] /\ now + DrainTTL \in Nat
      BY <1>a, <2>1 DEF TypeOK
    <3> QED
      BY <3>1, <3>2
  <2> QED
    BY <1>a, <1>12, <2>2 DEF TypeOK, StreamFail, Goto, PCs, Write, Endings, chainVars
<1>13. ASSUME NEW r \in Requests, Return(r) PROVE TypeOK'
  BY <1>a, <1>13 DEF TypeOK, Return, Goto, PCs, shared, chainVars, wire
<1>14. ASSUME NEW r \in Requests, RetryTarget(r) PROVE TypeOK'
  BY <1>a, <1>14 DEF TypeOK, RetryTarget, Goto, PCs, shared, chainVars, wire
<1>15. ASSUME NEW r \in Requests, StopOnAbort(r) PROVE TypeOK'
  BY <1>a, <1>15 DEF TypeOK, StopOnAbort, Goto, PCs, shared, chainVars, wire
<1>16. ASSUME NEW r \in Requests, StopOnDeadline(r) PROVE TypeOK'
  <2>1. ending' = ending \/ ending' = [ending EXCEPT ![r] = @ \cup {"504"}]
    BY <1>16 DEF StopOnDeadline, Write
  <2>2. ending' \in [Requests -> SUBSET Endings]
    <3>1. ending \in [Requests -> SUBSET Endings]
      BY <1>a DEF TypeOK
    <3>2. ending[r] \cup {"504"} \in SUBSET Endings
      BY <3>1 DEF Endings
    <3> QED
      BY <2>1, <3>1, <3>2
  <2>3. /\ pc' \in [Requests -> PCs]
        /\ ctx' \in [Requests -> {"none", "live", "expired", "cancelled"}]
    BY <1>a, <1>16 DEF TypeOK, StopOnDeadline, Goto, PCs
  <2>4. UNCHANGED <<now, shared, chainVars, idx, retried, err, failures, throttled,
                    gone, committed, reply>>
    BY <1>16 DEF StopOnDeadline
  <2> QED
    BY <1>a, <2>2, <2>3, <2>4 DEF TypeOK, shared, chainVars
<1>17. ASSUME NEW r \in Requests, FailOver(r) PROVE TypeOK'
  <2> DEFINE c == ComboOf[r]
             t == Current(r)
  <2>1. c \in Combos
    BY ComboAssumption
  <2>2. t \in Targets
    BY <1>17, CurrentType DEF IInv, DispatchInv, Running, FailOver, Goto
  <2>3. Struck(c, t) \in Seq(Nat)
    BY <1>a, <2>1, <2>2, StruckType
  <2>4. CooldownFor(c, t, err[r]) \in Nat
    <3>1. rateHits[c][t] \in Nat
      BY <1>a, <2>1, <2>2 DEF TypeOK
    <3> QED
      BY <2>1, <2>2, <3>1, CooldownType
  <2>5. DrainAfterFailure(r)
    BY <1>17 DEF FailOver
  <2>6. strikes' \in [Combos -> [Targets -> Seq(Nat)]]
    <3>1. strikes' = strikes \/ strikes' = [strikes EXCEPT ![c][t] = Struck(c, t)]
      BY <2>5 DEF DrainAfterFailure
    <3>2. strikes \in [Combos -> [Targets -> Seq(Nat)]]
      BY <1>a DEF TypeOK
    <3> HIDE DEF t, c
    <3>3. [strikes EXCEPT ![c][t] = Struck(c, t)] \in [Combos -> [Targets -> Seq(Nat)]]
      BY <2>1, <2>2, <2>3, <3>2, TableUpdate, Zenon
    <3> QED
      BY <3>1, <3>2, <3>3
  <2>7. rateHits' \in [Combos -> [Targets -> Nat]]
    <3>1. rateHits' = rateHits \/ rateHits' = [rateHits EXCEPT ![c][t] = @ + 1]
      BY <2>5 DEF DrainAfterFailure
    <3>2. rateHits \in [Combos -> [Targets -> Nat]]
      BY <1>a DEF TypeOK
    <3>3. rateHits[c][t] + 1 \in Nat
      BY <2>1, <2>2, <3>2
    <3> HIDE DEF t, c
    <3>4. [rateHits EXCEPT ![c][t] = @ + 1] \in [Combos -> [Targets -> Nat]]
      BY <2>1, <2>2, <3>2, <3>3, TableUpdate, Zenon
    <3> QED
      BY <3>1, <3>2, <3>4
  <2>8. drains' \in [Targets -> Nat]
    <3>1. now + CooldownFor(c, t, err[r]) \in Nat
      BY <1>a, <2>4 DEF TypeOK
    <3>2. drains' = drains \/ drains' = [drains EXCEPT ![t] = now + CooldownFor(c, t, err[r])]
      BY <2>5 DEF DrainAfterFailure, MarkDrained
    <3> HIDE DEF t, c
    <3> QED
      BY <1>a, <2>2, <3>1, <3>2 DEF TypeOK
  <2>9. failures' \in [Requests -> Seq(AllFaults \cup {"canceled"})]
    <3>1. err[r] # "nil"
      BY <1>17, FailedNotNil DEF FailOver, Goto
    <3>2. err[r] \in AllFaults \cup {"canceled"}
      BY <1>a, <3>1 DEF TypeOK
    <3>3. Append(failures[r], err[r]) \in Seq(AllFaults \cup {"canceled"})
      BY <1>a, <3>2, AppendProperties DEF TypeOK
    <3> QED
      BY <1>a, <1>17, <3>3 DEF TypeOK, FailOver
  <2>10. throttled' \in [Requests -> Nat] /\ idx' \in [Requests -> Nat \ {0}]
    BY <1>a, <1>17 DEF TypeOK, FailOver
  <2> QED
    BY <1>a, <1>17, <2>6, <2>7, <2>8, <2>9, <2>10
    DEF TypeOK, FailOver, Goto, PCs, chainVars, wire
<1>18. ASSUME NEW r \in Requests, Exhaust(r) PROVE TypeOK'
  <2>1. LoopAnswer(r) \in Endings
    BY DEF LoopAnswer, Endings
  <2> QED
    BY <1>a, <1>18, <2>1 DEF TypeOK, Exhaust, Goto, PCs, Write, shared, chainVars
<1>19. CASE Tick
  BY <1>a, <1>19 DEF TypeOK, Tick, shared, chainVars, wire
<1>20. CASE UNCHANGED vars
  BY <1>a, <1>20 DEF TypeOK, vars, shared, chainVars, wire
<1> QED
  BY <1>1, <1>2, <1>3, <1>4, <1>5, <1>6, <1>7, <1>8, <1>9, <1>10, <1>11, <1>12,
     <1>13, <1>14, <1>15, <1>16, <1>17, <1>18, <1>19, <1>20 DEF Next, Serve
-----------------------------------------------------------------------------
(***************************************************************************)
(* The rest of the invariant is preserved: an action of one request leaves *)
(* the others alone, and one step per action treats the request itself.    *)
(***************************************************************************)
ReqInv(r) == DispatchInv(r) /\ ContextInv(r) /\ WireInv(r)

Local(r) == <<pc[r], order[r], idx[r], started[r], ctx[r], err[r], committed[r],
              reply[r], ending[r], failures[r], throttled[r], gone[r]>>

\* Time passing and the steps of other requests do not disturb a request.
LEMMA Frame ==
    ASSUME IInv, NEW r \in Requests, UNCHANGED Local(r), now' \in Nat, now' >= now
    PROVE  ReqInv(r)'
<1>1. now \in Nat /\ started[r] \in Nat /\ Timeout[ComboOf[r]] \in Nat
  BY ComboAssumption DEF IInv, TypeOK
<1>2. BudgetSpent(r) => BudgetSpent(r)'
  BY <1>1 DEF BudgetSpent, Local
<1> QED
  BY <1>2 DEF IInv, ReqInv, DispatchInv, ContextInv, WireInv, Silent, Current, Running,
              Local

\* Every step of a request leaves the clock and the other requests alone.
LEMMA OthersUnchanged ==
    ASSUME NEW r \in Requests, Serve(r) \/ Start(r) \/ CommitStream(r)
             \/ DeadlineFires(r) \/ ClientAbort(r),
           TypeOK, NEW q \in Requests, q # r
    PROVE  UNCHANGED <<now, Local(q)>>
<1>1. ASSUME Start(r) PROVE UNCHANGED <<now, Local(q)>>
  BY <1>1 DEF TypeOK, Local, Start, Goto, shared, chainVars, wire
<1>2. ASSUME Classify(r) PROVE UNCHANGED <<now, Local(q)>>
  BY <1>2 DEF TypeOK, Local, Classify, Goto, shared, wire
<1>3. ASSUME Arrange(r) PROVE UNCHANGED <<now, Local(q)>>
  BY <1>3 DEF TypeOK, Local, Arrange, Goto, wire
<1>4. ASSUME BeginAttempt(r) PROVE UNCHANGED <<now, Local(q)>>
  BY <1>4 DEF TypeOK, Local, BeginAttempt, Goto, shared, chainVars, wire
<1>5. ASSUME StopOnBudget(r) PROVE UNCHANGED <<now, Local(q)>>
  BY <1>5 DEF TypeOK, Local, StopOnBudget, Goto, Write, shared, chainVars
<1>6. ASSUME Dispatch(r) PROVE UNCHANGED <<now, Local(q)>>
  BY <1>6 DEF TypeOK, Local, Dispatch, Goto, shared, chainVars, wire
<1>7. ASSUME DeadlineFires(r) PROVE UNCHANGED <<now, Local(q)>>
  BY <1>7 DEF TypeOK, Local, DeadlineFires, shared, chainVars, wire
<1>8. ASSUME ClientAbort(r) PROVE UNCHANGED <<now, Local(q)>>
  BY <1>8 DEF TypeOK, Local, ClientAbort, shared, chainVars, wire
<1>9. ASSUME CommitStream(r) PROVE UNCHANGED <<now, Local(q)>>
  BY <1>9 DEF TypeOK, Local, CommitStream, Goto, shared, chainVars
<1>10. ASSUME DispatchOK(r) PROVE UNCHANGED <<now, Local(q)>>
  BY <1>10 DEF TypeOK, Local, DispatchOK, Goto, Write, shared, chainVars
<1>11. ASSUME DispatchFail(r) PROVE UNCHANGED <<now, Local(q)>>
  BY <1>11 DEF TypeOK, Local, DispatchFail, Goto, shared, chainVars, wire
<1>12. ASSUME StreamFail(r) PROVE UNCHANGED <<now, Local(q)>>
  BY <1>12 DEF TypeOK, Local, StreamFail, Goto, Write, chainVars
<1>13. ASSUME Return(r) PROVE UNCHANGED <<now, Local(q)>>
  BY <1>13 DEF TypeOK, Local, Return, Goto, shared, chainVars, wire
<1>14. ASSUME RetryTarget(r) PROVE UNCHANGED <<now, Local(q)>>
  BY <1>14 DEF TypeOK, Local, RetryTarget, Goto, shared, chainVars, wire
<1>15. ASSUME StopOnAbort(r) PROVE UNCHANGED <<now, Local(q)>>
  BY <1>15 DEF TypeOK, Local, StopOnAbort, Goto, shared, chainVars, wire
<1>16. ASSUME StopOnDeadline(r) PROVE UNCHANGED <<now, Local(q)>>
  BY <1>16 DEF TypeOK, Local, StopOnDeadline, Goto, Write, shared, chainVars
<1>17. ASSUME FailOver(r) PROVE UNCHANGED <<now, Local(q)>>
  BY <1>17 DEF TypeOK, Local, FailOver, Goto, chainVars, wire
<1>18. ASSUME Exhaust(r) PROVE UNCHANGED <<now, Local(q)>>
  BY <1>18 DEF TypeOK, Local, Exhaust, Goto, Write, shared, chainVars
<1> QED
  BY <1>1, <1>2, <1>3, <1>4, <1>5, <1>6, <1>7, <1>8, <1>9, <1>10, <1>11, <1>12, <1>13, <1>14, <1>15, <1>16, <1>17, <1>18 DEF Serve

LEMMA ReqStep ==
    ASSUME IInv, NEW r \in Requests, Serve(r) \/ Start(r) \/ CommitStream(r)
             \/ DeadlineFires(r) \/ ClientAbort(r)
    PROVE  ReqInv(r)'
<1> USE DEF Running
<1>a. /\ TypeOK /\ DispatchInv(r) /\ ContextInv(r) /\ WireInv(r)
      /\ ReqInv(r)
  BY DEF IInv, ReqInv
<1>1. ASSUME Start(r) PROVE ReqInv(r)'
  BY <1>a, <1>1 DEF TypeOK, ReqInv, DispatchInv, ContextInv, WireInv, Silent,
     Current, BudgetSpent, Start, Goto, shared, chainVars, wire
<1>2. ASSUME Classify(r) PROVE ReqInv(r)'
  BY <1>a, <1>2 DEF TypeOK, ReqInv, DispatchInv, ContextInv, WireInv, Silent,
     Current, BudgetSpent, Classify, Goto, shared, wire
<1>3. ASSUME Arrange(r) PROVE ReqInv(r)'
  BY <1>a, <1>3 DEF TypeOK, ReqInv, DispatchInv, ContextInv, WireInv, Silent,
     Current, BudgetSpent, Arrange, Goto, wire
<1>4. ASSUME BeginAttempt(r) PROVE ReqInv(r)'
  BY <1>a, <1>4 DEF TypeOK, ReqInv, DispatchInv, ContextInv, WireInv, Silent,
     Current, BudgetSpent, BeginAttempt, Goto, shared, chainVars, wire
<1>5. ASSUME StopOnBudget(r) PROVE ReqInv(r)'
  BY <1>a, <1>5 DEF TypeOK, ReqInv, DispatchInv, ContextInv, WireInv, Silent,
     Current, BudgetSpent, StopOnBudget, Goto, Write, shared, chainVars
<1>6. ASSUME Dispatch(r) PROVE ReqInv(r)'
  BY <1>a, <1>6 DEF TypeOK, ReqInv, DispatchInv, ContextInv, WireInv, Silent,
     Current, BudgetSpent, Dispatch, Goto, shared, chainVars, wire
<1>7. ASSUME DeadlineFires(r) PROVE ReqInv(r)'
  BY <1>a, <1>7 DEF TypeOK, ReqInv, DispatchInv, ContextInv, WireInv, Silent,
     Current, BudgetSpent, DeadlineFires, shared, chainVars, wire
<1>8. ASSUME ClientAbort(r) PROVE ReqInv(r)'
  BY <1>a, <1>8 DEF TypeOK, ReqInv, DispatchInv, ContextInv, WireInv, Silent,
     Current, BudgetSpent, ClientAbort, shared, chainVars, wire
<1>9. ASSUME CommitStream(r) PROVE ReqInv(r)'
  BY <1>a, <1>9 DEF TypeOK, ReqInv, DispatchInv, ContextInv, WireInv, Silent,
     Current, BudgetSpent, CommitStream, Goto, shared, chainVars
<1>10. ASSUME DispatchOK(r) PROVE ReqInv(r)'
  BY <1>a, <1>10 DEF TypeOK, ReqInv, DispatchInv, ContextInv, WireInv, Silent,
     Current, BudgetSpent, DispatchOK, Goto, Write, shared, chainVars
<1>11. ASSUME DispatchFail(r) PROVE ReqInv(r)'
  BY <1>a, <1>11 DEF TypeOK, ReqInv, DispatchInv, ContextInv, WireInv, Silent,
     Current, BudgetSpent, DispatchFail, Goto, shared, chainVars, wire
<1>12. ASSUME StreamFail(r) PROVE ReqInv(r)'
  BY <1>a, <1>12 DEF TypeOK, ReqInv, DispatchInv, ContextInv, WireInv, Silent,
     Current, BudgetSpent, StreamFail, Goto, Write, chainVars
<1>13. ASSUME Return(r) PROVE ReqInv(r)'
  BY <1>a, <1>13 DEF TypeOK, ReqInv, DispatchInv, ContextInv, WireInv, Silent,
     Current, BudgetSpent, Return, Goto, shared, chainVars, wire
<1>14. ASSUME RetryTarget(r) PROVE ReqInv(r)'
  <2>1. err[r] # "nil"
    BY <1>14 DEF RetryTarget, MayRetry, TransientGateway
  <2> QED
    BY <1>a, <1>14, <2>1 DEF TypeOK, ReqInv, DispatchInv, ContextInv, WireInv, Silent,
       Current, BudgetSpent, RetryTarget, Goto, shared, chainVars, wire
<1>15. ASSUME StopOnAbort(r) PROVE ReqInv(r)'
  BY <1>a, <1>15 DEF TypeOK, ReqInv, DispatchInv, ContextInv, WireInv, Silent,
     Current, BudgetSpent, StopOnAbort, Goto, shared, chainVars, wire
<1>16. ASSUME StopOnDeadline(r) PROVE ReqInv(r)'
  BY <1>a, <1>16 DEF TypeOK, ReqInv, DispatchInv, ContextInv, WireInv, Silent,
     Current, BudgetSpent, StopOnDeadline, Goto, Write, shared, chainVars
<1>17. ASSUME FailOver(r) PROVE ReqInv(r)'
  <2>1. err[r] # "nil" /\ Silent(r)
    BY <1>a, <1>17, FailedNotNil DEF IInv, FailOver, Goto, WireInv
  <2>2. pc'[r] = "top" /\ ctx'[r] = "none"
    BY <1>a, <1>17 DEF TypeOK, FailOver, Goto
  <2>3. UNCHANGED wire
    BY <1>17 DEF FailOver
  <2>4. DispatchInv(r)' /\ ContextInv(r)'
    BY <2>2 DEF DispatchInv, ContextInv
  <2>5. WireInv(r)'
    BY <2>1, <2>2, <2>3 DEF WireInv, Silent, wire
  <2> QED
    BY <2>4, <2>5 DEF ReqInv
<1>18. ASSUME Exhaust(r) PROVE ReqInv(r)'
  BY <1>a, <1>18 DEF TypeOK, ReqInv, DispatchInv, ContextInv, WireInv, Silent,
     Current, BudgetSpent, Exhaust, Goto, Write, shared, chainVars
<1> QED
  BY <1>1, <1>2, <1>3, <1>4, <1>5, <1>6, <1>7, <1>8, <1>9, <1>10, <1>11, <1>12, <1>13, <1>14, <1>15, <1>16, <1>17, <1>18 DEF Serve

\* The invariant is inductive.
LEMMA Inductive == IInv /\ [Next]_vars => IInv'
<1> SUFFICES ASSUME IInv, [Next]_vars PROVE IInv'
  OBVIOUS
<1>1. TypeOK'
  BY TypeStep
<1>2. ASSUME NEW r \in Requests PROVE ReqInv(r)'
  <2>1. CASE \E q \in Requests : Serve(q) \/ Start(q) \/ CommitStream(q)
               \/ DeadlineFires(q) \/ ClientAbort(q)
    <3>1. PICK q \in Requests : Serve(q) \/ Start(q) \/ CommitStream(q)
               \/ DeadlineFires(q) \/ ClientAbort(q)
      BY <2>1
    <3>2. CASE q = r
      BY <3>1, <3>2, ReqStep
    <3>3. CASE q # r
      <4>1. UNCHANGED <<now, Local(r)>>
        BY <1>2, <3>1, <3>3, OthersUnchanged DEF IInv
      <4>2. now \in Nat
        BY DEF IInv, TypeOK
      <4> QED
        BY <1>2, <4>1, <4>2, Frame
    <3> QED
      BY <3>2, <3>3
  <2>2. CASE Tick \/ UNCHANGED vars
    <3>1. now \in Nat
      BY DEF IInv, TypeOK
    <3>2. now' \in Nat /\ now' >= now
      BY <2>2, <3>1 DEF Tick, vars
    <3>3. UNCHANGED Local(r)
      BY <2>2 DEF Tick, vars, Local, chainVars, wire
    <3> QED
      BY <1>2, <3>2, <3>3, Frame
  <2> QED
    BY <2>1, <2>2 DEF Next
<1> QED
  BY <1>1, <1>2 DEF IInv, ReqInv

-----------------------------------------------------------------------------
(***************************************************************************)
(* The theorems.                                                           *)
(***************************************************************************)
LEMMA Invariance == Spec => []IInv
<1>1. Init => IInv
  BY InitIInv
<1>2. IInv /\ [Next]_vars => IInv'
  BY Inductive
<1> QED
  BY <1>1, <1>2, PTL DEF Spec

\* For any combos, targets, faults and cooldowns the bookkeeping of Run,
\* runCombo and the tracker keeps its types.
THEOREM TypeCorrect == Spec => []TypeOK
<1>1. IInv => TypeOK
  BY DEF IInv
<1> QED
  BY <1>1, Invariance, PTL

\* However many requests run, and whichever strategies, budgets and faults they
\* meet, no target is dispatched once a client received bytes of a reply.
THEOREM NoMixedReplies == Spec => []NoDispatchAfterReply
<1>1. IInv => NoDispatchAfterReply
  BY DEF IInv, WireInv, Silent, NoDispatchAfterReply
<1> QED
  BY <1>1, Invariance, PTL
-----------------------------------------------------------------------------
(***************************************************************************)
(* The refinement.  Without a budget the gateway never ends a chain by     *)
(* itself, and each step that a client can see is a step of ClientAnswer.  *)
(***************************************************************************)
NoBudgets == \A c \in Combos : Timeout[c] = 0

LEMMA NeverSpent ==
    ASSUME NoBudgets, NEW r \in Requests
    PROVE  ~BudgetSpent(r)
BY ComboAssumption DEF NoBudgets, BudgetSpent

\* Writing an ending for a client that is there sets it; it stays unseen
\* otherwise.
LEMMA WriteEnds ==
    ASSUME TypeOK, NEW r \in Requests, NEW e, ending[r] = {}, Write(r, e)
    PROVE  IF gone[r] THEN ending' = ending
           ELSE ending' = [ending EXCEPT ![r] = {e}]
BY DEF TypeOK, Write

Seen == <<reply, ending, gone>>

LEMMA ClientStep ==
    ASSUME IInv, NoBudgets, [Next]_vars
    PROVE  [Client!Next]_Seen
<1>a. TypeOK
  BY DEF IInv
<1>1. ASSUME NEW r \in Requests, ClientAbort(r) PROVE Client!Leave(r)
  BY <1>1 DEF ClientAbort, Client!Leave, wire
<1>2. ASSUME NEW r \in Requests, CommitStream(r)
      PROVE  \E s \in Targets : Client!Begin(r, s)
  <2>1. Current(r) \in Targets
    BY <1>a, <1>2, CurrentType DEF IInv, DispatchInv, Running, CommitStream, Goto
  <2>2. Silent(r)
    BY <1>2 DEF IInv, WireInv, CommitStream, Goto
  <2> QED
    BY <1>2, <2>1, <2>2 DEF CommitStream, Silent, Client!Begin, Client!Open
<1>3. ASSUME NEW r \in Requests, DispatchOK(r)
      PROVE  \/ \E s \in Targets : Client!Begin(r, s) \/ Client!Deliver(r, s)
             \/ Client!End(r) \/ UNCHANGED Seen
  <2>1. Current(r) \in Targets
    BY <1>a, <1>3, CurrentType DEF IInv, DispatchInv, Running, DispatchOK, Goto
  <2>2. /\ reply' = [reply EXCEPT ![r] = Current(r)]
        /\ Write(r, "complete") /\ gone' = gone
    BY <1>3 DEF DispatchOK
  <2>3. CASE pc[r] = "streaming"
    <3>1. reply[r] = Current(r) /\ ending[r] = {}
      BY <2>3 DEF IInv, WireInv
    <3>2. reply' = reply
      BY <1>a, <2>2, <3>1 DEF TypeOK
    <3>3. reply[r] # NoTarget
      BY <2>1, <3>1, ComboAssumption
    <3>4. IF gone[r] THEN ending' = ending
          ELSE ending' = [ending EXCEPT ![r] = {"complete"}]
      BY <1>a, <2>2, <3>1, WriteEnds
    <3> QED
      BY <2>2, <3>1, <3>2, <3>3, <3>4 DEF Client!End, Seen
  <2>4. CASE pc[r] = "inflight"
    <3>1. Silent(r)
      BY <2>4 DEF IInv, WireInv
    <3>2. IF gone[r] THEN ending' = ending
          ELSE ending' = [ending EXCEPT ![r] = {"complete"}]
      BY <1>a, <2>2, <3>1, WriteEnds DEF Silent
    <3> QED
      BY <2>1, <2>2, <3>1, <3>2
      DEF Silent, Client!Begin, Client!Deliver, Client!Open
  <2> QED
    BY <1>3, <2>3, <2>4 DEF DispatchOK, Goto
<1>4. ASSUME NEW r \in Requests, StreamFail(r)
      PROVE  Client!End(r) \/ UNCHANGED Seen
  <2>1. /\ pc[r] = "streaming" /\ Write(r, "errorEvent")
        /\ reply' = reply /\ gone' = gone
    BY <1>4 DEF StreamFail, Goto
  <2>2. reply[r] = Current(r) /\ ending[r] = {}
    BY <2>1 DEF IInv, WireInv
  <2>3. Current(r) \in Targets
    BY <1>a, <2>1, CurrentType DEF IInv, DispatchInv, Running
  <2>4. reply[r] # NoTarget
    BY <2>2, <2>3, ComboAssumption
  <2>5. IF gone[r] THEN ending' = ending
        ELSE ending' = [ending EXCEPT ![r] = {"errorEvent"}]
    BY <1>a, <2>1, <2>2, WriteEnds
  <2> QED
    BY <2>1, <2>2, <2>4, <2>5 DEF Client!End, Seen
<1>5. ASSUME NEW r \in Requests, Exhaust(r)
      PROVE  Client!Reject(r) \/ UNCHANGED Seen
  <2> DEFINE e == LoopAnswer(r)
  <2>1. e \in {"429", "502", "504"}
    BY DEF LoopAnswer
  <2>2. /\ pc[r] = "top" /\ Write(r, e) /\ reply' = reply /\ gone' = gone
    BY <1>5 DEF Exhaust, Goto
  <2> HIDE DEF e
  <2>3. Silent(r)
    BY <2>2 DEF IInv, WireInv
  <2>4. IF gone[r] THEN ending' = ending ELSE ending' = [ending EXCEPT ![r] = {e}]
    BY <1>a, <2>2, <2>3, WriteEnds DEF Silent
  <2> QED
    BY <2>1, <2>2, <2>3, <2>4 DEF Silent, Client!Reject, Client!Open, Seen
<1>6. ASSUME NEW r \in Requests, StopOnBudget(r) \/ StopOnDeadline(r) PROVE FALSE
  BY <1>6, NeverSpent DEF StopOnBudget, StopOnDeadline
<1>7. ASSUME NEW r \in Requests,
             \/ Start(r) \/ Classify(r) \/ Arrange(r) \/ BeginAttempt(r)
             \/ Dispatch(r) \/ DeadlineFires(r) \/ DispatchFail(r) \/ Return(r)
             \/ RetryTarget(r) \/ StopOnAbort(r) \/ FailOver(r)
      PROVE  UNCHANGED Seen
  BY <1>7 DEF Seen, wire, Start, Classify, Arrange, BeginAttempt, Dispatch,
     DeadlineFires, DispatchFail, Return, RetryTarget, StopOnAbort, FailOver
<1>8. ASSUME Tick \/ UNCHANGED vars PROVE UNCHANGED Seen
  BY <1>8 DEF Tick, Seen, vars, wire
<1> QED
  BY <1>1, <1>2, <1>3, <1>4, <1>5, <1>6, <1>7, <1>8
  DEF Next, Serve, Client!Next

\* When no combo has a budget, every client of any number of concurrent
\* requests gets an answer as ClientAnswer promises it: at most one reply, and
\* one ending.  With budgets the promise is broken (StopOnDeadline).
THEOREM AnswersOnce == ASSUME NoBudgets PROVE Spec => OneAnswer
<1>1. Init => Client!Init
  BY DEF Init, Client!Init
<1>2. IInv /\ [Next]_vars => [Client!Next]_Seen
  BY ClientStep
<1> QED
  BY <1>1, <1>2, Invariance, PTL DEF Spec, OneAnswer, Client!Spec, Seen
-----------------------------------------------------------------------------
(***************************************************************************)
(* The log of a chain, and the status that ends it.  Run keeps a failure   *)
(* for every target it has left behind; the status it answers in the end   *)
(* is read off that log, so the log must be that of the whole walk.        *)
(***************************************************************************)
Statuses == {"429", "502", "504"}

\* The log has one entry per target before the current one, its last entry is
\* the last error, and throttled counts entries that are throttles.
LogInv(r) ==
    /\ pc[r] \in {"new", "order"} => Len(failures[r]) = 0 /\ throttled[r] = 0
    /\ pc[r] \notin {"new", "order", "done"} => idx[r] = Len(failures[r]) + 1
    /\ pc[r] = "top" =>
          /\ Len(failures[r]) <= Len(order[r])
          /\ Len(failures[r]) > 0 => failures[r][Len(failures[r])] = err[r]
    /\ throttled[r] <= Len(failures[r])
    /\ throttled[r] = Len(failures[r]) =>
          \A i \in 1..Len(failures[r]) : Throttle(failures[r][i])

\* A status is only ever the last thing Run does, and it is the honest one.
Honest(r) ==
    LET n == Len(failures[r]) IN
    /\ "429" \in ending[r] =>
          /\ n > 0 /\ Throttle(failures[r][n])
          /\ Strategy[ComboOf[r]] \in {"reliable", "round-robin"} =>
                \A i \in 1..n : Throttle(failures[r][i])
    /\ "504" \in ending[r] => BudgetSpent(r) \/ (n > 0 /\ failures[r][n] = "deadline")
    /\ "502" \in ending[r] => n = Len(order[r])

StatusInv(r) ==
    /\ pc[r] # "done" => ending[r] \cap Statuses = {}
    /\ Honest(r)

WalkInv(r) == LogInv(r) /\ StatusInv(r)

\* Without a status on the wire there is nothing to be honest about.
LEMMA SilenceIsHonest ==
    ASSUME NEW r \in Requests
    PROVE  /\ ending[r] \cap Statuses = {} => StatusInv(r)
           /\ ending'[r] \cap Statuses = {} => StatusInv(r)'
BY DEF StatusInv, Honest, Statuses

LEMMA InitWalk == Init => \A r \in Requests : WalkInv(r)
<1> SUFFICES ASSUME Init, NEW r \in Requests PROVE WalkInv(r)
  OBVIOUS
<1>1. ending[r] \cap Statuses = {}
  BY DEF Init
<1>2. failures[r] = <<>> /\ Len(failures[r]) = 0 /\ throttled[r] = 0 /\ pc[r] = "new"
  BY EmptySeq DEF Init
<1> QED
  BY <1>1, <1>2, SilenceIsHonest DEF WalkInv, LogInv

\* What the walk of a request consists of.  While it is left alone the log
\* stays what it was, and a budget that is spent stays spent.
Walk(r) == <<pc[r], order[r], idx[r], started[r], err[r], ending[r], failures[r],
             throttled[r]>>

LEMMA WalkFrame ==
    ASSUME TypeOK, NEW r \in Requests, WalkInv(r), UNCHANGED Walk(r),
           now' \in Nat, now' >= now
    PROVE  WalkInv(r)'
<1>1. now \in Nat /\ started[r] \in Nat /\ Timeout[ComboOf[r]] \in Nat
  BY ComboAssumption DEF TypeOK
<1>2. BudgetSpent(r) => BudgetSpent(r)'
  BY <1>1 DEF BudgetSpent, Walk
<1>3. LogInv(r)'
  BY DEF WalkInv, LogInv, Walk
<1>4. StatusInv(r)'
  BY <1>2 DEF WalkInv, StatusInv, Honest, Walk
<1> QED
  BY <1>3, <1>4 DEF WalkInv

\* What most steps of a running chain have in common: they add nothing to the
\* log, stay at their target and put no status on the wire.
Quiet(r) ==
    /\ pc[r] \notin {"new", "order", "done"} /\ pc'[r] \notin {"new", "order", "top"}
    /\ UNCHANGED <<failures[r], throttled[r], idx[r], order[r]>>
    /\ ending'[r] \cap Statuses = {}

LEMMA QuietStep ==
    ASSUME NEW r \in Requests, LogInv(r), Quiet(r)
    PROVE  WalkInv(r)'
<1>1. LogInv(r)'
  BY DEF LogInv, Quiet
<1>2. StatusInv(r)'
  BY SilenceIsHonest DEF Quiet
<1> QED
  BY <1>1, <1>2 DEF WalkInv

LEMMA WalkStep ==
    ASSUME IInv, NEW r \in Requests, WalkInv(r),
           Serve(r) \/ Start(r) \/ CommitStream(r) \/ DeadlineFires(r) \/ ClientAbort(r)
    PROVE  WalkInv(r)'
<1>a. TypeOK /\ DispatchInv(r) /\ LogInv(r) /\ StatusInv(r)
  BY DEF IInv, WalkInv
<1>b. /\ failures[r] \in Seq(AllFaults \cup {"canceled"}) /\ order[r] \in Seq(Targets)
      /\ Len(failures[r]) \in Nat /\ Len(order[r]) \in Nat
      /\ idx[r] \in Nat /\ throttled[r] \in Nat /\ now \in Nat
  BY <1>a, LenProperties DEF TypeOK
<1>c. pc[r] # "done" => ending[r] \cap Statuses = {}
  BY <1>a DEF StatusInv
<1> USE DEF Statuses
<1>1. ASSUME Start(r) \/ Classify(r) PROVE WalkInv(r)'
  <2>1. /\ pc[r] \in {"new", "order"} /\ pc'[r] = "order"
        /\ UNCHANGED <<failures, throttled, ending>>
    BY <1>a, <1>1 DEF Start, Classify, Goto, TypeOK, wire
  <2>2. LogInv(r)'
    BY <1>a, <2>1 DEF LogInv
  <2> QED
    BY <1>c, <2>1, <2>2, SilenceIsHonest DEF WalkInv
<1>2. ASSUME Arrange(r) PROVE WalkInv(r)'
  <2>1. /\ pc[r] = "order" /\ pc'[r] = "top" /\ idx'[r] = 1
        /\ UNCHANGED <<failures, throttled, ending>>
    BY <1>a, <1>2 DEF Arrange, Goto, TypeOK, wire
  <2>2. order'[r] \in Seq(Targets)
    BY <1>2, TypeStep DEF Next, Serve, TypeOK
  <2>3. Len(order'[r]) \in Nat
    BY <2>2, LenProperties
  <2>4. LogInv(r)'
    BY <1>a, <2>1, <2>3 DEF LogInv
  <2> QED
    BY <1>c, <2>1, <2>4, SilenceIsHonest DEF WalkInv
<1>3. ASSUME DeadlineFires(r) \/ ClientAbort(r) PROVE WalkInv(r)'
  <2>1. UNCHANGED Walk(r) /\ now' = now
    BY <1>3 DEF DeadlineFires, ClientAbort, Walk, chainVars, wire
  <2> QED
    BY <1>a, <1>b, <2>1, WalkFrame
<1>4. ASSUME \/ BeginAttempt(r) \/ Dispatch(r) \/ CommitStream(r) \/ DispatchFail(r)
             \/ Return(r) \/ RetryTarget(r) \/ StopOnAbort(r)
      PROVE  WalkInv(r)'
  <2>1. Quiet(r)
    <3>1. /\ pc[r] \notin {"new", "order", "done"} /\ pc'[r] \notin {"new", "order", "top"}
      BY <1>a, <1>4 DEF BeginAttempt, Dispatch, CommitStream, DispatchFail, Return,
         RetryTarget, StopOnAbort, Goto, TypeOK
    <3>2. UNCHANGED <<failures, throttled, idx, order, ending>>
      BY <1>4 DEF BeginAttempt, Dispatch, CommitStream, DispatchFail, Return,
         RetryTarget, StopOnAbort, chainVars, wire
    <3> QED
      BY <1>c, <3>1, <3>2 DEF Quiet
  <2> QED
    BY <1>a, <2>1, QuietStep
<1>5. ASSUME DispatchOK(r) \/ StreamFail(r) PROVE WalkInv(r)'
  <2>1. /\ pc[r] \in {"inflight", "streaming"} /\ pc'[r] = "returned"
        /\ Write(r, "complete") \/ Write(r, "errorEvent")
        /\ UNCHANGED <<failures, throttled, idx, order>>
    BY <1>a, <1>5 DEF DispatchOK, StreamFail, Goto, TypeOK, chainVars
  <2>2. ending'[r] \subseteq ending[r] \cup {"complete", "errorEvent"}
    BY <1>a, <2>1 DEF Write, TypeOK
  <2>3. ending'[r] \cap Statuses = {}
    BY <1>c, <2>1, <2>2
  <2> QED
    BY <1>a, <2>1, <2>3, QuietStep DEF Quiet
<1>6. ASSUME StopOnBudget(r) \/ StopOnDeadline(r) PROVE WalkInv(r)'
  <2>1. /\ pc[r] \in {"top", "returned"} /\ pc'[r] = "done" /\ BudgetSpent(r)
        /\ Write(r, "504") \/ UNCHANGED ending
        /\ UNCHANGED <<failures, throttled, idx, order, started, now>>
    BY <1>a, <1>6 DEF StopOnBudget, StopOnDeadline, Goto, TypeOK, chainVars
  <2>2. LogInv(r)'
    BY <1>a, <2>1 DEF LogInv
  <2>3. ending'[r] \cap Statuses \subseteq {"504"}
    BY <1>a, <1>c, <2>1 DEF Write, TypeOK
  <2>4. BudgetSpent(r)'
    BY <2>1 DEF BudgetSpent
  <2> QED
    BY <2>1, <2>2, <2>3, <2>4 DEF WalkInv, StatusInv, Honest
<1>7. ASSUME FailOver(r) PROVE WalkInv(r)'
  <2> DEFINE n == Len(failures[r])
  <2>1. /\ pc[r] = "returned" /\ pc'[r] = "top" /\ idx'[r] = idx[r] + 1
        /\ failures'[r] = Append(failures[r], err[r])
        /\ throttled'[r] = (IF Throttle(err[r]) THEN throttled[r] + 1 ELSE throttled[r])
        /\ UNCHANGED <<ending, order, err>>
    BY <1>a, <1>7 DEF FailOver, Goto, TypeOK, chainVars, wire
  <2>2. err[r] \in AllFaults \cup {"canceled"}
    BY <1>a, <1>7, FailedNotNil DEF FailOver, Goto, TypeOK
  <2>3. /\ Len(failures'[r]) = n + 1 /\ failures'[r][n + 1] = err[r]
        /\ \A i \in 1..n : failures'[r][i] = failures[r][i]
    BY <1>b, <2>1, <2>2, AppendProperties
  <2>4. idx[r] = n + 1 /\ n + 1 <= Len(order[r])
    BY <1>a, <2>1 DEF LogInv, DispatchInv, Running
  <2>5. throttled'[r] <= n + 1
    BY <1>a, <1>b, <2>1 DEF LogInv
  <2>6. throttled'[r] = n + 1 => throttled[r] = n /\ Throttle(err[r])
    BY <1>a, <1>b, <2>1 DEF LogInv
  <2>7. throttled'[r] = n + 1 => \A i \in 1..(n + 1) : Throttle(failures'[r][i])
    <3>1. SUFFICES ASSUME throttled'[r] = n + 1, NEW i \in 1..(n + 1)
                   PROVE  Throttle(failures'[r][i])
      OBVIOUS
    <3>2. CASE i \in 1..n
      BY <1>a, <2>3, <2>6, <3>1, <3>2 DEF LogInv
    <3>3. CASE i = n + 1
      BY <2>3, <2>6, <3>1, <3>3
    <3> QED
      BY <1>b, <3>2, <3>3
  <2> HIDE DEF n
  <2>8. LogInv(r)'
    BY <1>b, <2>1, <2>3, <2>4, <2>5, <2>7 DEF LogInv, n
  <2> QED
    BY <1>c, <2>1, <2>8, SilenceIsHonest DEF WalkInv
<1>8. ASSUME Exhaust(r) PROVE WalkInv(r)'
  <2>1. /\ pc[r] = "top" /\ pc'[r] = "done" /\ idx[r] > Len(order[r])
        /\ Write(r, LoopAnswer(r))
        /\ UNCHANGED <<failures, throttled, idx, order, started, now>>
    BY <1>a, <1>8 DEF Exhaust, Goto, TypeOK, chainVars
  <2>2. LogInv(r)'
    BY <1>a, <2>1 DEF LogInv
  <2>3. ending'[r] \cap Statuses \subseteq {LoopAnswer(r)}
    BY <1>a, <1>c, <2>1 DEF Write, TypeOK
  <2>4. Len(failures[r]) = Len(order[r])
    BY <1>a, <1>b, <2>1 DEF LogInv
  <2>5. failures[r] # <<>> => Len(failures[r]) > 0 /\ failures[r][Len(failures[r])] = err[r]
    <3>1. failures[r] # <<>> => Len(failures[r]) > 0
      BY <1>b, EmptySeq
    <3> QED
      BY <1>a, <2>1, <3>1 DEF LogInv
  <2>6. LoopAnswer(r) = "429" =>
          /\ Len(failures[r]) > 0 /\ Throttle(failures[r][Len(failures[r])])
          /\ Strategy[ComboOf[r]] \in {"reliable", "round-robin"} =>
                \A i \in 1..Len(failures[r]) : Throttle(failures[r][i])
    BY <1>a, <2>5 DEF LoopAnswer, LogInv, Throttle
  <2>7. LoopAnswer(r) = "504" =>
          BudgetSpent(r) \/ (Len(failures[r]) > 0 /\ failures[r][Len(failures[r])] = "deadline")
    BY <2>5 DEF LoopAnswer
  <2>8. BudgetSpent(r) => BudgetSpent(r)'
    BY <2>1 DEF BudgetSpent
  <2>9. Honest(r)'
    <3> HIDE DEF Statuses
    <3>1. \A e \in Statuses : e \in ending'[r] => e = LoopAnswer(r)
      BY <2>3
    <3> QED
      BY <2>1, <2>4, <2>6, <2>7, <2>8, <3>1 DEF Honest, Statuses
  <2> QED
    BY <2>1, <2>2, <2>9 DEF WalkInv, StatusInv
<1> QED
  BY <1>1, <1>2, <1>3, <1>4, <1>5, <1>6, <1>7, <1>8 DEF Serve

LEMMA WalkInductive ==
    IInv /\ (\A r \in Requests : WalkInv(r)) /\ [Next]_vars
      => (\A r \in Requests : WalkInv(r))'
<1> SUFFICES ASSUME IInv, \A r \in Requests : WalkInv(r), [Next]_vars,
                    NEW r \in Requests
             PROVE  WalkInv(r)'
  OBVIOUS
<1>a. TypeOK /\ now \in Nat
  BY DEF IInv, TypeOK
<1>1. CASE \E q \in Requests : Serve(q) \/ Start(q) \/ CommitStream(q)
             \/ DeadlineFires(q) \/ ClientAbort(q)
  <2>1. PICK q \in Requests : Serve(q) \/ Start(q) \/ CommitStream(q)
             \/ DeadlineFires(q) \/ ClientAbort(q)
    BY <1>1
  <2>2. CASE q = r
    BY <2>1, <2>2, WalkStep
  <2>3. CASE q # r
    <3>1. UNCHANGED <<now, Local(r)>>
      BY <1>a, <2>1, <2>3, OthersUnchanged
    <3>2. UNCHANGED Walk(r)
      BY <3>1 DEF Local, Walk
    <3> QED
      BY <1>a, <3>1, <3>2, WalkFrame
  <2> QED
    BY <2>2, <2>3
<1>2. CASE Tick \/ UNCHANGED vars
  <2>1. now' \in Nat /\ now' >= now
    BY <1>a, <1>2 DEF Tick, vars
  <2>2. UNCHANGED Walk(r)
    BY <1>2 DEF Tick, vars, Walk, chainVars, wire
  <2> QED
    BY <1>a, <2>1, <2>2, WalkFrame
<1> QED
  BY <1>1, <1>2 DEF Next

LEMMA WalkInvariance == Spec => [](\A r \in Requests : WalkInv(r))
<1>1. Init => \A r \in Requests : WalkInv(r)
  BY InitWalk
<1> QED
  BY <1>1, WalkInductive, Invariance, PTL DEF Spec

\* For any strategies, budgets, faults and number of concurrent requests the
\* status of an answer says what happened: 429 only after throttles, 504 only
\* for a deadline, 502 only when every target of the order was tried.
THEOREM StatusesAreHonest == Spec => []HonestAnswer
<1>1. (\A r \in Requests : WalkInv(r)) => HonestAnswer
  BY DEF WalkInv, StatusInv, Honest, HonestAnswer
<1> QED
  BY <1>1, WalkInvariance, PTL
-----------------------------------------------------------------------------
(***************************************************************************)
(* The evidence behind a drain.  The log of a request never loses a        *)
(* failure and its order is settled before the first one, so what earned a *)
(* drain stays on record; each strike kept for a target has a failure of   *)
(* its own in some log.                                                    *)
(***************************************************************************)

\* The 5xx failures of target t that requests of combo c have met.
BlameSet(c, t) ==
    UNION {{r} \X Blames(r, t, {"gateway", "server"}) :
             r \in {q \in Requests : ComboOf[q] = c}}

Counted(c, t) ==
    /\ IsFiniteSet(BlameSet(c, t))
    /\ Len(strikes[c][t]) <= Cardinality(BlameSet(c, t))

\* An error event is the last thing on a wire, and "canceled" is the failure of
\* a context that is done.
CauseInv(r) ==
    /\ "errorEvent" \in ending[r] => pc[r] \in {"returned", "done"}
    /\ pc[r] = "returned" /\ err[r] = "canceled" => CtxDone(r)

OwnFaults == AllFaults \ {"client", "busy", "gateway", "server"}

Earned(t) ==
    \/ \E r \in Requests : Blames(r, t, OwnFaults) # {}
    \/ \E r \in Requests : reply[r] = t /\ "errorEvent" \in ending[r]
    \/ \E c \in Combos : Cardinality(BlameSet(c, t)) >= TransientStrikes
    \/ \E r \in Requests : BudgetSpent(r) /\ Blames(r, t, {"canceled"}) # {}

EInv ==
    /\ \A c \in Combos, t \in Targets : Counted(c, t)
    /\ \A r \in Requests : CauseInv(r)
    /\ \A t \in Targets : drains[t] > 0 => Earned(t)

LEMMA InBlameSet ==
    ASSUME NEW c, NEW t, NEW x
    PROVE  x \in BlameSet(c, t) <=>
             \E r \in Requests : \E i \in Blames(r, t, {"gateway", "server"}) :
                ComboOf[r] = c /\ x = <<r, i>>
BY DEF BlameSet

LEMMA InitEvidence == Init => EInv
<1> SUFFICES ASSUME Init PROVE EInv
  OBVIOUS
<1>1. ASSUME NEW c \in Combos, NEW t \in Targets PROVE Counted(c, t)
  <2>1. \A r \in Requests : Blames(r, t, {"gateway", "server"}) = {}
    BY EmptySeq DEF Init, Blames
  <2>2. BlameSet(c, t) = {}
    BY <2>1, InBlameSet
  <2>3. strikes[c][t] = <<>>
    BY DEF Init
  <2> QED
    BY <2>2, <2>3, FS_EmptySet, EmptySeq DEF Counted
<1>2. \A r \in Requests : CauseInv(r)
  BY DEF Init, CauseInv
<1>3. \A t \in Targets : ~(drains[t] > 0)
  BY DEF Init
<1> QED
  BY <1>1, <1>2, <1>3 DEF EInv

\* Every step of a request but FailOver keeps the logs as they are.
LEMMA LogsKept ==
    ASSUME TypeOK, NEW r \in Requests, LogInv(r), ~FailOver(r),
           Serve(r) \/ Start(r) \/ CommitStream(r) \/ DeadlineFires(r) \/ ClientAbort(r),
           NEW q \in Requests, NEW t, NEW E
    PROVE  Blames(q, t, E)' = Blames(q, t, E)
<1>1. CASE Classify(r) \/ Arrange(r)
  <2>1. failures' = failures /\ pc[r] = "order"
    BY <1>1 DEF Classify, Arrange, Goto
  <2>2. CASE q = r
    BY <2>1, <2>2 DEF LogInv, Blames
  <2>3. CASE q # r
    <3>1. order'[q] = order[q]
      BY <1>1, <2>3 DEF Classify, Arrange, TypeOK
    <3> QED
      BY <2>1, <3>1 DEF Blames
  <2> QED
    BY <2>2, <2>3
<1>2. CASE ~(Classify(r) \/ Arrange(r))
  <2>1. UNCHANGED <<failures, order>>
    BY <1>2 DEF Serve, Start, BeginAttempt, StopOnBudget, Dispatch, DispatchOK,
       DispatchFail, StreamFail, Return, RetryTarget, StopOnAbort, StopOnDeadline,
       Exhaust, CommitStream, DeadlineFires, ClientAbort, chainVars
  <2> QED
    BY <2>1 DEF Blames
<1> QED
  BY <1>1, <1>2

\* FailOver adds one failure, of the target the request was at.
LEMMA LogGrows ==
    ASSUME IInv, NEW r \in Requests, WalkInv(r), FailOver(r),
           NEW q \in Requests, NEW t, NEW E
    PROVE  Blames(q, t, E)' = Blames(q, t, E) \cup
             (IF q = r /\ t = Current(r) /\ err[r] \in E
              THEN {Len(failures[r]) + 1} ELSE {})
<1>a. /\ TypeOK /\ failures[r] \in Seq(AllFaults \cup {"canceled"})
      /\ Len(failures[r]) \in Nat
  BY LenProperties DEF IInv, TypeOK
<1>b. /\ pc[r] = "returned" /\ order' = order
      /\ failures' = [failures EXCEPT ![r] = Append(failures[r], err[r])]
  BY <1>a DEF FailOver, Goto, chainVars, TypeOK
<1>c. err[r] \in AllFaults \cup {"canceled"}
  BY <1>a, <1>b, FailedNotNil DEF FailOver, TypeOK
<1>1. CASE q # r
  <2>1. failures'[q] = failures[q]
    BY <1>a, <1>b, <1>1 DEF TypeOK
  <2> QED
    BY <1>b, <1>1, <2>1 DEF Blames
<1>2. CASE q = r
  <2> DEFINE n == Len(failures[r])
  <2>1. failures'[r] = Append(failures[r], err[r])
    BY <1>a, <1>b DEF TypeOK
  <2>2. /\ Len(failures'[r]) = n + 1 /\ failures'[r][n + 1] = err[r]
        /\ \A i \in 1..n : failures'[r][i] = failures[r][i]
    BY <1>a, <1>c, <2>1, AppendProperties
  <2>3. order'[r][n + 1] = Current(r)
    BY <1>b DEF WalkInv, LogInv, Current
  <2>4. 1..(n + 1) = 1..n \cup {n + 1}
    BY <1>a
  <2> HIDE DEF n
  <2>5. Blames(r, t, E)' = {i \in 1..(n + 1) : order[r][i] = t /\ failures'[r][i] \in E}
    BY <1>b, <2>2 DEF Blames
  <2>6. Blames(r, t, E) = {i \in 1..n : order[r][i] = t /\ failures[r][i] \in E}
    BY DEF Blames, n
  <2>7. ASSUME NEW i
        PROVE  i \in Blames(r, t, E)' <=>
                 \/ i \in Blames(r, t, E)
                 \/ i = n + 1 /\ t = Current(r) /\ err[r] \in E
    <3>1. i \in 1..n => (i \in Blames(r, t, E)' <=> i \in Blames(r, t, E))
      BY <2>2, <2>4, <2>5, <2>6
    <3>2. n + 1 \notin 1..n
      BY <1>a DEF n
    <3> QED
      BY <1>b, <2>2, <2>3, <2>4, <2>5, <2>6, <3>1, <3>2
  <2> QED
    BY <1>2, <2>7 DEF n
<1> QED
  BY <1>1, <1>2

\* A server error adds one entry to the record of its combo and target.
LEMMA BlameSetGrows ==
    ASSUME IInv, NEW r \in Requests, WalkInv(r), FailOver(r),
           NEW c \in Combos, NEW t \in Targets, Counted(c, t)
    PROVE  LET hit == ComboOf[r] = c /\ t = Current(r) /\ ServerError(err[r]) IN
           /\ IsFiniteSet(BlameSet(c, t)')
           /\ BlameSet(c, t) \subseteq BlameSet(c, t)'
           /\ Cardinality(BlameSet(c, t)) \in Nat /\ Cardinality(BlameSet(c, t)') \in Nat
           /\ Cardinality(BlameSet(c, t)') =
                Cardinality(BlameSet(c, t)) + (IF hit THEN 1 ELSE 0)
<1> DEFINE n == Len(failures[r])
           hit == ComboOf[r] = c /\ t = Current(r) /\ ServerError(err[r])
           x == <<r, n + 1>>
           G == {"gateway", "server"}
<1>a. n \in Nat
  BY LenProperties DEF IInv, TypeOK
<1>1. ASSUME NEW q \in Requests, NEW i
      PROVE  i \in Blames(q, t, G)' <=>
               \/ i \in Blames(q, t, G)
               \/ q = r /\ t = Current(r) /\ err[r] \in G /\ i = n + 1
  <2>1. Blames(q, t, G)' = Blames(q, t, G) \cup
          (IF q = r /\ t = Current(r) /\ err[r] \in G THEN {n + 1} ELSE {})
    BY LogGrows
  <2> HIDE DEF n, G
  <2> QED
    BY <2>1
<1>2. x \notin BlameSet(c, t)
  <2>1. n + 1 \notin Blames(r, t, G)
    BY <1>a DEF Blames
  <2> QED
    BY <2>1, InBlameSet
<1>3. BlameSet(c, t)' = BlameSet(c, t) \cup (IF hit THEN {x} ELSE {})
  <2>1. ASSUME NEW y
        PROVE  y \in BlameSet(c, t)' <=>
                 \E q \in Requests : \E i \in Blames(q, t, G)' :
                    ComboOf[q] = c /\ y = <<q, i>>
    BY DEF BlameSet
  <2>2. ASSUME NEW y
        PROVE  y \in BlameSet(c, t)' <=> y \in BlameSet(c, t) \/ (hit /\ y = x)
    <3>1. y \in BlameSet(c, t) <=> \E q \in Requests : \E i \in Blames(q, t, G) :
                                      ComboOf[q] = c /\ y = <<q, i>>
      BY InBlameSet
    <3>2. hit <=> ComboOf[r] = c /\ t = Current(r) /\ err[r] \in G
      BY DEF ServerError
    <3> HIDE DEF hit, n, G
    <3>3. y \in BlameSet(c, t)' => y \in BlameSet(c, t) \/ (hit /\ y = x)
      BY <1>1, <2>1, <3>1, <3>2
    <3>4. y \in BlameSet(c, t) => y \in BlameSet(c, t)'
      BY <1>1, <2>1, <3>1
    <3>5. hit /\ y = x => y \in BlameSet(c, t)'
      BY <1>1, <2>1, <3>2
    <3> QED
      BY <3>3, <3>4, <3>5
  <2> HIDE DEF hit, x
  <2> QED
    BY <2>2
<1>4. IsFiniteSet(BlameSet(c, t)) /\ Cardinality(BlameSet(c, t)) \in Nat
  BY FS_CardinalityType DEF Counted
<1> HIDE DEF hit, x
<1>5. CASE hit
  <2>1. BlameSet(c, t)' = BlameSet(c, t) \cup {x}
    BY <1>3, <1>5
  <2>2. /\ IsFiniteSet(BlameSet(c, t) \cup {x})
        /\ Cardinality(BlameSet(c, t) \cup {x}) = Cardinality(BlameSet(c, t)) + 1
    BY <1>2, <1>4, FS_AddElement
  <2> QED
    BY <1>4, <1>5, <2>1, <2>2 DEF hit
<1>6. CASE ~hit
  <2>1. BlameSet(c, t)' = BlameSet(c, t)
    BY <1>3, <1>6
  <2> QED
    BY <1>4, <1>6, <2>1 DEF hit
<1> QED
  BY <1>5, <1>6

\* Evidence is never taken back.
LEMMA EarnedStays ==
    ASSUME NEW t \in Targets, Earned(t),
           \A q \in Requests : Blames(q, t, OwnFaults) \subseteq Blames(q, t, OwnFaults)',
           \A q \in Requests : reply[q] = t /\ "errorEvent" \in ending[q] =>
                                 (reply[q] = t /\ "errorEvent" \in ending[q])',
           \A q \in Requests : BudgetSpent(q) /\ Blames(q, t, {"canceled"}) # {} =>
                                 (BudgetSpent(q) /\ Blames(q, t, {"canceled"}) # {})',
           \A c \in Combos : /\ IsFiniteSet(BlameSet(c, t)')
                             /\ Cardinality(BlameSet(c, t)) \in Nat
                             /\ Cardinality(BlameSet(c, t)') \in Nat
                             /\ Cardinality(BlameSet(c, t)') >= Cardinality(BlameSet(c, t))
    PROVE  Earned(t)'
<1>1. CASE \E r \in Requests : Blames(r, t, OwnFaults) # {}
  BY <1>1 DEF Earned
<1>2. CASE \E r \in Requests : reply[r] = t /\ "errorEvent" \in ending[r]
  BY <1>2 DEF Earned
<1>3. CASE \E c \in Combos : Cardinality(BlameSet(c, t)) >= TransientStrikes
  <2>1. PICK c \in Combos : Cardinality(BlameSet(c, t)) >= TransientStrikes
    BY <1>3
  <2>2. TransientStrikes \in Nat
    BY ComboAssumption
  <2>3. Cardinality(BlameSet(c, t)') >= TransientStrikes
    BY <2>1, <2>2
  <2> QED
    BY <2>2, <2>3 DEF Earned
<1>4. CASE \E r \in Requests : BudgetSpent(r) /\ Blames(r, t, {"canceled"}) # {}
  BY <1>4 DEF Earned
<1> QED
  BY <1>1, <1>2, <1>3, <1>4 DEF Earned

\* After such an update every entry is the old one or the new value at a, b.
LEMMA TableEntry ==
    ASSUME NEW A, NEW B, NEW V, NEW f \in [A -> [B -> V]], NEW v, NEW x \in A, NEW y \in B,
           NEW a, NEW b
    PROVE  [f EXCEPT ![a][b] = v][x][y] = IF x = a /\ y = b THEN v ELSE f[x][y]
OBVIOUS

\* The steps that touch neither a drain nor a strike.
LEMMA QuietEvidence ==
    ASSUME TypeOK, NEW r \in Requests, LogInv(r), EInv, ~FailOver(r), ~StreamFail(r),
           Serve(r) \/ Start(r) \/ CommitStream(r) \/ DeadlineFires(r) \/ ClientAbort(r)
    PROVE  UNCHANGED <<drains, strikes>>
BY DEF Serve, Start, Classify, Arrange, BeginAttempt, StopOnBudget, Dispatch, DispatchOK,
   DispatchFail, Return, RetryTarget, StopOnAbort, StopOnDeadline, Exhaust,
   CommitStream, DeadlineFires, ClientAbort, shared

\* The counts stay below the record: only a server error adds a strike, and it
\* adds an entry to the record as well.
LEMMA CountedStep ==
    ASSUME IInv, NEW r \in Requests, WalkInv(r), EInv,
           Serve(r) \/ Start(r) \/ CommitStream(r) \/ DeadlineFires(r) \/ ClientAbort(r),
           NEW c \in Combos, NEW t \in Targets
    PROVE  /\ Counted(c, t)'
           /\ IsFiniteSet(BlameSet(c, t)')
           /\ Cardinality(BlameSet(c, t)) \in Nat
           /\ Cardinality(BlameSet(c, t)') \in Nat
           /\ Cardinality(BlameSet(c, t)') >= Cardinality(BlameSet(c, t))
<1>a. TypeOK /\ LogInv(r) /\ Counted(c, t) /\ Len(strikes[c][t]) \in Nat
  <2>1. strikes[c][t] \in Seq(Nat)
    BY DEF IInv, TypeOK
  <2> QED
    BY <2>1, LenProperties DEF IInv, WalkInv, EInv
<1>b. Cardinality(BlameSet(c, t)) \in Nat
  BY <1>a, FS_CardinalityType DEF Counted
<1>1. CASE ~FailOver(r)
  <2>1. \A q \in Requests :
           Blames(q, t, {"gateway", "server"})' = Blames(q, t, {"gateway", "server"})
    BY <1>a, <1>1, LogsKept
  <2>2. BlameSet(c, t)' = BlameSet(c, t)
    BY <2>1 DEF BlameSet
  <2>3. strikes' = strikes
    BY <1>a, <1>1, QuietEvidence DEF StreamFail
  <2> QED
    BY <1>a, <1>b, <2>2, <2>3 DEF Counted
<1>2. CASE FailOver(r)
  <2> DEFINE hit == ComboOf[r] = c /\ t = Current(r) /\ ServerError(err[r])
  <2>1. /\ IsFiniteSet(BlameSet(c, t)') /\ Cardinality(BlameSet(c, t)') \in Nat
        /\ Cardinality(BlameSet(c, t)') =
             Cardinality(BlameSet(c, t)) + (IF hit THEN 1 ELSE 0)
    BY <1>2, <1>a, BlameSetGrows
  <2>2. \/ strikes'[c][t] = strikes[c][t]
        \/ hit /\ strikes'[c][t] = Struck(c, t)
    <3>1. \/ strikes' = strikes
          \/ /\ ServerError(err[r])
             /\ strikes' = [strikes EXCEPT ![ComboOf[r]][Current(r)] =
                              Struck(ComboOf[r], Current(r))]
      BY <1>2 DEF FailOver, DrainAfterFailure
    <3>2. strikes \in [Combos -> [Targets -> Seq(Nat)]]
      BY <1>a DEF TypeOK
    <3> QED
      BY <3>1, <3>2, TableEntry
  <2>3. Len(Struck(c, t)) <= Len(strikes[c][t]) + 1
    BY <1>a, StruckType
  <2>4. Len(Struck(c, t)) \in Nat
    BY <1>a, StruckType
  <2> HIDE DEF hit
  <2>5. Len(strikes'[c][t]) <= Cardinality(BlameSet(c, t)')
    BY <1>a, <1>b, <2>1, <2>2, <2>3, <2>4 DEF Counted
  <2> QED
    BY <1>b, <2>1, <2>5 DEF Counted
<1> QED
  BY <1>1, <1>2

\* A context that is done stays done until the dispatch has been dealt with.
LEMMA CauseStep ==
    ASSUME IInv, NEW r \in Requests, EInv,
           Serve(r) \/ Start(r) \/ CommitStream(r) \/ DeadlineFires(r) \/ ClientAbort(r),
           NEW q \in Requests
    PROVE  CauseInv(q)'
<1>a. TypeOK /\ CauseInv(q) /\ CauseInv(r)
  BY DEF IInv, EInv
<1>1. CASE q # r
  <2>1. UNCHANGED Local(q)
    BY <1>a, <1>1, OthersUnchanged
  <2> QED
    BY <1>a, <2>1 DEF CauseInv, CtxDone, Local
<1>2. CASE q = r
  <2>1. gone[r] => gone'[r]
    BY <1>a DEF TypeOK, Serve, Start, Classify, Arrange, BeginAttempt, StopOnBudget,
       Dispatch, DispatchOK, DispatchFail, StreamFail, Return, RetryTarget, StopOnAbort,
       StopOnDeadline, FailOver, Exhaust, CommitStream, DeadlineFires, ClientAbort
  <2>2. CASE DispatchFail(r)
    <3>1. /\ err'[r] = "canceled" => CtxDone(r)
          /\ pc[r] = "inflight" /\ UNCHANGED <<ctx, gone, ending>>
      BY <1>a, <2>2 DEF DispatchFail, Goto, TypeOK, wire
    <3> QED
      BY <1>a, <1>2, <3>1 DEF CauseInv, CtxDone
  <2>3. CASE DispatchOK(r) \/ StreamFail(r)
    <3>1. pc'[r] = "returned" /\ err'[r] = "nil"
      BY <1>a, <2>3 DEF DispatchOK, StreamFail, Goto, TypeOK
    <3> QED
      BY <1>2, <3>1 DEF CauseInv
  <2>4. CASE DeadlineFires(r) \/ ClientAbort(r)
    BY <1>2, <1>a, <2>1, <2>4 DEF TypeOK, DeadlineFires, ClientAbort, CauseInv, CtxDone, wire
  <2>5. ASSUME ~DispatchFail(r), ~DispatchOK(r), ~StreamFail(r), ~DeadlineFires(r),
               ~ClientAbort(r)
        PROVE  CauseInv(r)'
    <3>1. pc'[r] # "returned"
      BY <1>a, <2>5 DEF TypeOK, Goto, Serve, Start, Classify, Arrange, BeginAttempt,
         StopOnBudget, Dispatch, Return, RetryTarget, StopOnAbort, StopOnDeadline,
         FailOver, Exhaust, CommitStream
    <3>2. "errorEvent" \in ending'[r] => "errorEvent" \in ending[r]
      <4>1. LoopAnswer(r) # "errorEvent"
        BY DEF LoopAnswer
      <4>2. ending' = ending \/ Write(r, "504") \/ Write(r, LoopAnswer(r))
        BY <2>5 DEF Serve, Start, Classify, Arrange, BeginAttempt, StopOnBudget, Dispatch,
           Return, RetryTarget, StopOnAbort, StopOnDeadline, FailOver, Exhaust,
           CommitStream, wire
      <4>3. ending \in [Requests -> SUBSET Endings]
        BY <1>a DEF TypeOK
      <4> QED
        BY <4>1, <4>2, <4>3 DEF Write
    <3>3. "errorEvent" \in ending[r] => pc'[r] \in {"returned", "done"}
      <4>1. "errorEvent" \in ending[r] => pc[r] \in {"returned", "done"}
        BY <1>a DEF CauseInv
      <4>2. pc[r] # "done"
        BY <1>a, <2>5 DEF TypeOK, Goto, Serve, Start, Classify, Arrange, BeginAttempt,
           StopOnBudget, Dispatch, Return, RetryTarget, StopOnAbort, StopOnDeadline,
           FailOver, Exhaust, CommitStream
      <4>3. "errorEvent" \in ending[r] => pc[r] = "returned" /\ err[r] = "nil"
        BY <4>1, <4>2 DEF IInv, WireInv, Silent
      <4>4. "errorEvent" \in ending[r] => ~RetryTarget(r) /\ ~FailOver(r)
        BY <4>3, FailedNotNil DEF RetryTarget, MayRetry, TransientGateway, FailOver
      <4> QED
        BY <1>a, <2>5, <4>3, <4>4 DEF TypeOK, Goto, Serve, Start, Classify, Arrange,
           BeginAttempt, StopOnBudget, Dispatch, Return, StopOnAbort, StopOnDeadline,
           Exhaust, CommitStream
    <3> QED
      BY <3>1, <3>2, <3>3 DEF CauseInv
  <2> QED
    BY <1>2, <2>2, <2>3, <2>4, <2>5
<1> QED
  BY <1>1, <1>2

\* A chain starts the clock of its budget once, before its first failure.
LEMMA SpentStays ==
    ASSUME TypeOK, NEW r \in Requests, LogInv(r),
           Serve(r) \/ Start(r) \/ CommitStream(r) \/ DeadlineFires(r) \/ ClientAbort(r),
           NEW q \in Requests, BudgetSpent(q), NEW t, NEW E, Blames(q, t, E) # {}
    PROVE  BudgetSpent(q)'
<1>1. now' = now
  BY DEF Serve, Start, Classify, Arrange, BeginAttempt, StopOnBudget, Dispatch, DispatchOK,
     DispatchFail, StreamFail, Return, RetryTarget, StopOnAbort, StopOnDeadline, FailOver,
     Exhaust, CommitStream, DeadlineFires, ClientAbort
<1>2. started'[q] = started[q]
  <2>1. CASE Arrange(r)
    <3>1. pc[r] = "order" /\ started' = [started EXCEPT ![r] = now]
      BY <2>1 DEF Arrange, Goto
    <3>2. q # r
      BY <3>1 DEF LogInv, Blames
    <3> QED
      BY <3>1, <3>2 DEF TypeOK
  <2>2. CASE ~Arrange(r)
    BY <2>2 DEF Serve, Start, Classify, BeginAttempt, StopOnBudget, Dispatch, DispatchOK,
       DispatchFail, StreamFail, Return, RetryTarget, StopOnAbort, StopOnDeadline, FailOver,
       Exhaust, CommitStream, DeadlineFires, ClientAbort, chainVars
  <2> QED
    BY <2>1, <2>2
<1> QED
  BY <1>1, <1>2 DEF BudgetSpent

\* A drain is set by FailOver, which logs the failure, or by a stream that broke
\* while its client was there, which gets an error event.
LEMMA EarnedStep ==
    ASSUME IInv, NEW r \in Requests, WalkInv(r), EInv,
           Serve(r) \/ Start(r) \/ CommitStream(r) \/ DeadlineFires(r) \/ ClientAbort(r),
           NEW t \in Targets, drains'[t] > 0
    PROVE  Earned(t)'
<1>a. /\ TypeOK /\ LogInv(r) /\ WireInv(r) /\ DispatchInv(r) /\ ContextInv(r)
      /\ CauseInv(r) /\ (drains[t] > 0 => Earned(t))
  BY DEF IInv, WalkInv, EInv
<1>b. ASSUME Earned(t) PROVE Earned(t)'
  <2>1. ASSUME NEW q \in Requests
        PROVE  Blames(q, t, OwnFaults) \subseteq Blames(q, t, OwnFaults)'
    BY <1>a, LogsKept, LogGrows
  <2>2. ASSUME NEW q \in Requests, reply[q] = t, "errorEvent" \in ending[q]
        PROVE  (reply[q] = t /\ "errorEvent" \in ending[q])'
    <3>1. CASE q # r
      BY <1>a, <2>2, <3>1, OthersUnchanged DEF Local
    <3>2. CASE q = r
      <4>1. pc[r] \notin {"inflight", "streaming"}
        BY <1>a, <2>2, <3>2 DEF CauseInv
      <4>2. reply' = reply
        BY <4>1 DEF Serve, Start, Classify, Arrange, BeginAttempt, StopOnBudget, Dispatch,
           DispatchOK, DispatchFail, StreamFail, Return, RetryTarget, StopOnAbort,
           StopOnDeadline, FailOver, Exhaust, CommitStream, DeadlineFires, ClientAbort,
           wire, Goto
      <4>3. ending[r] \subseteq ending'[r]
        BY <1>a DEF TypeOK, Write, Serve, Start, Classify, Arrange, BeginAttempt,
           StopOnBudget, Dispatch, DispatchOK, DispatchFail, StreamFail, Return,
           RetryTarget, StopOnAbort, StopOnDeadline, FailOver, Exhaust, CommitStream,
           DeadlineFires, ClientAbort, wire
      <4> QED
        BY <2>2, <3>2, <4>2, <4>3
    <3> QED
      BY <3>1, <3>2
  <2>3. \A c \in Combos : /\ IsFiniteSet(BlameSet(c, t)')
                          /\ Cardinality(BlameSet(c, t)) \in Nat
                          /\ Cardinality(BlameSet(c, t)') \in Nat
                          /\ Cardinality(BlameSet(c, t)') >= Cardinality(BlameSet(c, t))
    BY CountedStep
  <2>4. ASSUME NEW q \in Requests, BudgetSpent(q), Blames(q, t, {"canceled"}) # {}
        PROVE  (BudgetSpent(q) /\ Blames(q, t, {"canceled"}) # {})'
    BY <1>a, <2>4, SpentStays, LogsKept, LogGrows DEF WalkInv
  <2> QED
    BY <1>b, <2>1, <2>2, <2>3, <2>4, EarnedStays
<1>1. CASE StreamFail(r)
  <2>1. /\ pc[r] = "streaming" /\ Write(r, "errorEvent") /\ reply' = reply
        /\ drains' = drains \/ (~CtxDone(r) /\ MarkDrained(Current(r), DrainTTL))
    BY <1>1 DEF StreamFail, Goto
  <2>2. CASE drains'[t] = drains[t]
    BY <1>a, <1>b, <2>2
  <2>3. CASE drains'[t] # drains[t]
    <3>1. ~gone[r] /\ t = Current(r)
      BY <1>a, <2>1, <2>3 DEF CtxDone, MarkDrained, TypeOK
    <3>2. reply'[r] = t /\ "errorEvent" \in ending'[r]
      BY <1>a, <2>1, <3>1 DEF WireInv, Write, TypeOK
    <3> QED
      BY <3>2 DEF Earned
  <2> QED
    BY <2>2, <2>3
<1>2. CASE FailOver(r)
  <2> DEFINE c == ComboOf[r]
             e == err[r]
  <2>1. CASE drains'[t] = drains[t]
    BY <1>a, <1>b, <2>1
  <2>2. CASE drains'[t] # drains[t]
    <3>1. /\ drains' = drains \/ MarkDrained(Current(r), CooldownFor(c, Current(r), e))
          /\ drains' # drains =>
               /\ Drainable(e)
               /\ ServerError(e) =>
                    /\ Len(Struck(c, Current(r))) >= TransientStrikes
                    /\ strikes' = [strikes EXCEPT ![c][Current(r)] = Struck(c, Current(r))]
      BY <1>2 DEF FailOver, DrainAfterFailure
    <3>2. t = Current(r) /\ drains' # drains
      BY <1>a, <2>2, <3>1 DEF MarkDrained, TypeOK
    <3>3. CASE ServerError(e)
      <4>1. c \in Combos /\ TransientStrikes \in Nat
        BY ComboAssumption
      <4>2. Len(Struck(c, t)) >= TransientStrikes
        BY <3>1, <3>2, <3>3
      <4>3. strikes'[c][t] = Struck(c, t)
        <5>1. strikes \in [Combos -> [Targets -> Seq(Nat)]]
          BY <1>a DEF TypeOK
        <5>2. strikes' = [strikes EXCEPT ![c][t] = Struck(c, t)]
          BY <3>1, <3>2, <3>3
        <5> HIDE DEF c
        <5> QED
          BY <4>1, <5>1, <5>2, TableEntry
      <4>4. Len(Struck(c, t)) \in Nat
        BY <1>a, <4>1, StruckType
      <4>5. Counted(c, t)' /\ Cardinality(BlameSet(c, t)') \in Nat
        BY <4>1, CountedStep
      <4>6. Cardinality(BlameSet(c, t)') >= TransientStrikes
        <5>1. Len(strikes'[c][t]) <= Cardinality(BlameSet(c, t)')
          BY <4>5 DEF Counted
        <5> HIDE DEF c
        <5> QED
          BY <4>1, <4>2, <4>3, <4>4, <4>5, <5>1
      <4> QED
        BY <4>1, <4>6 DEF Earned
    <3>4. CASE ~ServerError(e)
      <4>1. /\ pc[r] = "returned" /\ ~Succeeded(r) /\ ~gone[r]
            /\ ~(DeadlineExceeded(r) /\ BudgetSpent(r))
        BY <1>2 DEF FailOver, Goto
      <4>2. e # "nil"
        BY <4>1, FailedNotNil
      <4>3. CASE e # "canceled"
        <5>1. e \in OwnFaults
          BY <1>a, <3>1, <3>2, <3>4, <4>2, <4>3
          DEF OwnFaults, Drainable, ServerError, TypeOK
        <5>2. Len(failures[r]) + 1 \in Blames(r, t, OwnFaults)'
          BY <1>2, <3>2, <5>1, LogGrows
        <5> QED
          BY <5>2 DEF Earned
      <4>4. CASE e = "canceled"
        <5>1. ctx[r] \in {"expired", "cancelled"}
          BY <1>a, <4>1, <4>4 DEF CauseInv, CtxDone, DispatchInv, Running, TypeOK
        <5>2. BudgetSpent(r)
          BY <1>a, <5>1 DEF ContextInv
        <5>3. BudgetSpent(r)'
          BY <1>2, <5>2 DEF FailOver, BudgetSpent, chainVars
        <5>4. Len(failures[r]) + 1 \in Blames(r, t, {"canceled"})'
          BY <1>2, <3>2, <4>4, LogGrows
        <5> QED
          BY <5>3, <5>4 DEF Earned
      <4> QED
        BY <4>3, <4>4
    <3> QED
      BY <3>3, <3>4
  <2> QED
    BY <2>1, <2>2
<1>3. CASE ~StreamFail(r) /\ ~FailOver(r)
  BY <1>a, <1>b, <1>3, QuietEvidence
<1> QED
  BY <1>1, <1>2, <1>3

LEMMA EvidenceInductive ==
    IInv /\ (\A r \in Requests : WalkInv(r)) /\ EInv /\ [Next]_vars => EInv'
<1> SUFFICES ASSUME IInv, \A r \in Requests : WalkInv(r), EInv, [Next]_vars
             PROVE  EInv'
  OBVIOUS
<1>1. ASSUME NEW r \in Requests,
             Serve(r) \/ Start(r) \/ CommitStream(r) \/ DeadlineFires(r) \/ ClientAbort(r)
      PROVE  EInv'
  <2>1. \A c \in Combos, t \in Targets : Counted(c, t)'
    BY <1>1, CountedStep
  <2>2. \A q \in Requests : CauseInv(q)'
    BY <1>1, CauseStep
  <2>3. \A t \in Targets : drains'[t] > 0 => Earned(t)'
    BY <1>1, EarnedStep
  <2> QED
    BY <2>1, <2>2, <2>3 DEF EInv
<1>2. CASE Tick \/ UNCHANGED vars
  <2>1. UNCHANGED <<drains, strikes, pc, ctx, order, err, failures, gone, reply, ending>>
    BY <1>2 DEF Tick, vars, shared, chainVars, wire
  <2>2. ASSUME NEW q \in Requests, NEW t \in Targets, NEW E
        PROVE  Blames(q, t, E)' = Blames(q, t, E)
    BY <2>1 DEF Blames
  <2>3. \A c \in Combos, t \in Targets : BlameSet(c, t)' = BlameSet(c, t)
    BY <2>2 DEF BlameSet
  <2>4. \A q \in Requests : BudgetSpent(q) => BudgetSpent(q)'
    <3>1. ASSUME NEW q \in Requests PROVE Timeout[ComboOf[q]] \in Nat /\ started[q] \in Nat
      BY ComboAssumption DEF IInv, TypeOK
    <3>2. now \in Nat /\ now' \in Nat /\ now' >= now /\ started' = started
      BY <1>2 DEF IInv, TypeOK, Tick, vars, chainVars
    <3> QED
      BY <3>1, <3>2 DEF BudgetSpent
  <2>5. ASSUME NEW t \in Targets, Earned(t) PROVE Earned(t)'
    BY <2>1, <2>2, <2>3, <2>4, <2>5 DEF Earned
  <2> QED
    BY <2>1, <2>3, <2>5 DEF EInv, Counted, CauseInv, CtxDone
<1> QED
  BY <1>1, <1>2 DEF Next

\* For any budgets, strategies and faults every drain of every target has a
\* reason, whatever the requests in flight did and in whatever order: it was
\* earned, or the budget of a chain was spent before its attempt began.
THEOREM DrainsHaveReasons == Spec => []DrainHasReason
<1>1. Init => EInv
  BY InitEvidence
<1>2. EInv => DrainHasReason
  BY DEF EInv, Earned, DrainHasReason, HasEvidence, BlameSet, OwnFaults
<1> QED
  BY <1>1, <1>2, EvidenceInductive, Invariance, WalkInvariance, PTL DEF Spec

\* When no combo has a budget, every drain of every target was earned: a fault
\* of its own that a request logged, a stream that broke on a client, or enough
\* server errors that requests of one combo logged.
THEOREM DrainsAreEarned == ASSUME NoBudgets PROVE Spec => []DrainHasEvidence
<1>1. DrainHasReason => DrainHasEvidence
  BY NeverSpent DEF DrainHasReason, DrainHasEvidence
<1> QED
  BY <1>1, DrainsHaveReasons, PTL

-----------------------------------------------------------------------------
(***************************************************************************)
(* The cooldown of a 429.                                                  *)
(***************************************************************************)
\* For an even cap the loop, which compares with half of it, stops where the
\* doubled base would pass it.
LEMMA LoopDoubles ==
    ASSUME RateLimitCap % 2 = 0, NEW n \in Nat
    PROVE  LET doubled[k \in 0..n] == IF k = 0 THEN RateLimitBase ELSE 2 * doubled[k - 1]
           IN  RateLimitCooldown(n) =
                 IF doubled[n] <= RateLimitCap THEN doubled[n] ELSE RateLimitCap
<1> DEFINE half == RateLimitCap \div 2
           Doubles(f) == f = [k \in 0..n |-> IF k = 0 THEN RateLimitBase ELSE 2 * f[k - 1]]
           Loops(f) == f = [k \in 0..n |-> IF k = 0 THEN RateLimitBase
                                           ELSE IF f[k - 1] >= half THEN RateLimitCap
                                           ELSE 2 * f[k - 1]]
           d == CHOOSE f : Doubles(f)
           g == CHOOSE f : Loops(f)
<1>1. /\ RateLimitBase \in Nat /\ RateLimitCap \in Nat \ {0}
      /\ half \in Nat /\ RateLimitCap = 2 * half
  BY ComboAssumption
<1>2. RateLimitCooldown(n) = IF g[n] > RateLimitCap THEN RateLimitCap ELSE g[n]
  BY DEF RateLimitCooldown
<1> HIDE DEF half
<1>3. Doubles(d)
  <2> DEFINE step == [x \in Nat |-> 2 * x]
  <2>1. step \in [Nat -> Nat]
    OBVIOUS
  <2>2. PICK f : Iterates(f, n, RateLimitBase, step)
    BY <1>1, <2>1, Iterated
  <2>3. \A k \in 0..n : f[k] = IF k = 0 THEN RateLimitBase ELSE 2 * f[k - 1]
    <3>1. ASSUME NEW k \in 0..n, k # 0 PROVE f[k] = 2 * f[k - 1]
      <4>1. k - 1 \in 0..n
        BY <3>1
      <4> QED
        BY <2>2, <3>1, <4>1 DEF Iterates
    <3> QED
      BY <2>2, <3>1 DEF Iterates
  <2>4. Doubles(f)
    BY <2>2, <2>3 DEF Iterates
  <2> HIDE DEF Doubles
  <2> QED
    BY <2>4
<1>4. \A k \in 0..n :
          g[k] = IF k = 0 THEN RateLimitBase
                 ELSE IF g[k - 1] >= half THEN RateLimitCap ELSE 2 * g[k - 1]
  BY LoopRuns DEF half
<1> HIDE DEF d, g
<1> DEFINE Agree(k) == /\ d[k] \in Nat
                       /\ g[k] = d[k] \/ (g[k] = RateLimitCap /\ d[k] >= RateLimitCap)
           Bad == {k \in 0..n : ~Agree(k)}
<1>5. ASSUME Bad # {} PROVE FALSE
  <2>1. PICK k \in Bad : \A j \in Bad : k <= j
    BY <1>5, Least
  <2>2. d[0] = RateLimitBase /\ g[0] = RateLimitBase
    BY <1>3, <1>4
  <2>3. k \in 1..n /\ k - 1 \in 0..n /\ ~(k <= k - 1)
    BY <1>1, <2>1, <2>2
  <2>4. Agree(k - 1)
    BY <2>1, <2>3
  <2>5. /\ d[k] = 2 * d[k - 1]
        /\ g[k] = IF g[k - 1] >= half THEN RateLimitCap ELSE 2 * g[k - 1]
    BY <1>3, <1>4, <2>3
  <2>6. Agree(k)
    BY <1>1, <2>4, <2>5
  <2> QED
    BY <2>1, <2>6
<1>6. Agree(n)
  BY <1>5
<1> QED
  BY <1>1, <1>2, <1>6 DEF d

\* The cooldown after any number of 429s is the base doubled for each of them,
\* up to the cap, although the loop of rateLimitCooldown looks at half the cap
\* (60 seconds, an even number) before it doubles.
THEOREM CooldownsDouble ==
    ASSUME RateLimitCap % 2 = 0
    PROVE  Spec => []BackoffDoubles
<1>1. TypeOK => BackoffDoubles
  <2>1. ASSUME TypeOK, NEW c \in Combos, NEW t \in Targets, NEW n \in rateHits[c][t]..(rateHits[c][t] + 6)
        PROVE  n \in Nat
    BY <2>1 DEF TypeOK
  <2> QED
    BY <2>1, LoopDoubles DEF BackoffDoubles
<1> QED
  BY <1>1, TypeCorrect, PTL
=============================================================================
