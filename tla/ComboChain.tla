----------------------------- MODULE ComboChain -----------------------------
(***************************************************************************)
(* Concurrent combo requests of the gateway: combo.Run walks the targets   *)
(* of a combo until one answers, and the dispatch callback of runCombo     *)
(* decides what reaches the client.  The requests share the drains kept by *)
(* the Tracker, and per combo the strikes, the 429 counters and the        *)
(* round-robin counter.                                                    *)
(*                                                                         *)
(* Time is a counter of ticks.  The attempt context is a state machine of  *)
(* its own: its timer fires at some moment at or after the deadline, so a  *)
(* dispatch can return just before or just after it.                       *)
(***************************************************************************)
EXTENDS Integers, Sequences, FiniteSets

CONSTANTS
    Requests,         \* the client requests; each calls one combo once
    Streams,          \* the requests that ask for a stream
    Combos,           \* the configured combos
    Targets,          \* the provider/model pairs
    NoTarget,         \* a value that is not a target
    ComboOf,          \* ComboOf[r]: the combo that request r calls
    Strategy,         \* Strategy[c]: the strategy of combo c
    Chain,            \* Chain[c]: the targets of combo c, in order
    Timeout,          \* Timeout[c]: the budget of a chain of c, 0 for none
    Faults,           \* the upstream failures considered
    DrainTTL,         \* the configured drain TTL
    UpstreamCooldown, \* the Cooldown() or RetryAfter() an error carries
    RateLimitBase, RateLimitCap,
    TransientWindow, TransientStrikes,
    MaxInFlight,      \* bound: requests served at the same time
    MaxTime           \* bound: the last tick

Strategies == {"priority", "fill-first", "reliable", "round-robin"}

\* What a dispatch can return before any byte reached the client:
\*   "busy"       the local concurrency limit is saturated (ProviderBusyError)
\*   "client"     400, 404 or 422, or an account cooled by one of them
\*   "rate"       429 without a Retry-After (a plain HTTPStatusError)
\*   "retryAfter" 429 whose error carries RetryAfter()
\*   "quota"      an error with Cooldown() and no status (codex quota, pool)
\*   "gateway"    502, 503, 504;   "server"  any other 5xx
\*   "deadline"   a DeadlineExceeded of the upstream's own
\*   "fault"      a stall, a transport error, an empty reply, 401, 403, an
\*                unknown or disabled target
AllFaults == {"busy", "client", "rate", "retryAfter", "quota", "gateway",
              "server", "deadline", "fault"}

ASSUME ComboAssumption ==
    /\ Streams \subseteq Requests
    /\ NoTarget \notin Targets
    /\ ComboOf \in [Requests -> Combos]
    /\ Strategy \in [Combos -> Strategies]
    /\ Chain \in [Combos -> Seq(Targets)]
    /\ Timeout \in [Combos -> Nat]
    /\ Faults \subseteq AllFaults
    /\ {DrainTTL, UpstreamCooldown, RateLimitBase, RateLimitCap} \subseteq Nat \ {0}
    /\ TransientWindow \in Nat \ {0} /\ TransientStrikes \in Nat \ {0}
    /\ MaxInFlight \in Nat /\ MaxTime \in Nat

VARIABLES
    now,       \* the clock
    drains,    \* Tracker.drains: the time each target is drained until
    strikes,   \* recent 5xx times per combo and target
    rateHits,  \* 429s without Retry-After per combo and target
    rrCounter, \* the round-robin counter of each combo
    pc,        \* where each request is in its chain
    order,     \* orderedTargets (while it is built: the healthy ones)
    parked,    \* the drained targets met while ordering
    idx,       \* the loop index
    retried,   \* whether the attempt is on its second dispatch
    started,   \* attemptStart
    ctx,       \* the context of the dispatch in flight
    err,       \* what the dispatch returned, "nil" for success
    failures,  \* the failures slice of Run
    throttled, \* backpressure + rateLimited
    gone,      \* the request context is cancelled: the client left
    committed, \* responseCommitted of runCombo
    reply,     \* the target whose reply the client received (part of)
    ending     \* how the answer on the wire ended, in every way it did

shared == <<drains, strikes, rateHits, rrCounter>>
chainVars == <<order, parked, started>>
wire == <<committed, reply, ending>>
vars == <<now, shared, pc, chainVars, idx, retried, ctx, err, failures,
          throttled, gone, wire>>

Endings == {"complete", "errorEvent", "429", "502", "504"}

(***************************************************************************)
(* The helpers of combo.go.                                                *)
(***************************************************************************)
IsDrained(t) == now < drains[t]

Tracks(c) == Strategy[c] \in {"fill-first", "reliable", "round-robin"}
DrainableIfAnswered(e) == e # "busy"  \* mutant: client errors drain too
Drainable(e) == e \notin {"client", "busy"}
Throttle(e) == e \in {"busy", "rate", "retryAfter"}
TransientGateway(e) == e = "gateway"
ServerErrorUnstruck(e) == e = "server"  \* mutant: a 502 drains at once
ServerError(e) == e \in {"gateway", "server"}

BudgetSpent(r) ==
    /\ Timeout[ComboOf[r]] > 0
    /\ now - started[r] >= Timeout[ComboOf[r]]

Rotate(s, n) == [i \in 1..Len(s) |-> s[((n + i - 1) % Len(s)) + 1]]

\* orderedTargets, from the healthy and the drained targets it met.
Arranged(c, healthy, drained) ==
    CASE Strategy[c] = "fill-first" -> healthy \o drained
      [] Strategy[c] = "round-robin" /\ Len(healthy) >= 2 ->
             Rotate(healthy, rrCounter[c] % Len(healthy))
      [] OTHER -> healthy

UncappedCooldown(n) == RateLimitBase * 2 ^ n  \* mutant: no cap

\* The cooldown of the 429 that follows n others: doubled once for each of them,
\* unless it has reached half the cap.
RateLimitCooldown(n) ==
    LET cooldown[k \in 0..n] ==
          IF k = 0 THEN RateLimitBase
          ELSE IF cooldown[k - 1] >= RateLimitCap \div 2 THEN RateLimitCap
          ELSE 2 * cooldown[k - 1]
    IN  IF cooldown[n] > RateLimitCap THEN RateLimitCap ELSE cooldown[n]

CooldownFor(c, t, e) ==
    CASE e = "rate" -> RateLimitCooldown(rateHits[c][t])
      [] e \in {"retryAfter", "quota"} -> UpstreamCooldown
      [] OTHER -> DrainTTL

\* recordTransient: the strikes still inside the window, and this one.  They
\* are in the order of their times, so the old ones come first.
Struck(c, t) ==
    LET s == strikes[c][t]
        old == {i \in 1..Len(s) : s[i] <= now - TransientWindow}
    IN  Append(SubSeq(s, Cardinality(old) + 1, Len(s)), now)

-----------------------------------------------------------------------------
Init ==
    /\ now = 0
    /\ drains = [t \in Targets |-> 0]
    /\ strikes = [c \in Combos |-> [t \in Targets |-> <<>>]]
    /\ rateHits = [c \in Combos |-> [t \in Targets |-> 0]]
    /\ rrCounter = [c \in Combos |-> 0]
    /\ pc = [r \in Requests |-> "new"]
    /\ order = [r \in Requests |-> <<>>]
    /\ parked = [r \in Requests |-> <<>>]
    /\ idx = [r \in Requests |-> 1]
    /\ retried = [r \in Requests |-> FALSE]
    /\ started = [r \in Requests |-> 0]
    /\ ctx = [r \in Requests |-> "none"]
    /\ err = [r \in Requests |-> "nil"]
    /\ failures = [r \in Requests |-> <<>>]
    /\ throttled = [r \in Requests |-> 0]
    /\ gone = [r \in Requests |-> FALSE]
    /\ committed = [r \in Requests |-> FALSE]
    /\ reply = [r \in Requests |-> NoTarget]
    /\ ending = [r \in Requests |-> {}]

Goto(r, from, to) == pc[r] = from /\ pc' = [pc EXCEPT ![r] = to]
Current(r) == order[r][idx[r]]

\* mutant: the TTL is taken from the clock
MarkDrainedBackwards(t, ttl) == drains' = [drains EXCEPT ![t] = now - ttl]

\* MarkDrained overwrites whatever drain the target had.
MarkDrained(t, ttl) == drains' = [drains EXCEPT ![t] = now + ttl]

Write(r, e) ==
    ending' = IF gone[r] THEN ending ELSE [ending EXCEPT ![r] = @ \cup {e}]

\* runCombo calls Run, which orders the targets first.
Start(r) ==
    /\ Cardinality({q \in Requests : pc[q] \notin {"new", "done"}}) < MaxInFlight
    /\ Goto(r, "new", "order")
    /\ UNCHANGED <<now, shared, chainVars, idx, retried, ctx, err, failures,
                   throttled, gone, wire>>

\* orderedTargets: each IsDrained locks the tracker for itself.
Classify(r) ==
    LET t == Chain[ComboOf[r]][idx[r]] IN
    /\ Goto(r, "order", "order")
    /\ Tracks(ComboOf[r])
    /\ idx[r] <= Len(Chain[ComboOf[r]])
    /\ idx' = [idx EXCEPT ![r] = @ + 1]
    /\ IF IsDrained(t)
       THEN parked' = [parked EXCEPT ![r] = Append(@, t)] /\ UNCHANGED order
       ELSE order' = [order EXCEPT ![r] = Append(@, t)] /\ UNCHANGED parked
    /\ UNCHANGED <<now, shared, started, retried, ctx, err, failures,
                   throttled, gone, wire>>

\* The order is settled and the budget of the chain starts to run.
Arrange(r) ==
    LET c == ComboOf[r] IN
    /\ Goto(r, "order", "top")
    /\ \/ ~Tracks(c) /\ order' = [order EXCEPT ![r] = Chain[c]]
       \/ /\ Tracks(c) /\ idx[r] > Len(Chain[c])
          /\ order' = [order EXCEPT ![r] = Arranged(c, order[r], parked[r])]
    /\ rrCounter' = IF Strategy[c] = "round-robin" /\ Len(order[r]) >= 2
                    THEN [rrCounter EXCEPT ![c] = @ + 1] ELSE rrCounter
    /\ idx' = [idx EXCEPT ![r] = 1]
    /\ parked' = [parked EXCEPT ![r] = <<>>]
    /\ started' = [started EXCEPT ![r] = now]
    /\ UNCHANGED <<now, drains, strikes, rateHits, retried, ctx, err,
                   failures, throttled, gone, wire>>

\* The top of the loop: the budget is checked before a target is attempted.
BeginAttempt(r) ==
    /\ Goto(r, "top", "attempt")
    /\ idx[r] <= Len(order[r])
    /\ ~BudgetSpent(r)
    /\ retried' = [retried EXCEPT ![r] = FALSE]
    /\ UNCHANGED <<now, shared, chainVars, idx, ctx, err, failures, throttled,
                   gone, wire>>

StopOnBudget(r) ==
    /\ Goto(r, "top", "done")
    /\ idx[r] <= Len(order[r])
    /\ BudgetSpent(r)
    /\ Write(r, "504")
    /\ UNCHANGED <<now, shared, chainVars, idx, retried, ctx, err, failures,
                   throttled, gone, committed, reply>>

\* attemptContext, and the call of dispatch.  The clock has moved since the
\* budget was checked: with nothing left the context is born cancelled, which
\* is not a DeadlineExceeded.
Dispatch(r) ==
    /\ Goto(r, "attempt", "inflight")
    /\ ctx' = [ctx EXCEPT ![r] = IF BudgetSpent(r) THEN "cancelled" ELSE "live"]
    /\ UNCHANGED <<now, shared, chainVars, idx, retried, err, failures,
                   throttled, gone, wire>>
-----------------------------------------------------------------------------
\* The timer of context.WithTimeout; the dispatch in flight may not notice.
DeadlineFires(r) ==
    /\ pc[r] \in {"inflight", "streaming", "returned"}
    /\ ctx[r] = "live" /\ ~gone[r]
    /\ BudgetSpent(r)
    /\ ctx' = [ctx EXCEPT ![r] = "expired"]
    /\ UNCHANGED <<now, shared, pc, chainVars, idx, retried, err, failures,
                   throttled, gone, wire>>

\* The client goes away, which cancels the request context.
ClientAbort(r) ==
    /\ pc[r] \notin {"new", "done"} /\ ~gone[r]
    /\ gone' = [gone EXCEPT ![r] = TRUE]
    /\ UNCHANGED <<now, shared, pc, chainVars, idx, retried, ctx, err,
                   failures, throttled, wire>>

CtxDone(r) == ctx[r] # "live" \/ gone[r]

\* A first content frame is flushed: the attempt writer commits the response.
CommitStream(r) ==
    /\ r \in Streams /\ ctx[r] # "cancelled"
    /\ Goto(r, "inflight", "streaming")
    /\ reply' = [reply EXCEPT ![r] = Current(r)]
    /\ UNCHANGED <<now, shared, chainVars, idx, retried, ctx, err, failures,
                   throttled, gone, committed, ending>>

\* finish(nil): the whole reply is on the wire and dispatch returns nil.
DispatchOK(r) ==
    /\ \/ Goto(r, "streaming", "returned")
       \/ Goto(r, "inflight", "returned") /\ ctx[r] # "cancelled"
    /\ reply' = [reply EXCEPT ![r] = Current(r)]
    /\ Write(r, "complete")
    /\ err' = [err EXCEPT ![r] = "nil"]
    /\ UNCHANGED <<now, shared, chainVars, idx, retried, ctx, failures,
                   throttled, gone, committed>>

\* dispatch fails before any byte reached the client.  Once its context is
\* done it may also fail because of that; one born cancelled always does.
DispatchFail(r) ==
    /\ Goto(r, "inflight", "returned")
    /\ \E e \in Faults \cup {"canceled"} :
          /\ e = "canceled" => CtxDone(r)
          /\ ctx[r] = "cancelled" => e = "canceled"
          /\ err' = [err EXCEPT ![r] = e]
    /\ UNCHANGED <<now, shared, chainVars, idx, retried, ctx, failures,
                   throttled, gone, wire>>

\* A committed stream fails: the callback drains the target itself, unless the
\* client or the budget ended it, tells the client, and returns nil.
StreamFail(r) ==
    /\ Goto(r, "streaming", "returned")
    /\ IF Strategy[ComboOf[r]] # "priority" /\ ~CtxDone(r)
       THEN MarkDrained(Current(r), DrainTTL) ELSE UNCHANGED drains
    /\ committed' = [committed EXCEPT ![r] = TRUE]
    /\ Write(r, "errorEvent")
    /\ err' = [err EXCEPT ![r] = "nil"]
    /\ UNCHANGED <<now, strikes, rateHits, rrCounter, chainVars, idx, retried,
                   ctx, failures, throttled, gone, reply>>

-----------------------------------------------------------------------------
\* dispatchOnce joins the error of its context to the error of the dispatch:
\* a dispatch that succeeded fails if its context is done by now.
\* mutant: the callback returns the error of a committed stream
SucceededUncommitted(r) == err[r] = "nil" /\ ~CtxDone(r) /\ ~committed[r]

Succeeded(r) == err[r] = "nil" /\ ~CtxDone(r)

UpstreamDeadline(r) == err[r] = "deadline"  \* mutant: only the upstream's own
DeadlineExceeded(r) == ctx[r] = "expired" \/ err[r] = "deadline"

\* mutant: the retry is not counted
MayRetryForever(r) ==
    TransientGateway(err[r]) /\ ~DeadlineExceeded(r) /\ ~gone[r] /\ ~BudgetSpent(r)

\* attempt: a 502, 503 or 504 is tried once more on the same target.
MayRetry(r) ==
    /\ TransientGateway(err[r]) /\ ~retried[r]
    /\ ~DeadlineExceeded(r) /\ ~gone[r] /\ ~BudgetSpent(r)

Return(r) ==
    /\ Goto(r, "returned", "done")
    /\ Succeeded(r)
    /\ ctx' = [ctx EXCEPT ![r] = "none"]
    /\ UNCHANGED <<now, shared, chainVars, idx, retried, err, failures,
                   throttled, gone, wire>>

RetryTarget(r) ==
    /\ Goto(r, "returned", "attempt")
    /\ MayRetry(r)
    /\ retried' = [retried EXCEPT ![r] = TRUE]
    /\ ctx' = [ctx EXCEPT ![r] = "none"]
    /\ UNCHANGED <<now, shared, chainVars, idx, err, failures, throttled, gone,
                   wire>>

\* The request context is done: Run returns its error, to nobody.
StopOnAbort(r) ==
    /\ Goto(r, "returned", "done")
    /\ gone[r]
    /\ ctx' = [ctx EXCEPT ![r] = "none"]
    /\ UNCHANGED <<now, shared, chainVars, idx, retried, err, failures,
                   throttled, gone, wire>>

\* The deadline of the attempt expired: the chain stops and nothing is drained.
StopOnDeadline(r) ==
    /\ Goto(r, "returned", "done")
    /\ ~Succeeded(r) /\ ~MayRetry(r) /\ ~gone[r]
    /\ DeadlineExceeded(r) /\ BudgetSpent(r)
    /\ IF committed[r] THEN UNCHANGED ending ELSE Write(r, "504")
    /\ ctx' = [ctx EXCEPT ![r] = "none"]
    /\ UNCHANGED <<now, shared, chainVars, idx, retried, err, failures,
                   throttled, gone, committed, reply>>

\* healthySiblings: the targets after this one that the chain can still try.
HealthySiblings(r) == Len(order[r]) - idx[r]

\* The drain decision of shouldDrain for the target of request r.
DrainAfterFailure(r) ==
    LET c == ComboOf[r]
        t == Current(r)
        e == err[r]
        asks == Tracks(c) /\ Drainable(e) /\ HealthySiblings(r) > 0
        drain == asks /\ (ServerError(e) => Len(Struck(c, t)) >= TransientStrikes)
    IN  /\ strikes' = IF asks /\ ServerError(e)
                      THEN [strikes EXCEPT ![c][t] = Struck(c, t)] ELSE strikes
        /\ rateHits' = IF drain /\ e = "rate"
                       THEN [rateHits EXCEPT ![c][t] = @ + 1] ELSE rateHits
        /\ IF drain THEN MarkDrained(t, CooldownFor(c, t, e)) ELSE UNCHANGED drains

\* Any other failure: count it, maybe drain the target, try the next one.
FailOver(r) ==
    /\ Goto(r, "returned", "top")
    /\ ~Succeeded(r) /\ ~MayRetry(r) /\ ~gone[r]
    /\ ~(DeadlineExceeded(r) /\ BudgetSpent(r))
    /\ failures' = [failures EXCEPT ![r] = Append(@, err[r])]
    /\ throttled' = [throttled EXCEPT ![r] = IF Throttle(err[r]) THEN @ + 1 ELSE @]
    /\ DrainAfterFailure(r)
    /\ idx' = [idx EXCEPT ![r] = @ + 1]
    /\ ctx' = [ctx EXCEPT ![r] = "none"]
    /\ UNCHANGED <<now, rrCounter, chainVars, retried, err, gone, wire>>

\* mutant: the last error is always returned typed
LoopAnswerTyped(r) ==
    IF failures[r] = <<>> THEN "502"
    ELSE IF BudgetSpent(r) \/ err[r] = "deadline" THEN "504"
    ELSE IF err[r] \in {"busy", "retryAfter"} THEN "429" ELSE "502"

\* What writeProviderError sends for the error Run returns after the loop.
\* Only an error that has RetryAfter() is answered 429.
LoopAnswer(r) ==
    LET last == err[r]
        typed == \/ throttled[r] = Len(failures[r])
                 \/ Strategy[ComboOf[r]] \notin {"reliable", "round-robin"}
    IN  IF failures[r] = <<>> THEN "502"
        ELSE IF BudgetSpent(r) \/ (typed /\ last = "deadline") THEN "504"
        ELSE IF typed /\ last \in {"busy", "retryAfter"} THEN "429"
        ELSE "502"

Exhaust(r) ==
    /\ Goto(r, "top", "done")
    /\ idx[r] > Len(order[r])
    /\ Write(r, LoopAnswer(r))
    /\ UNCHANGED <<now, shared, chainVars, idx, retried, ctx, err, failures,
                   throttled, gone, committed, reply>>

Tick ==
    /\ now < MaxTime
    /\ now' = now + 1
    /\ UNCHANGED <<shared, pc, chainVars, idx, retried, ctx, err, failures,
                   throttled, gone, wire>>

\* The steps of the goroutine that serves r, once r has arrived.
Serve(r) ==
    \/ Classify(r) \/ Arrange(r) \/ BeginAttempt(r) \/ StopOnBudget(r)
    \/ Dispatch(r) \/ DispatchOK(r) \/ DispatchFail(r) \/ StreamFail(r)
    \/ Return(r) \/ RetryTarget(r) \/ StopOnAbort(r) \/ StopOnDeadline(r)
    \/ FailOver(r) \/ Exhaust(r)

Next ==
    \/ \E r \in Requests :
          \/ Start(r) \/ Serve(r) \/ CommitStream(r)
          \/ DeadlineFires(r) \/ ClientAbort(r)
    \/ Tick

Spec == Init /\ [][Next]_vars

\* Every provider call returns: it carries a timeout of its own and watches
\* its context.  The goroutine that called it then runs on.
FairSpec == Spec /\ \A r \in Requests : WF_vars(Serve(r))
-----------------------------------------------------------------------------
(***************************************************************************)
(* Properties.                                                             *)
(***************************************************************************)
PCs == {"new", "order", "top", "attempt", "inflight", "streaming", "returned",
        "done"}

\* Every variable keeps to its type: the bookkeeping of Run, of runCombo and of
\* the tracker never leaves the values the code can hold.
TypeOK ==
    /\ now \in Nat
    /\ drains \in [Targets -> Nat]
    /\ strikes \in [Combos -> [Targets -> Seq(Nat)]]
    /\ rateHits \in [Combos -> [Targets -> Nat]]
    /\ rrCounter \in [Combos -> Nat]
    /\ pc \in [Requests -> PCs]
    /\ order \in [Requests -> Seq(Targets)]
    /\ parked \in [Requests -> Seq(Targets)]
    /\ idx \in [Requests -> Nat \ {0}]
    /\ retried \in [Requests -> BOOLEAN]
    /\ started \in [Requests -> Nat]
    /\ ctx \in [Requests -> {"none", "live", "expired", "cancelled"}]
    /\ err \in [Requests -> AllFaults \cup {"nil", "canceled"}]
    /\ failures \in [Requests -> Seq(AllFaults \cup {"canceled"})]
    /\ throttled \in [Requests -> Nat]
    /\ gone \in [Requests -> BOOLEAN]
    /\ committed \in [Requests -> BOOLEAN]
    /\ reply \in [Requests -> Targets \cup {NoTarget}]
    /\ ending \in [Requests -> SUBSET Endings]

\* Once bytes of a target's reply are on the wire, no target is dispatched
\* again: neither the retry of attempt nor the failover of Run may mix the
\* answers of two targets.
NoDispatchAfterReply ==
    \A r \in Requests :
        pc[r] \in {"top", "attempt", "inflight"} => reply[r] = NoTarget

\* A client sees one ending: no error envelope follows a reply that was
\* delivered, and no second answer follows an error.
OneEnding == \A r \in Requests : Cardinality(ending[r]) <= 1

Blames(r, t, E) ==
    {i \in 1..Len(failures[r]) : order[r][i] = t /\ failures[r][i] \in E}

\* What a target can be drained for: a request saw it fail with a fault of its
\* own, a stream of it broke under a client that was still there, or requests of
\* a combo saw it fail with 5xx transientStrikes times.
HasEvidence(t) ==
    \/ \E r \in Requests :
          Blames(r, t, AllFaults \ {"client", "busy", "gateway", "server"}) # {}
    \/ \E r \in Requests : reply[r] = t /\ "errorEvent" \in ending[r]
    \/ \E c \in Combos :
          Cardinality(UNION {{r} \X Blames(r, t, {"gateway", "server"}) :
                               r \in {q \in Requests : ComboOf[q] = c}})
            >= TransientStrikes

\* A target that is drained has earned it.  Client errors, local saturation,
\* aborts and deadlines of the gateway never park a target.
DrainHasEvidence == \A t \in Targets : drains[t] > 0 => HasEvidence(t)

\* With budgets there is one exception to DrainHasEvidence and no other: the
\* budget was spent before the attempt of the target began, so its context was
\* born cancelled.
DrainHasReason ==
    \A t \in Targets : drains[t] > 0 =>
        HasEvidence(t) \/ \E r \in Requests : BudgetSpent(r) /\ Blames(r, t, {"canceled"}) # {}

\* A combo that skips its drained targets always has one it can still try, so
\* the error of the upstream is never hidden behind "no healthy targets".
LastHealthyNeverDrained ==
    \A c \in Combos : Strategy[c] \in {"reliable", "round-robin"} =>
        \E i \in 1..Len(Chain[c]) : ~IsDrained(Chain[c][i])

\* The error status says what happened.  429: every attempt was throttled, or
\* the combo keeps the last error and that one was.  504: the budget is spent
\* or the last error was a deadline.  502: every target of the order was tried.
HonestAnswer ==
    \A r \in Requests :
        LET n == Len(failures[r]) IN
        /\ "429" \in ending[r] =>
              /\ n > 0 /\ Throttle(failures[r][n])
              /\ Strategy[ComboOf[r]] \in {"reliable", "round-robin"} =>
                    \A i \in 1..n : Throttle(failures[r][i])
        /\ "504" \in ending[r] => BudgetSpent(r) \/ (n > 0 /\ failures[r][n] = "deadline")
        /\ "502" \in ending[r] => n = Len(order[r])

\* The next cooldowns of every counter are the base doubled for each 429 before,
\* up to the cap, although the loop of rateLimitCooldown stops at half of it.
BackoffDoubles ==
    \A c \in Combos, t \in Targets : \A n \in rateHits[c][t]..(rateHits[c][t] + 6) :
        LET doubled[k \in 0..n] == IF k = 0 THEN RateLimitBase ELSE 2 * doubled[k - 1]
        IN  RateLimitCooldown(n) =
              IF doubled[n] <= RateLimitCap THEN doubled[n] ELSE RateLimitCap

\* What a client sees of ComboChain is an answer as ClientAnswer promises it.
Client == INSTANCE ClientAnswer WITH
    Clients <- Requests, Sources <- Targets, NoSource <- NoTarget,
    Statuses <- {"429", "502", "504"},
    from <- reply, end <- ending, left <- gone

OneAnswer == Client!Spec

\* A request that was taken up ends, however its targets fail.
EveryRequestEnds ==
    \A r \in Requests : pc[r] = "order" ~> pc[r] = "done"
=============================================================================
