# Formal model of omnigo

omnigo is a gateway in Go between clients that speak the OpenAI or Anthropic
wire formats and a set of LLM providers. This directory holds TLA+ modules
translated from its source, TLC configurations that check them on small
instances, and TLAPS proofs of the results that hold for every instance. Paths
are relative to the repository.

## Inventory

| Part | State | Operations | Hard behaviour | Correct means |
|---|---|---|---|---|
| Combo failover (`internal/combo/combo.go`, `runCombo` of `internal/api/chat.go`) | per request: order, index, attempt context, failures; shared per combo: strikes, 429 counts, round-robin counter | `Run`, `attempt`, `dispatchOnce`, `shouldDrain`, the dispatch callback | several requests share the books; a budget timer, the client and the dispatch race; a reply may be on the wire already | one reply and one ending per client; the status is true; a target is drained for its own faults only and never as the last one |
| Drain tracker (`internal/combo/tracker.go`) | `drains`, the save and flush channels, the file | `IsDrained`, `MarkDrained`, `Clear`, `ClearAll`, `persistLoop`, `load` | coalesced saves, mutations while the file is written, crashes | the file follows the memory; nothing is invented by a restart |
| Response writers (`internal/api/response.go`, `AttemptWriter` of `internal/provider/accounts.go`) | buffer, pending bytes, header, committed | `Write`, `Flush`, `finish`, `commitTo` | nested writers, each with its own idea of committed | nothing of a failed attempt leaks, headers precede the body |
| Account pool (`internal/provider/accounts.go`) and the account loops of `codex` and `antigravity` | drains per account and per model | `AvailableForModel`, `MarkFailed`, `MarkQuotaDrained` | lazily deleted drains, two key spaces, concurrent failures | one model's 429 does not hide an account from the others |
| Token managers (`codex/refresh.go`, `antigravity/refresh.go`) | credentials in the vault, the dead pair | `EnsureFreshToken`, `ForceRefreshToken` | refresh tokens rotate; readers outside the lock; two instances after a reload; a failed save | a token is spent once; a dead pair is not posted again |
| Stream guard (`internal/provider/stream.go`) | last byte, two timers, the stall | `touch`, `onIdle`, `onBudget`, `Err`, `Stop` | timers race data and each other | a stall is reported after the silence that was configured, with its own cause |
| Provider registry (`internal/api/registry.go`, `providers.go`) | snapshot, instances | `Get`, `ensure` | requests of two snapshots at once; instances that outlive a reload | one instance per provider and snapshot |
| Concurrency limiter (`internal/provider/limiter.go`) | a semaphore | `Acquire`, release | the bound is per instance | every slot comes back |
| Smart combos (`internal/api/smart*.go`, `internal/systemone`) | none across requests | `decide`, `resolve`, `runSmartCombo` | fallbacks of fallbacks | the chain that runs is the destination's |
| Quota syncer (`internal/quota`, `internal/api/quota.go`) | snapshots, failure counts | `PollOnce`, `Put`, `drain` | polls race live observations and drains | an unknown quota never drains |
| Vault (`internal/vault`), key index (`internal/auth`) | an immutable snapshot, the file | `Get`, `Update`, `Reload`, `lookup` | readers hold old snapshots; a save may fail | an update is in memory only if it is on disk |
| Configuration (`internal/config`) | `config.yaml`, the loaded snapshot | `Mutate`, reload, `PruneComboTargets` | two edits at once, a reload that fails half-way | no edit is lost |
| Answer cache (`internal/cache`) | `items`, `order` | `Get`, `Set`, `Delete` | two structures for one set; expiry and eviction | both agree, the capacity holds |
| Wire translation (`internal/provider/messages.go`, `responses.go`, the `translate.go` of each provider, `internal/api/messages.go`, `responses.go`) | the translator and the transaction of one reply | one operator per turn, tool and event | four upstream formats into three client formats, each with its own idea of a complete reply | what arrives is what was said, by whom, in which order, with its end |
| Dashboard and OAuth flows (`internal/dashboard`) | pending logins | forms over `Mutate` and `Update` | a login comes back after the account was changed | a connected account stays |
| Observability, model catalogs, quota readers | | I/O | | not modelled: see the end |

A request passes the key check of `auth`, is parsed by one of the handlers of
`internal/api`, and is either dispatched to one provider, or handed to
`runCombo`, or first to a smart combo that picks the chain. Providers come from
the registry, may be wrapped in the limiter, and use the account pool and the
token managers. The drain tracker, the strike and 429 books, the pools, the
vault and the registry are shared by all requests; the quota syncer and the
dashboard are further clients of them.

## Modules

| Modules | Model | Run | Proofs |
|---|---|---|---|
| `ComboChain`, `ClientAnswer` | the failover of concurrent requests, and what it promises a client | `combo_faults`, `combo_budget`, `combo_late_reply`, `combo_last_healthy` | `ComboProofs` |
| `TrackerStore` | the drain file | `tracker_run` | `TrackerProofs` |
| `IdleGuard` | silence and budget of a stream | `guard_stream` | `GuardProofs` |
| `TokenRefresh` | one credential, many requests | `token_run` | `TokenProofs` |
| `AccountPool` | registry, limiter, account pool, attempt writer and quota syncer, composed | `pool_run` | `PoolProofs` |
| `UpstreamFeeds`, `ReplyWires`, `ReplyStream` | the reply: upstream events, client formats, and a chain of attempts over both | `stream_run` | `StreamInvariants`, `StreamProofs` |
| `ClientTurns`, `UpstreamTurns`, `RequestTurns` | the request: client formats, upstream formats, and a conversation through both | `turns_run` | |
| `GatewayConfig`, `Routing`, `ConfigFile` | the configuration: values and edits, where a name leads, and the file with its writers and readers | `config_run` | `ConfigProofs` |
| `VaultData`, `AccountVault` | the vault: values and edits, and the store with its writers and readers | `vault_run` | `VaultProofs` |

The modules named `MC...` give the constants their values. Ten runs must pass.
The two others check what a comment of the code states and the code does not do;
TLC finds a counterexample for each.

## ComboChain: the failover of concurrent requests

`ComboChain.tla` has one process per request. `pc` walks through the code:

| `pc` | Place |
|---|---|
| `new`, `order` | `runCombo` calls `Run`; `orderedTargets` asks the tracker for one target after the other (`Classify`), each under a lock of its own, then arranges the order and starts the budget (`Arrange`) |
| `top` | the loop head: out of targets (`Exhaust`), out of budget (`StopOnBudget`) or one more target (`BeginAttempt`) |
| `attempt` | between that check and `attemptContext` (`Dispatch`); the clock may move here |
| `inflight`, `streaming` | inside the dispatch callback, before and after the first bytes reached the client |
| `returned` | `dispatchOnce` looks at its context, `attempt` may retry (`RetryTarget`), `Run` decides (`Return`, `StopOnAbort`, `StopOnDeadline`, `FailOver`) |
| `done` | the handler returned |

`DeadlineFires` is the timer of `context.WithTimeout` and `ClientAbort` the end
of the request context. Both are separate actions, because they interleave with
everything: the timer can fire after a reply is delivered and before
`dispatchOnce` asks, which is a finding below. The attempt context is a state
machine (`ctx`): `live`, `expired` (a `DeadlineExceeded`) or `cancelled`, the
context that is born cancelled when nothing is left of the budget.

What a provider returns is a member of `Faults`; the classes are those that the
error predicates of `combo.go` tell apart (the list is beside `AllFaults`).
What the client sees is `reply` (whose bytes it received), `ending` (every way
its answer ended) and `gone`. Drains, strikes, 429 counters and the round-robin
counter are shared. Texts, metrics and logs are left out.

`ClientAnswer.tla` is the abstract specification: a client receives at most one
target's reply and exactly one ending. `OneAnswer` says ComboChain implements
it under the refinement mapping `from <- reply`, `end <- ending`,
`left <- gone`.

### Runs

`MCComboChain.tla` names the values of the constants; each `.cfg` is one run.

| Run | Instance | Shows |
|---|---|---|
| `combo_faults` | two concurrent `reliable` requests over two targets, one streaming, five kinds of failure, no budget | one answer per client (`OneAnswer`, a refinement), true statuses (`HonestAnswer`), drains only with evidence (`DrainHasEvidence`), the 429 cooldown is the base doubled for each 429 before it, up to the cap (`BackoffDoubles`) |
| `combo_budget` | `fill-first`, one request in flight, a budget of one tick, two ticks of time | with timers, retries and aborts racing: no second target answers (`NoDispatchAfterReply`), no target is drained without a reason (`DrainHasReason`), every request ends (`EveryRequestEnds`) |
| `combo_late_reply` | a reply and a budget | expected violation of `OneEnding` (`response.go:290`): the budget timer fires between `finish(nil)` and `ctx.Err()`, the success becomes `ErrComboTimeout`, and a 504 envelope follows the reply |
| `combo_last_healthy` | two overlapping requests | expected violation of `LastHealthyNeverDrained` (`combo.go:280`): each sees a sibling that the other is draining |

### Bounds

Two requests are enough for every race over the shared books: each interaction
is between one request that changes a drain, a strike or a counter and one that
read it earlier. Two targets give a chain a first and a last one. `TransientStrikes` is 2 instead
of 5, which one request alone reaches by its retry only if the count is wrong.
Ticks stand for the windows of the code, of which only the order matters:
before or after a deadline, inside or outside a window. `MaxTime` bounds the
clock, `MaxInFlight` how many requests overlap; both are guards of `Tick` and
`Start`. `CHECK_DEADLOCK FALSE`: when every request is done nothing is left to
do.

### Fairness

`FairSpec` is weak fairness of the steps of the goroutine that serves a request
(`Serve(r)`). It rests on the providers returning: each call has a client
timeout or a stream guard and watches its context. Nothing is assumed of
arrivals, timers, commits, clients and the clock.

### Proofs

`ComboProofs.tla` proves for every set of requests, combos, targets, strategies,
chains, budgets, faults and cooldowns (`ComboAssumption` only asks for their
types):

* `TypeCorrect`: `Spec => []TypeOK`.
* `NoMixedReplies`: `Spec => []NoDispatchAfterReply`.
* `AnswersOnce`: if no combo has a budget, `Spec => OneAnswer`.

`NoDispatchAfterReply` is not inductive: that a dispatch which failed after a
commit is never followed by another one depends on the error being swallowed
(`err = "nil"`), on the context not being done, and on why it can be done.
`IInv` adds, per request, that a context exists exactly while a dispatch does
(`DispatchInv`), that it is expired or cancelled only once the budget is spent
(`ContextInv`), and what the client has seen in each phase (`WireInv`). A
streaming dispatch whose client left ends in `StopOnAbort` and one whose timer
fired in `StopOnDeadline`, never in `FailOver`; `FailedNotNil` is that argument.
`Frame` and `OthersUnchanged` reduce a step of one request to that request, and
`ReqStep` has one step per action. `AnswersOnce` then needs no more invariant:
`StopOnDeadline`, the step that writes the second ending, is impossible without
a budget (`NeverSpent`), and each other step that a client sees is a step of
`ClientAnswer`. With a budget the refinement is false, as `combo_late_reply`
shows.

Four more theorems are about why a request ended, why a target was drained and
for how long:

* `StatusesAreHonest`: `Spec => []HonestAnswer`.
* `DrainsHaveReasons`: `Spec => []DrainHasReason`.
* `DrainsAreEarned`: if no combo has a budget, `Spec => []DrainHasEvidence`.
* `CooldownsDouble`: if the cap is even, `Spec => []BackoffDoubles`.

`HonestAnswer` speaks of all targets of a chain, so the invariant follows the
walk: the log of failures is as long as the part of the order that was tried,
each entry belongs to its target, and what `Run` keeps as the last error is the
class of the last entry (`WalkInv`). The evidence of a drain lies in the
histories of all requests: a log only grows and its order is settled before its
first entry, so what earned a drain stays on record (`Earned`), and a combo
keeps no more strikes for a target than its requests met failures of that target
(`Counted`, a statement about cardinalities). `DrainHasReason`
is `DrainHasEvidence` with one exception, the target drained for an attempt that
was born cancelled (see "Known disagreements"); without budgets there is no such
attempt, and the exception goes.

`rateLimitCooldown` doubles in a loop and compares with half the cap before it
does; `CooldownsDouble` needs the cap to be even, which the 60 seconds of the
code are (for an odd cap the rounded half would cut the last doubling short).
Loop and specification are recursive functions; `Least` and `Iterated` show by a
least counterexample that such functions exist, `LoopDoubles` that the two agree.

`EveryRequestEnds` is liveness and stays with TLC.

## TrackerStore: the drain file

`TrackerStore` is `combo/tracker.go` seen from its file. `drains` is the map,
`save` the channel that holds one token, `loop` the place of `persistLoop`,
`snap` the copy it writes, `file` the content of the drain file and `flush` the
`Flush` calls that wait for an answer. A mutation (`MarkDrained`, `Clear`,
`ClearAll`) is two steps, because the code releases the lock before it calls
`schedulePersist`: `Mutate`, then `SchedulePersist`. A save is three: the copy
under the read lock (`Snapshot`), the truncation of the file (`Truncate`) and its
content (`Write`); `WriteFails` is an error of chmod or of the write, which
`persist` drops. `Crash` ends the process between any two steps; it stands for a
kill and for the orderly end of `main`, which does not flush either. `Restart`
is `NewTracker` with `load`: a file that was cut short has no entries, entries
that are over are left out. The reason of a drain is not modelled.

Two variables are history: `touched[f]`, the targets changed since `Flush` `f`
was called, and `failed`, whether the last save failed. No action reads them.

The run `tracker_run` has two callers, two drains, one goroutine that flushes, a
disk that may fail, crashes and restarts. It shows that no save is lost in the
coalescing (`QuietMeansSaved`), that a process which dies in a quiet moment comes
back with its drains (`RestartKeepsDrains`), that a `Flush` that returns has
saved what it was asked for (`FlushSaves`), and that each drain reaches the
file unless it is changed, over, a save fails or the process dies
(`DrainReachesDisk`).

Bounds: two callers are enough for a mutation to fall between any two steps of
another one; the loop is one goroutine in the code; two targets tell a save of
one from a save of all; `MaxTime = 1` with a TTL of 1 lets a drain of the first
tick end while one of the second lasts, and a TTL of 0 meets the early return.

Fairness: weak for the loop and for a caller on its way to `schedulePersist`:
the runtime schedules both. Strong for `TakeSave` and `TakeFlush`: a `select`
with several ready cases picks one at random, so a case that is ready again and
again is taken. There is none for mutations, crashes, restarts and the clock.

`TrackerProofs` proves, for all callers, flushers, targets, TTLs and times, the
three safety properties. `QuietMeansSaved` is not inductive: one has to know
where the difference between memory and file is owed. `SyncInv` says it: as long
as no mutation is on its way and no token is pending, then either the loop is
about to copy, or the copy agrees with the memory and is about to be written, or
the file agrees already (or the last save failed). `FlushInv` adds
that a flush which the loop has taken has its drains in the memory, in the copy or in the
file, at the step of the loop that matters. Agreement is up to entries
that are over, so the lemmas `LiveLater` and `LiveTwice` say that the clock only
takes entries out. `DrainReachesDisk` is model-checked only.

## IdleGuard: silence and budget of a stream

`IdleGuard` is `provider/stream.go` 98-232 with the goroutine that uses it. The
guard: `left` and `rest` are what is left of its two timers, `age` is
`time.Since(g.last)`, `calls` and `budgetCall` the callbacks that were started
and wait for `g.mu`, `stallErr` and `cause` what it recorded and the first cause
of the cancelled context. The reader walks `pc`: `send` (the exchange of the
headers), `refresh` (the answer of codex and antigravity to a 401), `body`
(blocked in Read), `touch`, `write` (to the client), `check` (the end of
`idleReader.Read`), `stop`. Bytes of the upstream wait in `ready`. A timer that
fires and the callback that takes the lock are two steps, and so are a Read that
returns bytes and its `touch`, as in the code. `Kind` says what a provider
guards: `openai`, `oauth` (codex and antigravity: a refresh between two
exchanges), `codebuddy` (reads the body before it wraps it), `opencode` (makes
no guard). Times are kept relative and capped at the window, so that no run
needs a last tick. History: `quiet`, `silent`, and `late`, which is set when time
passes while something is due.

The run `guard_stream` has `oauth`, a window of 4, and no budget or one of 6. A
stall takes at least half a window without bytes (`GuardIsPatient`), and while
nothing is late no silence outlasts the window (`NoStallIsMissed`); the bound
that is named is the first (`OneCause`); an answer that keeps coming and being
read lives (`NotKilledMidFlight`); a generation with a budget ends
(`EveryGenerationEnds`).

With `Kind = "codebuddy"` `NotKilledMidFlight` is false, because `io.ReadAll` on
the bare body never touches the guard, and with `"opencode"`
`EveryGenerationEnds` is, because the provider stores both bounds and uses
neither for a stream. Both instances can be had by changing `Kind` in
`GuardStream.cfg`; the properties are stated for the providers that wrap.

The half in `GuardIsPatient` is what `touch` leaves: bytes in the first half of
the window move nothing, so a stall can come after little more than half a
window of silence, where the comment of `touch` promises a full one. The test of
this behaviour accepts a quarter. Three more things the model has and no
property asks for: a refresh after a 401 spends the window, a slow client is
taken for a silent upstream, and an EOF that races the timer is reported as a
stall.

Bounds: a window of 4 has two ticks in each half, the fewest that separate a
touch that is skipped from one that is not; a budget of 6 ends inside the second
window. `MaxCalls = 2` lets a second callback wait behind the first, which takes
a reset in between; a third would find the same state.

Fairness: weak for time, for each timer and callback, for the steps of the reader
and for the return of a call whose context is cancelled. These are promises of
the Go runtime and of `net/http`. The client takes its bytes in the end. The
upstream owes nothing: it may never answer, and it may trickle for ever.

`GuardProofs` proves, for every window, budget and bound on callbacks,
`GuardIsPatient`, `OneCause`, `NotKilledMidFlight` (for a provider that wraps its
body) and `NoStallIsMissed` (for one that has a guard). The first needs `SkipInv`:
until a stall `age` exceeds `quiet` by less than half a window. The third
adds `BytesInv`: bytes are in the socket, on their way to `touch`, or the
upstream has been silent for as long as the guard has seen nothing. The last rests on
`ClockInv`: while nothing is late, the idle timer and `age` add up to the
window, and a guard without a timer has a callback waiting. That `onIdle` arms
the timer again only when `age` is 0 is a consequence. Liveness is model-checked.

## TokenRefresh: one credential, many requests

`TokenRefresh` is `codex/refresh.go` and its twin of antigravity, with the scoped
store and `PutAccount` behind it. A pair is a login (`grant`), an access token
and a refresh token, each a number. The vault has one pair for the account
(`stored`); a login replaces it (`Connect`). The endpoint is external: it takes the
current refresh token of a grant (`valid`), may rotate it, and revokes the grant
when it is shown another one. `lock`, `dead` and `current` are the mutex and the
dead pair of each manager, and the manager that a new request gets: `Reload`
is a configuration edit that makes `ensure` build a provider anew.

| `pc` | Place |
|---|---|
| `idle`, `get`, `look` | `EnsureFreshToken` reads the pair without the lock, then `credentialsDead` waits for the lock (`Buried`, `Judge`) |
| `use` | the call of the upstream: it ends (`Use`) or is answered 401 (`Rejected`), which leads to one forced refresh |
| `lock` | before `refresh`; under the lock the pair is read again and is fresh (`Reuse`), dead (`StillDead`) or posted (`Refresh`) |
| `post` | the call of the endpoint: `Granted`, `GrantLost`, `Deny`, `PostFails` |
| `put`, `denied`, `failed` | the rest of `refresh`: `Put`, `PutFails`, `Bury`, `GiveUp`, each with the unlock |

History: `losses` counts replies of the endpoint and saves that were lost,
`doomed[m]` collects the pairs that manager `m` has seen rejected. No action
decides on either, except that `MaxLoss` bounds the first.

`token_run` has two requests, two logins, two managers and one loss. With one
manager and no loss no grant is revoked, however expiry, 401s, failed calls and
logins interleave (`CredentialSurvives`); no manager posts a pair that it saw
rejected (`DeadIsNotPosted`), even with reloads and losses; every request ends
(`EveryRequestEnds`). With a second manager `CredentialSurvives` would be false:
the old one has rotated the token and has not saved it when the new one posts
the same token. The comments of `runtime.go` and `quota.go` name this hazard and
exclude it for polls only.

Bounds: two requests are enough for one to fall between any two steps of the
other; a second login may arrive at any point of a refresh of the first;
`MaxIssue = 1` lets each login grow stale once, so that a refresh is
followed by a use of the new pair; `MaxLoss = 1` is the failure that the properties
except. Fairness: strong for the steps of a request. Only the steps that
wait for the mutex can be disabled before they are taken, and a `sync.Mutex`
does not starve a waiter; the other steps end because the calls have deadlines.

`TokenProofs` proves `TypeOK`, `CredentialSurvives` and `DeadIsNotPosted` for any
number of requests, managers, logins, issues and losses. `CredentialSurvives` needs
`LockInv` (the lock is held exactly from `Refresh` to the unlock) and `LiveTokens`:
a request that posts has the token that the endpoint takes, and so has the
vault, unless a request is about to save a newer one. `DeadIsNotPosted` needs that a
rejected pair never comes back: `KnownInv` and `UnseenInv` say that a pair on its
way to the vault has an access token that nobody has seen, and `DoomedInv` that
a rejected pair which is still in the vault is the one the manager remembers.
`CalmStep` takes care of the steps that touch neither vault nor endpoint.
Liveness is model-checked only.

## AccountPool: a provider with several accounts

`AccountPool` composes five parts of one provider, because they fail together:
the registry that holds an instance of it (`GetProvider`, `PollStarts`), the
limiter around the instance (`Acquire`, `HoldsSlot`), the pool that cools
accounts (`Available`, `MarkFailed`, `Scope`), the loop over the accounts that
are left (`Select`, `Fail`, `NextAccount`) with the writer of each attempt
(`held` is what it holds back, `heard` what the client has), and the quota syncer.
`drains[i][a][scope]` is the cooldown of account `a` in instance `i`, for one model or
for all of them, which are the two keys of `accountKey` and `modelDrainKey`.
`style` tells the two account loops apart: antigravity keeps the reason of a
cooldown and looks at the client's context, codex and codebuddy do neither.

A request walks `pc`: `new`, `asked` (it holds a snapshot of the configuration),
`got` (it holds an instance), `admitted`, `trying`, `done`. Between any two steps
there may be a `Reload`, a poll, a tick or a client that leaves. `Rebuilds` is
`ensure`: it compares the snapshot it is given with the last one, so a late request of
before a reload rebuilds the instance for the old settings. `faulty` is history.

The run `pool_run` has two requests, two accounts, two models, no limit or a limit of
one, one reload, one poll and up to three instances. Every slot comes back and
the limit holds per instance (`SlotsBalanced`); a reply is that of one account
(`OneAccountAnswers`); a cooldown starts or grows only for an account that has
just failed or been read, in the right scope and pool and for a bounded time
(`CoolsTheGuilty`); on antigravity bad prompts alone never cost a combo its
target (`KeptReasonProtects`). Requests and models are interchangeable; no property is temporal.

Bounds: a second request is enough to fill the limiter, to cool an account
between two steps of the first, and to bring an older snapshot; three instances
let the registry go to the new settings, back, and to the new ones again. Not
modelled: accounts without an identity (their drains are stored under index 0
and looked up under their position), the empty keys that codebuddy skips, and an ensure
that is overtaken before it reads the map. `Fail` merges the failure and the look
at the context that follows it.

`PoolProofs` proves type correctness and the four properties for all values of
the constants. `First` is a `CHOOSE`; that a set of numbers has a first element
is shown by well-founded induction over strict inclusion (`FirstIs`).
`SlotsBalanced` rests on the cardinality of the requests in flight, action by
action. `KeptReasonProtects` needs that every cooldown was set for a prompt as
long as nothing else has failed, in the account and in the model scope, and
`OneAccountAnswers` that an attempt writer holds only the words of the account in use.

## ReplyStream: from upstream events to the client

`UpstreamFeeds` has one operator per event of the Anthropic, Responses (opencode
and codex) and Gemini streams: it takes the translator's state and returns the
next one and the chat chunks that go out. `ReplyWires` has what the three client
endpoints make of chunks: `bufferedResponseWriter`, `anthropicTx`, `responsesTx`.
`ReplyStream` composes them over a chain of attempts. Texts and arguments are
sequences of numbered fragments, so that one that is lost, doubled or out of
place shows.

`phase` is `next` (between attempts), `reading` (in a provider), `returned`,
`over` (the verdict fell) and `left` (the handler returned). The upstream follows
its protocol (`up`, `said`), but may stop early, break, hold everything back for
its last event, or name a call by `item`, by output index or not at all (`Labels`). The keep-alive
goroutine of `/v1/messages` is a process of its own (`pinger`): its tick and its
write are two steps. `late` and `fresh` are history.

The run `stream_run` has all six protocols, all three endpoints, streamed and
collected, direct and in a chain of two attempts, three fragments and two calls. A
reply ends once (`OneEnding`); a reply that ends as complete is the whole
generation of one upstream, calls with their own arguments and the right finish
reason (`Faithful`); Anthropic deltas stay inside open blocks and all blocks are
closed (`BlocksWellFormed`); nobody is left without an answer (`Answered`);
pings stop (`PingsStop`). Where the code falls short, the property names the
case as its exception; they are listed under "Known disagreements".

Bounds: two calls
are the fewest that can be confused, and three fragments give one of them two parts; two attempts are enough for one to leave something to the next. No fairness.

`StreamProofs` proves the five properties for all sets of protocols and
endpoints, and for every number of attempts, calls and fragments. The invariants
it uses are definitions of `StreamInvariants`:

* `RepliesEndOnce` and `RequestsAreAnswered` (`OneEnding`, `Answered`). `RInv`
  says what a writer may look like while targets are tried (nothing ended, a body
  held back only by who may hold one back) and after the verdict (one ending, or
  one of the cases the properties name). Every chunk either leaves the wire as
  the client sees it (`Same`) or moves it on (`Progress`).
* `PingsAreSilent` (`PingsStop`): a late ping finds the writer finished, unless
  the message ended with an error.
* `BlocksAreWellFormed` (`BlocksWellFormed`): `BInv` relates three actors. The
  translator knows the calls the upstream has begun, each under its name
  (`Tells`); each of them has at most one block, of its own kind, and that block
  is open unless a text has come after the call (`Shape`); so a delta misses
  its block only if the upstream went on with a call behind a later text. No way
  of ending a message leaves a block open (`Tidy`).
* `RepliesAreFaithful` (`Faithful`): `FInv` follows the words from the upstream to
  the client. While an attempt is read (`FReading`), the translator holds what
  the upstream said (`Understands`), but for the arguments of a call it cannot
  name yet (`Behind`), and what the client reads in the blocks of its reply is
  what the translator took (`Wired`). A reply that is collected is still unwritten
  (`Bare`). An attempt that returned a good reply has delivered it
  (`FReturned`), and ending a reply leaves it read as it was (`Reread`). What is
  not committed has no blocks (`Unwritten`), so an attempt that starts on a fresh
  transaction adds to nothing. The proof has three layers. Of the blocks: `MessageRead`
  is determined by its steps, and the call at slot `i` is the `i`-th call that is
  read (`Lays`), so arguments reach their own call. Of a chunk: each writer lays
  it as `Tell` says (`ChunkLays`). Of an event: the chunks a translator yields
  tell what it adds to its own feed (`Utters`, `Concludes`). The three meet in one
  lemma per event of an upstream (`GeminiFollows`, `CompletesFollow` ...).
  TLC checked `FInv`, in a form it can evaluate, on the instance of `stream_run`
  before it was proved.

The chunks of an event and the body of a buffered reply are lists of any length.
`WriteAll`, `ReadAll` and `ApplyOutput` are recursive functions over the
positions of the list, as the loops of the code are. That such a function
exists, and that it keeps what each step keeps, is shown by a least
counterexample (`First`), which needs no induction theorem. `None` must not be a
number, the name of an ending or a finish reason, which `ReplyStreamAssumption`
says: `None` stands for what Go leaves empty, and the code tells the two apart.

## RequestTurns: from the client's conversation to the upstream

`ClientTurns` translates the turns, tools and choices of `/v1/chat/completions`,
`/v1/messages` and `/v1/responses` into chat messages; `UpstreamTurns` translates
those into what codex, opencode's Anthropic models, antigravity and OpenAI-like
upstreams are sent, and says what each refuses. `RequestTurns` grows a
conversation turn by turn: each step is what a client may say next, in the shapes
clients give it (text alone, parts, images, calls, results with remarks,
instructions in the middle). Every utterance has a number.

The run `turns_run` has conversations of four turns from every endpoint to every
upstream, and offers of tools with conversations of one turn. Words keep their
order and their speaker (`Faithful`); what is lost is exactly what is listed
(`OnlyThatIsLost`); each call keeps its result, next to it (`CallsPaired`); a
later request never retells the history of an earlier one (`GrowsOnly`); no tool
quietly disappears (`ToolsKept`). Four turns are a question, calls, their results
and what follows them: the span that `toolReplies` and the merging of turns look
at. Model-checked only, and without fairness: there is nothing that must happen.

## ConfigFile: config.yaml and the config that is served

`GatewayConfig` has the values of the file, `Validate`, and every change a form
makes to it, as functions of the config found on disk. `Routing` has the names
`/v1/models` lists, where a name leads, and the decision of a smart combo in both modes, for
every reply of the decision model. `ConfigFile` is the file (`file`, with its mtime), the atomic
pointer requests read (`served`), the handlers that change it (`editors`), the
watcher and an operator with a text editor. An edit is `Mutate` (read, change,
validate), `Truncate` and `Write` (`os.WriteFile`), `Load` and `Store` (`reload`); the watcher
notes the mtime, loads, stores and only then records what it noted. `Crash` and
`Start` end and begin the process between any two steps. `crossed` is history:
two writers, or a writer and a start, met.

The run `config_run` has two editors, two edits, one save by hand or crash. Every
name that is listed leads to a chain of known targets, for every reply of a decision
model (`EveryListedNameLands`); a withdrawn model is never listed
(`NeverListedAndWithdrawn`); unless two writers crossed, what is served ends up
being what is on disk (`ServedCatchesUp`). Two edits are the fewest that can
cross; the clone of a model and a smart combo that leads to a plain one meet each rule
of `Validate`. Fairness: weak for a handler that began and for the watcher's
ticker. None for edits, saves, crashes and starts.

`ConfigProofs` proves the two safety properties for all values of the constants.
Whatever is or may become the served config has passed `Validate` (`ServedInv`;
the empty file that a truncation leaves passes too), and `SmartLands` and
`ListedLands` show that this is enough, whatever a decision model replies.
`SoundInv` carries consistency through every edit. It needs `FilesAssumption`:
`Load` does not look for a model that is both listed and withdrawn, so a file
saved by hand must not have one. `ServedCatchesUp` is model-checked only.

## AccountVault: the vault and who uses it

`VaultData` has the accounts of a provider, their identities, and the changes
(`UpsertAccount`, `PutAccount`, the forms). `AccountVault` is the store: `vault`
is the snapshot that `Get` returns and `swaps` the pointer to it, `disk` the file. An
`Update` is one step, because it holds the store's lock; `UpdateFails` leaves the file
truncated and the memory as it was. Its users interleave: dashboard forms,
logins (`OAuthLogin`, `OAuthCallback`, `FinishLogin`, and their paste variants), token refreshes
that read an account and write it back later, and requests that take a snapshot
(`Arrive`) and look their key up in the index that all of them share
(`Authenticate`). `Restart` comes back from the file. `owed` is history: the accounts the
user was told are connected and has neither deleted nor overwritten since; an account
that was stored without its user becomes that of the user who logs in.

The run `vault_run` has one provider, two users of one account, one key, one
refresh, two requests, two logins, three swaps and one fault, from a new and an
older installation. No connected account
disappears (`ConnectedIsKept`), and each request is judged by the keys that were
active when it arrived (`JudgedAsOfArrival`). Three swaps let a write come
between the read and the write-back of a refresh and another after it. No fairness, as nothing is promised to happen.

`VaultProofs` proves `JudgedAsOfArrival` for all values of the constants. The
index is keyed by a pointer, so the invariant says that a pointer determines the
keys: whoever holds the same number holds the same keys, and the last number
those of the vault (`SnapshotsInv`).

`AccountsStay` proves `ConnectedIsKept`. Entries are found by their identity, so
what counts is who may overwrite an entry. `KeptInv` adds that the file is
broken or holds what memory holds, that a refresh carries the identity of the
entry it has read, and that a login has a name. `NamedAreKept` is the core: an
entry that a login or a write-back overwrites has the identity of the new one,
or had no user; and two entries without a user that have one identity have the
same names (`SameNames`), so the debt moves along with the entry. This needs
`NamesAssumption`: account names, user ids and mail addresses are
different strings. The code joins them in one string and compares the
result; were the user of an account named like the account, the write-back of
an older snapshot without a user could take that user's entry, and a further login
replace it. `LoginAssumption` is what both callbacks check before they store.
`Min` finds the first entry, and `WithoutAccount` is a recursive function over the list.

## Known disagreements

What the models found, or were built to allow, where a doc or comment says otherwise or a
reader would expect otherwise. The first two have a run.

* A 504 envelope after a delivered reply (`combo_late_reply`).
* Two overlapping requests drain every target (`combo_last_healthy`).
* The budget runs out between its check and `attemptContext`: the context is born
  cancelled, and `Run` drains the target for it (`combo.go:146`, against the comment of line 66).
  It is the exception of `DrainHasReason`; without it, `combo_budget` finds the drain.
* Every attempt gets all that is left of the budget; `README.md:134` promises an even split.
* A combo whose targets all answer a plain 429 is answered 502 (`chat.go:530`, against `combo.go:92`).
* codebuddy reads the body around its guard (`codebuddy/provider.go:430`); opencode makes none (`opencode/provider.go:175`).
* A reload makes a second token manager on one rotating pair (`registry.go:87`, against `runtime.go:13`).
* Requests with snapshots of before and after a reload rebuild a provider in turns (`registry.go:79`);
  pool and limiter start empty, and `max_concurrency` holds per instance (`config.example.yaml:41`).
* codex and codebuddy drop the reason of a cooldown (`codex/provider.go:309`,
  against `accounts.go:29`): one bad prompt cools all accounts, and the next request
  drains the target. A short cooldown replaces a longer one. A limited provider hides its quota endpoint.
* A stream that finished without a word is a success on `/v1/messages` and
  `/v1/responses` (`responses.go:397` says it fails over). An exhausted chain on
  `/v1/responses` gets an error and then a completed reply. A stream that broke after it was committed
  fails over there into a message that has started. An unterminated line leaks into the
  next attempt. A ping may follow an error event.
* opencode's proxy does not check that a stream ended; the finish reason of a
  Gemini frame ignores calls of earlier frames (`antigravity/translate.go:667`).
* A remark beside tool results is dropped on antigravity (`translate.go:229`,
  against `messages.go:158`), as are images, namesake tools and odd choices; instructions that are a list
  are dropped in `/v1/messages`; codex refuses results that are not one string; codex and opencode refuse all of
  `/v1/responses`, since the parsed body holds `[]Message`.
* Two edits of `config.yaml` at once lose one; a reader may meet the truncated
  file and take it for an empty, valid one. Two reloads at once may leave the older config in service. A save between the
  load of the start and the first look of the watcher goes unnoticed. `PruneComboTargets` looks at
  active models, `Validate` at withdrawn ones too; when pruning empties a combo that
  a smart one leads to, the edit is refused for good.
* A decision that names no route runs the default route's targets under `priority`
  and the smart combo's name (`smart_dispatch.go:55`). Edited weights take no
  effect until the combo changes otherwise (`smart_dispatch.go:176`).
* A refresh that began before an account was deleted brings it back
  (`api/providers.go:47`). Keys appended after a deletion may reuse the identity `key-N`, and deleting one
  deletes both. A save that fails leaves a file no start can read.

## What later work could add

A proof of the properties of RequestTurns, and the refinement of a tracker that forgets
its file; `AttemptWriter` composed with `bufferedResponseWriter` in `ReplyStream`; several providers
in `AccountPool`, with a combo over them.

## Not modelled

Liveness under fairness, the refinement of a fold over events and the five properties of
RequestTurns, which fold a whole conversation, stay with TLC: the
provers installed here do neither temporal reasoning with `ENABLED` nor induction over data.

Left out of the modules: sampling parameters, effort levels, schemas and usage
counts of the translations, and the hint for JSON output, which rewrites
history; headers and fingerprints of the providers; durations, base URLs and types in the
configuration; the reasons and texts of errors and logs. Encryption of the vault and the
resolution of its key are calls of libraries and of the file system.

Left out as parts: the quota readers and model catalogs, which parse third-party
documents without state of their own; the snapshots and failure counts of the quota
syncer, which the dashboard alone reads (the last `Put` wins, `cache.go:30`); the cache of
completions, a map and a list under one mutex; the cache of decision
clients; observability, which is never read back; rendering, the playground and the
login of the dashboard; signals and the draining of connections at shutdown,
which does not flush the tracker (`main.go:231`). Liveness of the providers is an
assumption, not a result.
