---------------------------- MODULE AccountPool ----------------------------
(***************************************************************************)
(* A provider with several accounts: the concurrency limiter around it,    *)
(* the pool that cools accounts down, the loop over the accounts that are  *)
(* left, the writer each attempt gets, the reload that replaces the whole  *)
(* provider, and the quota syncer that cools accounts before they fail.    *)
(*                                                                         *)
(* The registry holds one instance of the provider, with a pool and a      *)
(* limiter of its own, for the settings that were asked for last.  Who     *)
(* asks with other settings gets a new instance: the first request after a *)
(* reload, but also a request of before the reload that comes late.        *)
(***************************************************************************)
EXTENDS Naturals, FiniteSets

CONSTANTS
  Requests,     \* client requests, each of which comes once
  Models,       \* models they ask for
  NAccounts,    \* accounts of the vault, each with an identity, in the order they are tried
  Limits,       \* values of max_concurrency, 0 for none
  MaxCool,      \* the longest cooldown of a quota, in units of the default one
  MaxTime,      \* bound: clock
  MaxReloads,   \* bound: reloads that change the provider's settings
  MaxInstances, \* bound: instances the registry builds
  MaxPolls      \* bound: accounts the syncer reads

Accounts == 1..NAccounts
Settings == 1..(MaxReloads + 1)
Instances == 1..MaxInstances
Everything == "every model"
Nobody == 0
DefaultAccountCooldown == 1

ASSUME PoolAssumption ==
  /\ NAccounts \in Nat /\ NAccounts >= 1
  /\ Limits \subseteq Nat /\ MaxTime \in Nat /\ MaxReloads \in Nat /\ MaxPolls \in Nat
  /\ MaxInstances \in Nat /\ MaxInstances >= 1
  /\ MaxCool \in Nat /\ MaxCool >= 1
  /\ IsFiniteSet(Requests) /\ Everything \notin Models

VARIABLES
  style,     \* "codex" and codebuddy, or "antigravity": the same loop with other endings
  limit,     \* its max_concurrency
  live,      \* what a request flushes goes straight to the client
  now,       \* clock
  config,    \* the settings of the provider in the current configuration
  registry,  \* the settings it was asked for last, their instance, the number of instances built
  drains,    \* drains[i][a][scope]: until when account a cools, and why
  slots,     \* slots[i]: filled places of the limiter
  reqs,      \* the requests
  poll,      \* the quota syncer
  faulty     \* history: something other than a prompt has failed

vars == <<style, limit, live, now, config, registry, drains, slots, reqs, poll, faulty>>

Phases == {"new", "asked", "got", "admitted", "trying", "done"}
Failures == {"prompt", "server", "network", "quota"}
Endings == {"none", "ok", "broken", "cancelled", "busy", "prompt", "fault"}
NoDrain == [until |-> 0, why |-> "none"]

NewRequest ==
  [pc |-> "new", config |-> 1, inst |-> 1, model |-> Everything,
   left |-> {},         \* accounts to try, the first of them in use
   held |-> {},         \* whose words its attempt writer holds back
   heard |-> {},        \* whose words the client has
   gone |-> FALSE, ending |-> "none"]

Init ==
  /\ style \in {"codex", "antigravity"}
  /\ limit \in Limits
  /\ live \in BOOLEAN
  /\ now = 1
  /\ config = 1
  /\ registry = [config |-> 1, inst |-> 1, built |-> 1]
  /\ drains = [i \in Instances |-> [a \in Accounts |->
                 [s \in Models \cup {Everything} |-> NoDrain]]]
  /\ slots = [i \in Instances |-> 0]
  /\ reqs = [r \in Requests |-> NewRequest]
  /\ poll = [reads |-> Nobody, number |-> 0]
  /\ faulty = FALSE

-----------------------------------------------------------------------------
(* The pool *)

Cools(drain) == now < drain.until
Live(i, a, scope) == Cools(drains[i][a][scope])
Cooling(i, a, m) == Live(i, a, Everything) \/ Live(i, a, m)

\* AvailableForModel: the accounts that are left; they are tried in the order of the vault.
Available(i, m) == {a \in Accounts : ~Cooling(i, a, m)}
First(S) == CHOOSE a \in S : \A b \in S : a <= b

\* What it reports of the others is the drain of the first that has a reason to tell, which
\* all but a failed connection have.  Was it a bad prompt?
ActiveDrain(i, a, m) == IF Live(i, a, Everything) THEN drains[i][a][Everything] ELSE drains[i][a][m]
FirstIsPrompt(i, m) ==
  \E a \in Accounts : /\ Cooling(i, a, m) /\ ActiveDrain(i, a, m).why = "prompt"
                      /\ \A b \in 1..(a - 1) : Cooling(i, b, m) => ActiveDrain(i, b, m).why = "network"

\* Mutant: a quota is taken for the account's, not the model's.
ScopeAccount(err, m) == Everything

Scope(err, m) == IF err = "quota" THEN m ELSE Everything

\* Mutant: whose fault it was does not survive the cooldown.
MarkFailedAnyhow(i, a, m, err, cooldown) ==
  drains' = [drains EXCEPT ![i][a][Scope(err, m)] =
               [until |-> now + cooldown, why |-> IF err = "prompt" THEN "server" ELSE err]]

\* The last word counts: a cooldown replaces the one before, the longer one too.
MarkFailed(i, a, m, err, cooldown) ==
  drains' = [drains EXCEPT ![i][a][Scope(err, m)] =
               [until |-> now + cooldown, why |-> err]]

-----------------------------------------------------------------------------
(* The registry *)

\* ensure: entries are reused as long as the settings are those of the last call.
Rebuilds(settings) == registry.config # settings
InstanceFor(settings) == IF Rebuilds(settings) THEN registry.built + 1 ELSE registry.inst
Get(settings) ==
  /\ InstanceFor(settings) \in Instances
  /\ registry' = IF Rebuilds(settings)
                 THEN [config |-> settings, inst |-> registry.built + 1, built |-> registry.built + 1]
                 ELSE registry

-----------------------------------------------------------------------------
(* A request *)

Is(r, pc) == reqs[r].pc = pc
HoldsSlot(r) == reqs[r].pc \in {"admitted", "trying"}
Account(r) == First(reqs[r].left)
Committed(r) == reqs[r].heard # {}

\* It returns, and with it the deferred release; what stays is what the client got.
Ends(r, ending) ==
  /\ reqs' = [reqs EXCEPT ![r] = [NewRequest EXCEPT !.pc = "done", !.ending = ending,
                                                    !.heard = reqs[r].heard]]
  /\ slots' = IF HoldsSlot(r) THEN [slots EXCEPT ![reqs[r].inst] = @ - 1] ELSE slots

\* The handler takes the configuration of the moment and keeps it.
Arrive(r) ==
  /\ Is(r, "new")
  /\ \E m \in Models :
       reqs' = [reqs EXCEPT ![r] = [@ EXCEPT !.pc = "asked", !.config = config, !.model = m]]
  /\ UNCHANGED <<style, limit, live, now, config, registry, drains, slots, poll, faulty>>

\* The target's turn comes, at once or after others.
GetProvider(r) ==
  /\ Is(r, "asked")
  /\ Get(reqs[r].config)
  /\ reqs' = [reqs EXCEPT ![r].pc = "got", ![r].inst = InstanceFor(reqs[r].config)]
  /\ UNCHANGED <<style, limit, live, now, config, drains, slots, poll, faulty>>

\* The place in the limiter; a full one refuses, and a client that left may be noticed.
HasRoom(i) == limit = 0 \/ slots[i] < limit
Acquire(r) ==
  /\ Is(r, "got")
  /\ \/ /\ HasRoom(reqs[r].inst)
        /\ reqs' = [reqs EXCEPT ![r].pc = "admitted"]
        /\ slots' = [slots EXCEPT ![reqs[r].inst] = @ + 1]
     \/ /\ ~HasRoom(reqs[r].inst) /\ ~reqs[r].gone
        /\ Ends(r, "busy")
     \/ /\ limit # 0 /\ reqs[r].gone
        /\ Ends(r, "cancelled")
  /\ UNCHANGED <<style, limit, live, now, config, registry, drains, poll, faulty>>

\* The list of accounts is made once.  With none left codex forgets why.
Select(r) ==
  LET list == Available(reqs[r].inst, reqs[r].model)
      why  == IF style = "antigravity" /\ FirstIsPrompt(reqs[r].inst, reqs[r].model)
              THEN "prompt" ELSE "fault"
      tooLate == style = "codex" /\ reqs[r].gone
  IN /\ Is(r, "admitted")
     /\ \/ tooLate /\ Ends(r, "cancelled")
        \/ ~tooLate /\ list = {} /\ Ends(r, why)
        \/ /\ ~tooLate /\ list # {}
           /\ reqs' = [reqs EXCEPT ![r].pc = "trying", ![r].left = list]
           /\ UNCHANGED slots
     /\ UNCHANGED <<style, limit, live, now, config, registry, drains, poll, faulty>>

\* AttemptWriter: Flush commits what a live request has so far, Commit what any has at the end.
\* A stream is live in front of a plain writer only, that of a direct call or of /v1/messages:
\* the writer of a chat combo waits for content before it is committed, and the attempt
\* writer for it to be committed.
Flush(r) ==
  /\ Is(r, "trying")
  /\ \/ live /\ reqs' = [reqs EXCEPT ![r].held = {},
                                    ![r].heard = @ \cup reqs[r].held \cup {Account(r)}]
     \/ ~live /\ reqs' = [reqs EXCEPT ![r].held = @ \cup {Account(r)}]
  /\ UNCHANGED <<style, limit, live, now, config, registry, drains, slots, poll, faulty>>

Succeed(r) ==
  /\ Is(r, "trying")
  /\ reqs' = [reqs EXCEPT ![r] = [NewRequest EXCEPT !.pc = "done", !.ending = "ok",
                  !.heard = reqs[r].heard \cup reqs[r].held \cup {Account(r)}]]
  /\ slots' = [slots EXCEPT ![reqs[r].inst] = @ - 1]
  /\ UNCHANGED <<style, limit, live, now, config, registry, drains, poll, faulty>>

Cooldowns(err) == IF err = "quota" THEN 1..MaxCool ELSE {DefaultAccountCooldown}

\* Mutant: one attempt writer for all accounts.
NextAccountOneWriter(r, err) ==
  IF reqs[r].left # {Account(r)}
  THEN /\ reqs' = [reqs EXCEPT ![r].left = @ \ {Account(r)}]
       /\ UNCHANGED slots
  ELSE Ends(r, IF err = "prompt" THEN "prompt" ELSE "fault")

NextAccount(r, err) ==
  IF reqs[r].left # {Account(r)}
  THEN /\ reqs' = [reqs EXCEPT ![r].held = {}, ![r].left = @ \ {Account(r)}]
       /\ UNCHANGED slots
  ELSE Ends(r, IF err = "prompt" THEN "prompt" ELSE "fault")

\* Mutant: the early return forgets the place in the limiter.
InterruptedLeaks(r) ==
  /\ Is(r, "trying") /\ reqs[r].gone
  /\ reqs' = [reqs EXCEPT ![r] = [NewRequest EXCEPT !.pc = "done", !.ending = "cancelled"]]
  /\ UNCHANGED <<style, limit, live, now, config, registry, drains, slots, poll, faulty>>

\* The client's context ends the exchange.
Interrupted(r) ==
  /\ Is(r, "trying") /\ reqs[r].gone
  /\ Ends(r, IF Committed(r) THEN "broken" ELSE "cancelled")
  /\ UNCHANGED <<style, limit, live, now, config, registry, drains, poll, faulty>>

\* The account fails: by the prompt's fault, its quota's, or anything else.  What was committed
\* stays; antigravity looks at the client's context, codex at the error (Interrupted);
\* otherwise the account cools down and the next one is tried, with a writer of its own.
Fail(r) ==
  /\ Is(r, "trying")
  /\ \E err \in Failures :
       /\ faulty' = (faulty \/ err # "prompt")
       /\ \/ Committed(r) /\ Ends(r, "broken") /\ UNCHANGED drains
          \/ /\ ~Committed(r) /\ style = "antigravity" /\ reqs[r].gone
             /\ Ends(r, "cancelled") /\ UNCHANGED drains
          \/ /\ ~Committed(r) /\ ~(style = "antigravity" /\ reqs[r].gone)
             /\ \E cooldown \in Cooldowns(err) :
                  MarkFailed(reqs[r].inst, Account(r), reqs[r].model, err, cooldown)
             /\ NextAccount(r, err)
  /\ UNCHANGED <<style, limit, live, now, config, registry, poll>>

Leave(r) ==
  /\ ~Is(r, "new") /\ ~Is(r, "done") /\ ~reqs[r].gone
  /\ reqs' = [reqs EXCEPT ![r].gone = TRUE]
  /\ UNCHANGED <<style, limit, live, now, config, registry, drains, slots, poll, faulty>>

-----------------------------------------------------------------------------
(* The quota syncer, with auto_drain on *)

\* quotaTargets: a limited provider hides its quota endpoint, and with it the target.
PollStarts ==
  /\ limit = 0 /\ poll.reads = Nobody /\ poll.number < MaxPolls
  /\ Get(config)
  /\ \E a \in Accounts : poll' = [reads |-> a, number |-> poll.number + 1]
  /\ UNCHANGED <<style, limit, live, now, config, drains, slots, reqs, faulty>>

\* cooldownFor: to the earliest reset that is still to come, clamped; 0 without one.
CooldownFor(resets) ==
  LET later == {t \in resets : t > now}
  IN IF later = {} THEN 0 ELSE IF First(later) - now > MaxCool THEN MaxCool ELSE First(later) - now

\* The account is exhausted: the pool of the instance of this moment cools it.
PollFindsExhausted ==
  /\ poll.reads # Nobody
  /\ \E resets \in SUBSET (1..(MaxTime + MaxCool + 1)) :
       /\ Cardinality(resets) < 3
       /\ IF CooldownFor(resets) = 0 THEN UNCHANGED <<drains, registry>>
          ELSE /\ Get(config)
               /\ drains' = [drains EXCEPT ![InstanceFor(config)][poll.reads][Everything] =
                    [until |-> now + CooldownFor(resets), why |-> "quota"]]
  /\ faulty' = TRUE
  /\ poll' = [poll EXCEPT !.reads = Nobody]
  /\ UNCHANGED <<style, limit, live, now, config, slots, reqs>>

\* It is not, or cannot be read, which is never taken for exhaustion.
PollFindsNothing ==
  /\ poll.reads # Nobody
  /\ poll' = [poll EXCEPT !.reads = Nobody]
  /\ UNCHANGED <<style, limit, live, now, config, registry, drains, slots, reqs, faulty>>

-----------------------------------------------------------------------------
\* A new configuration, in which the provider's settings are others.
Reload ==
  /\ config <= MaxReloads
  /\ config' = config + 1
  /\ UNCHANGED <<style, limit, live, now, registry, drains, slots, reqs, poll, faulty>>

\* A drain that is over is deleted when it is met: here, at once.
Tick ==
  /\ now < MaxTime
  /\ now' = now + 1
  /\ drains' = [i \in Instances |-> [a \in Accounts |-> [s \in Models \cup {Everything} |->
                 IF now' < drains[i][a][s].until THEN drains[i][a][s] ELSE NoDrain]]]
  /\ UNCHANGED <<style, limit, live, config, registry, slots, reqs, poll, faulty>>

Step(r) ==
  Arrive(r) \/ GetProvider(r) \/ Acquire(r) \/ Select(r) \/ Flush(r) \/ Succeed(r)
  \/ Fail(r) \/ Interrupted(r)

Next ==
  \/ \E r \in Requests : Step(r) \/ Leave(r)
  \/ PollStarts \/ PollFindsExhausted \/ PollFindsNothing
  \/ Reload \/ Tick

Spec == Init /\ [][Next]_vars

-----------------------------------------------------------------------------
(* Properties *)

DrainType == [until : Nat, why : Failures \cup {"none"}]
RequestType ==
  [pc : Phases, config : Settings, inst : Instances, model : Models \cup {Everything},
   left : SUBSET Accounts, held : SUBSET Accounts, heard : SUBSET Accounts,
   gone : BOOLEAN, ending : Endings]

TypeOK ==
  /\ style \in {"codex", "antigravity"} /\ limit \in Limits /\ live \in BOOLEAN
  /\ now \in Nat /\ config \in Settings
  /\ registry \in [config : Settings, inst : Instances, built : Instances]
  /\ drains \in [Instances -> [Accounts -> [Models \cup {Everything} -> DrainType]]]
  /\ slots \in [Instances -> Nat]
  /\ reqs \in [Requests -> RequestType]
  /\ poll \in [reads : Accounts \cup {Nobody}, number : Nat] /\ faulty \in BOOLEAN

\* A slot is filled exactly as long as a request that took it has not returned,
\* on whatever path it returns; so a provider with max_concurrency never serves more at once.
InFlight(i) == {r \in Requests : HoldsSlot(r) /\ reqs[r].inst = i}
SlotsBalanced ==
  \A i \in Instances : /\ slots[i] = Cardinality(InFlight(i))
                       /\ limit # 0 => slots[i] <= limit

\* An answer is the answer of one account, from its first piece on: whatever an
\* account said before it failed is never followed by the words of another.
OneAccountAnswers ==
  \A r \in Requests :
    /\ \A a, b \in reqs[r].heard : a = b
    /\ reqs[r].left # {} => reqs[r].heard \subseteq {Account(r)}
    /\ reqs[r].ending \in {"cancelled", "busy", "prompt", "fault"} => reqs[r].heard = {}

\* Only the guilty cools: when an account starts to cool it has just failed a request itself,
\* for the model concerned when it was its quota, or its quota was just read; it is cooled in
\* the pool of that request, or of the present instance; and never for longer than MaxCool.
Guilty(i, a, s, why) ==
  \/ \E r \in Requests : /\ Is(r, "trying") /\ reqs[r].inst = i /\ Account(r) = a
                          /\ s = IF why = "quota" THEN reqs[r].model ELSE Everything
  \/ poll.reads = a /\ s = Everything /\ i = InstanceFor(config)
CoolsTheGuilty ==
  [][\A i \in Instances, a \in Accounts, s \in Models \cup {Everything} :
       drains'[i][a][s].until > drains[i][a][s].until =>
         Guilty(i, a, s, drains'[i][a][s].why) /\ drains'[i][a][s].until <= now + MaxCool]_vars

\* "A bad prompt must not drain the combo target": as long as nothing but prompts has failed,
\* no request ends in an error that the combo drains its target for.  This holds on
\* antigravity, which keeps the reason of a cooldown; codex and codebuddy throw it away.
KeptReasonProtects ==
  style = "antigravity" /\ ~faulty => \A r \in Requests : reqs[r].ending # "fault"
=============================================================================
