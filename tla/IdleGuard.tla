----------------------------- MODULE IdleGuard -----------------------------
(***************************************************************************)
(* One streamed generation under an IdleGuard: the goroutine that reads    *)
(* the upstream, the two timers with their callbacks, the upstream and the *)
(* client.  Time is kept as what is left of a timer and as the age of an   *)
(* event, so that no clock bounds the runs.                                *)
(***************************************************************************)
EXTENDS Integers

CONSTANTS
    Kind,     \* the provider: it says what of the generation is guarded
    Idle,     \* the idle bound, in ticks
    Budgets,  \* the stream budgets it may be given, 0 for none
    MaxCalls  \* bound: idle callbacks that wait for the lock

ASSUME GuardAssumption ==
    /\ Kind \in {"openai", "oauth", "codebuddy", "opencode"}
    /\ Idle \in Nat \ {0} /\ Budgets \subseteq Nat
    /\ MaxCalls \in Nat \ {0}

Off == -1
Half == Idle \div 2

\* opencode never makes a guard; codebuddy reads its body without it; codex and
\* antigravity answer a 401 with a refresh and a second exchange.
Guarded == Kind # "opencode"
Wrapped == Kind \in {"openai", "oauth"}
Retries == Kind = "oauth"

VARIABLES
    left,       \* ticks until the idle timer fires, or Off
    budget,     \* the budget it has been given
    rest,       \* ticks until the budget timer fires, or Off
    age,        \* ticks since g.last, up to Idle
    calls,      \* onIdle goroutines that wait for the lock
    budgetCall, \* an onBudget goroutine waits for the lock
    stallErr,   \* "none", "idle" or "budget"
    cause,      \* of the cancelled context: "none", "stall" or "client"
    pc,         \* where the reader is
    retried,    \* the 401 has been answered with a refresh
    ready,      \* bytes of the upstream wait to be read
    err,        \* how the last read ended: "none", "eof", "failed", "aborted"
    result,     \* what the generation is reported as
    quiet,      \* history: ticks since the guard last saw bytes, up to Idle + 1
    silent,     \* history: ticks since the upstream last sent bytes, up to Idle
    late        \* history: time has passed while a timer, a callback or the
                \* reader was due

guard == <<left, age, calls, budgetCall, stallErr, cause>>
clocks == <<budget, rest, quiet, silent, late>>
reader == <<pc, retried, ready, err, result>>
vars == <<guard, clocks, reader>>

\* NewIdleGuard, right before the request is sent.
Init ==
    /\ left = IF Guarded THEN Idle ELSE Off
    /\ budget \in Budgets
    /\ rest = IF Guarded /\ budget > 0 THEN budget ELSE Off
    /\ age = 0 /\ calls = 0 /\ budgetCall = FALSE
    /\ stallErr = "none" /\ cause = "none"
    /\ pc = "send" /\ retried = FALSE /\ ready = FALSE
    /\ err = "none" /\ result = "none"
    /\ quiet = 0 /\ silent = 0 /\ late = FALSE
-----------------------------------------------------------------------------
\* The timers start their callbacks in goroutines of their own.
FireIdle ==
    /\ left = 0 /\ calls < MaxCalls
    /\ left' = Off
    /\ calls' = calls + 1
    /\ UNCHANGED <<age, budgetCall, stallErr, cause, clocks, reader>>

FireBudget ==
    /\ rest = 0
    /\ rest' = Off
    /\ budgetCall' = TRUE
    /\ UNCHANGED <<left, age, calls, stallErr, cause, budget, quiet, silent,
                   late, reader>>

\* mutant: the stall is recorded, the context lives on
StallQuietly(bound) ==
    /\ stallErr = "none"
    /\ stallErr' = bound
    /\ UNCHANGED cause

\* stall cancels the context; a context keeps its first cause.
Stall(bound) ==
    /\ stallErr = "none"
    /\ stallErr' = bound
    /\ cause' = IF cause = "none" THEN "stall" ELSE cause

\* mutant: the timer is trusted
OnIdleTrusting ==
    /\ calls > 0
    /\ calls' = calls - 1
    /\ IF stallErr = "none" THEN Stall("idle") ELSE UNCHANGED <<stallErr, cause>>
    /\ UNCHANGED <<left, age, budgetCall, clocks, reader>>

\* onIdle looks again under the lock: bytes may have come since it was started.
OnIdle ==
    /\ calls > 0
    /\ calls' = calls - 1
    /\ \/ /\ stallErr # "none"
          /\ UNCHANGED <<left, stallErr, cause>>
       \/ /\ stallErr = "none" /\ age < Idle
          /\ left' = Idle
          /\ UNCHANGED <<stallErr, cause>>
       \/ /\ age >= Idle
          /\ Stall("idle")
          /\ UNCHANGED left
    /\ UNCHANGED <<age, budgetCall, clocks, reader>>

\* mutant: onBudget does not look whether the guard has stalled already
OnBudgetAgain ==
    /\ budgetCall
    /\ budgetCall' = FALSE
    /\ stallErr' = "budget"
    /\ cause' = IF cause = "none" THEN "stall" ELSE cause
    /\ UNCHANGED <<left, age, calls, clocks, reader>>

OnBudget ==
    /\ budgetCall
    /\ budgetCall' = FALSE
    /\ \/ stallErr # "none" /\ UNCHANGED <<stallErr, cause>>
       \/ Stall("budget")
    /\ UNCHANGED <<left, age, calls, clocks, reader>>
-----------------------------------------------------------------------------
\* The upstream and the client.
Arrive ==
    /\ pc \in {"body", "touch", "write"} /\ ~ready /\ err = "none"
    /\ cause = "none"
    /\ ready' = TRUE
    /\ silent' = 0
    /\ UNCHANGED <<guard, budget, rest, quiet, late, pc, retried, err, result>>

ClientLeaves ==
    /\ cause = "none" /\ pc # "done"
    /\ cause' = "client"
    /\ UNCHANGED <<left, age, calls, budgetCall, stallErr, clocks, reader>>

Failures == {"failed"} \cup (IF cause # "none" THEN {"aborted"} ELSE {})

\* Err names the stall, whatever ended the read.
Report(e) == IF stallErr # "none" THEN "stall" ELSE e

Return(r) == pc' = "stop" /\ result' = r /\ UNCHANGED <<retried, ready, err>>

\* The headers arrive.  An error status is returned as such; codebuddy judges
\* the status when it has the whole body.
Answer ==
    /\ pc = "send"
    /\ pc' = "body"
    /\ UNCHANGED <<guard, clocks, retried, ready, err, result>>

BadStatus ==
    /\ IF Kind = "codebuddy" THEN pc = "touch" /\ err = "eof" ELSE pc = "send"
    /\ Return("failed")
    /\ UNCHANGED <<guard, clocks>>

SendFails ==
    /\ pc = "send"
    /\ \E e \in Failures : Return(Report(e))
    /\ UNCHANGED <<guard, clocks>>

\* A 401: ForceRefreshToken runs between the two exchanges, under the guard.
Unauthorized ==
    /\ pc = "send" /\ Retries /\ ~retried
    /\ pc' = "refresh"
    /\ retried' = TRUE
    /\ UNCHANGED <<guard, clocks, ready, err, result>>

Refreshed ==
    /\ pc = "refresh"
    /\ pc' = "send"
    /\ UNCHANGED <<guard, clocks, retried, ready, err, result>>

\* The error of the token endpoint hides what ended the request.
RefreshFails ==
    /\ pc = "refresh"
    /\ Return("failed")
    /\ UNCHANGED <<guard, clocks>>

\* Read returns bytes, and with the last of them perhaps io.EOF.
Read ==
    /\ pc = "body" /\ ready
    /\ ready' = FALSE
    /\ \/ /\ err' = "none"
          /\ pc' = IF Wrapped THEN "touch" ELSE IF Guarded THEN "body" ELSE "write"
       \/ /\ err' = "eof"
          /\ pc' = IF Guarded THEN "touch" ELSE "check"
    /\ UNCHANGED <<guard, clocks, retried, result>>

\* Read returns no bytes.  codebuddy wraps what it has buffered only then.
ReadEnds ==
    /\ pc = "body"
    /\ err' \in {"eof"} \cup Failures
    /\ err' = "eof" => ~ready
    /\ pc' = IF Guarded /\ ~Wrapped /\ err' = "eof" THEN "touch" ELSE "check"
    /\ UNCHANGED <<guard, clocks, retried, ready, result>>

\* mutant: bytes in the first half of the window count as silence
TouchSkipsMore ==
    /\ pc = "touch"
    /\ quiet' = 0
    /\ UNCHANGED <<left, age>>
    /\ pc' = IF err = "none" THEN "write" ELSE "check"
    /\ UNCHANGED <<calls, budgetCall, stallErr, cause, budget, rest, silent, late,
                   retried, ready, err, result>>

\* mutant: touch notes the time and leaves the timer to the recheck
TouchKeepsTimer ==
    /\ pc = "touch"
    /\ quiet' = 0
    /\ age' = 0
    /\ pc' = IF err = "none" THEN "write" ELSE "check"
    /\ UNCHANGED <<left, calls, budgetCall, stallErr, cause, budget, rest, silent,
                   late, retried, ready, err, result>>

\* touch: in the first half of the window the timer is left alone.
Touch ==
    /\ pc = "touch"
    /\ quiet' = 0
    /\ \/ (stallErr # "none" \/ age < Half) /\ UNCHANGED <<left, age>>
       \/ stallErr = "none" /\ age >= Half /\ left' = Idle /\ age' = 0
    /\ pc' = IF err = "none" THEN "write" ELSE "check"
    /\ UNCHANGED <<calls, budgetCall, stallErr, cause, budget, rest, silent, late,
                   retried, ready, err, result>>

\* The bytes go to the client, which takes its time.
Written ==
    /\ pc = "write"
    /\ pc' = "body"
    /\ UNCHANGED <<guard, clocks, retried, ready, err, result>>

WriteFails ==
    /\ pc = "write" /\ cause = "client"
    /\ Return("failed")
    /\ UNCHANGED <<guard, clocks>>

\* The end of idleReader.Read with an error.
Check ==
    /\ pc = "check"
    /\ Return(Report(err))
    /\ UNCHANGED <<guard, clocks>>

Stop ==
    /\ pc = "stop"
    /\ pc' = "done"
    /\ left' = Off /\ rest' = Off
    /\ UNCHANGED <<age, calls, budgetCall, stallErr, cause, budget, quiet,
                   silent, late, retried, ready, err, result>>

Due ==
    \/ left = 0 \/ rest = 0 \/ calls > 0 \/ budgetCall
    \/ pc \in {"touch", "check", "stop"}
    \/ pc = "body" /\ (ready \/ cause # "none")

Older(n, cap) == IF n < cap THEN n + 1 ELSE n

Sooner(n) == IF n > 0 THEN n - 1 ELSE n

Tick ==
    /\ left' = Sooner(left) /\ rest' = Sooner(rest)
    /\ age' = Older(age, Idle)
    /\ quiet' = Older(quiet, Idle + 1)
    /\ silent' = Older(silent, Idle)
    /\ late' = (late \/ Due)
    /\ UNCHANGED <<calls, budgetCall, stallErr, cause, budget, reader>>

Exchange == Answer \/ BadStatus \/ SendFails
Reauthorize == Unauthorized \/ Refreshed \/ RefreshFails
Reading == Read \/ ReadEnds \/ Touch \/ Written \/ WriteFails \/ Check \/ Stop
Timers == FireIdle \/ FireBudget \/ OnIdle \/ OnBudget

Next ==
    \/ Timers \/ Arrive \/ ClientLeaves \/ Tick
    \/ Exchange \/ Reauthorize \/ Reading

Spec == Init /\ [][Next]_vars

\* An aborted exchange, refresh or read returns; the client takes its bytes.
Aborted == cause # "none" /\ (SendFails \/ RefreshFails \/ ReadEnds)

\* Time passes, timers fire, goroutines run.  The upstream owes nothing.
FairSpec ==
    /\ Spec
    /\ WF_vars(Tick)
    /\ WF_vars(FireIdle) /\ WF_vars(FireBudget)
    /\ WF_vars(OnIdle) /\ WF_vars(OnBudget)
    /\ WF_vars(Read) /\ WF_vars(Touch) /\ WF_vars(Written) /\ WF_vars(Check)
    /\ WF_vars(Stop) /\ WF_vars(Aborted)
-----------------------------------------------------------------------------
(***************************************************************************)
(* Properties.                                                             *)
(***************************************************************************)

\* Timers, reader and history keep to their types.
TypeOK ==
    /\ left \in Off..Idle /\ budget \in Budgets /\ rest \in Off..budget
    /\ age \in 0..Idle /\ quiet \in 0..(Idle + 1) /\ silent \in 0..Idle
    /\ calls \in 0..MaxCalls
    /\ budgetCall \in BOOLEAN /\ retried \in BOOLEAN /\ ready \in BOOLEAN
    /\ late \in BOOLEAN
    /\ stallErr \in {"none", "idle", "budget"}
    /\ cause \in {"none", "stall", "client"}
    /\ pc \in {"send", "refresh", "body", "touch", "write", "check", "stop", "done"}
    /\ err \in {"none", "eof", "failed", "aborted"}
    /\ result \in {"none", "eof", "failed", "aborted", "stall"}

IdleStall == stallErr = "none" /\ stallErr' = "idle"

\* The idle bound trips only when the guard has seen no bytes for at least the
\* second half of the window, although touch ignores bytes and callbacks come
\* late.
GuardIsPatient == [][IdleStall => quiet >= Idle - Half]_vars

\* The bound that is named is the one that tripped first.
OneCause == [][stallErr # "none" => stallErr' = stallErr]_vars

\* Skipped resets make no stall late: as long as everything that is due runs at
\* once, no more than a window passes without bytes.
NoStallIsMissed == ~late /\ quiet > Idle => stallErr # "none" \/ pc = "done"

\* What the README says: a stream is capped per silence, so an answer is not
\* killed while its bytes keep coming and the reader keeps taking them.
NotKilledMidFlight ==
    [][IdleStall => silent >= Idle - Half \/ ready \/ pc = "touch"]_vars

\* With a budget every generation ends, also one that trickles for ever.
EveryGenerationEnds == budget > 0 => <>(pc = "done")

=============================================================================
