---------------------------- MODULE GuardProofs ----------------------------
(***************************************************************************)
(* What is proved of IdleGuard for every window, budget and bound: a stall *)
(* takes silence, an answer whose bytes the guard sees is not killed, the  *)
(* first cause stands, and as long as nothing is late no silence outlasts  *)
(* the window.                                                                 *)
(***************************************************************************)
EXTENDS IdleGuard, TLAPS

\* Half a window is at most a window.
LEMMA HalfType == Half \in 0..Idle
<1>1. Idle \in Nat /\ Idle \div 2 \in 0..Idle
  BY GuardAssumption
<1> QED
  BY <1>1 DEF Half

\* The upstream silence is at least as old as the silence the guard sees,
\* unless bytes are on their way to the guard.
BytesInv ==
    Wrapped => ready \/ pc = "touch" \/ silent >= quiet \/ silent = Idle

\* Until the stall the age of g.last exceeds the silence by less than half a
\* window.
SkipInv == stallErr = "none" => age <= quiet \/ age - quiet < Half

IInv == TypeOK /\ SkipInv /\ BytesInv

LEMMA InitIInv == Init => IInv
<1> SUFFICES ASSUME Init PROVE IInv
  OBVIOUS
<1>1. left \in Off..Idle /\ rest \in Off..budget /\ budget \in Budgets /\ calls \in 0..MaxCalls
  BY GuardAssumption DEF Init, Off
<1>2. age \in 0..Idle /\ quiet \in 0..(Idle + 1) /\ silent \in 0..Idle
  BY GuardAssumption DEF Init
<1>3. TypeOK
  BY <1>1, <1>2 DEF Init, TypeOK
<1>4. SkipInv /\ BytesInv
  BY DEF Init, SkipInv, BytesInv
<1> QED
  BY <1>3, <1>4 DEF IInv

LEMMA StepType == ASSUME TypeOK, [Next]_vars PROVE TypeOK'
<1> USE GuardAssumption DEF TypeOK, Off
<1>1. CASE Timers
  <2>1. CASE FireIdle \/ FireBudget
    <3>1. calls' \in 0..MaxCalls
      BY <2>1 DEF FireIdle, FireBudget
    <3>2. left' \in Off..Idle /\ rest' \in Off..budget'
      BY <2>1 DEF FireIdle, FireBudget, clocks
    <3>3. budgetCall' \in BOOLEAN
      BY <2>1 DEF FireIdle, FireBudget
    <3>4. UNCHANGED <<age, stallErr, cause, budget, quiet, silent, late, reader>>
      BY <2>1 DEF FireIdle, FireBudget, clocks
    <3> QED
      BY <3>1, <3>2, <3>3, <3>4 DEF reader
  <2>2. CASE OnIdle
    <3>1. calls' \in 0..MaxCalls
      BY <2>2 DEF OnIdle
    <3>2. left' = left \/ left' = Idle
      BY <2>2 DEF OnIdle
    <3>3. stallErr' \in {"none", "idle", "budget"}
          /\ cause' \in {"none", "stall", "client"}
      BY <2>2 DEF OnIdle, Stall
    <3>4. UNCHANGED <<age, budgetCall, clocks, reader>>
      BY <2>2 DEF OnIdle
    <3> QED
      BY <3>1, <3>2, <3>3, <3>4 DEF clocks, reader
  <2>3. CASE OnBudget
    <3>1. budgetCall' = FALSE
      BY <2>3 DEF OnBudget
    <3>2. stallErr' \in {"none", "idle", "budget"}
          /\ cause' \in {"none", "stall", "client"}
      BY <2>3 DEF OnBudget, Stall
    <3>3. UNCHANGED <<left, age, calls, clocks, reader>>
      BY <2>3 DEF OnBudget
    <3> QED
      BY <3>1, <3>2, <3>3 DEF clocks, reader
  <2> QED
    BY <1>1, <2>1, <2>2, <2>3 DEF Timers
<1>2. CASE Arrive \/ ClientLeaves
  <2>1. CASE Arrive
    BY <2>1 DEF Arrive, guard
  <2>2. CASE ClientLeaves
    BY <2>2 DEF ClientLeaves, clocks, reader
  <2> QED
    BY <1>2, <2>1, <2>2
<1>3. CASE Tick
  <2>1. left' \in Off..Idle
    BY <1>3 DEF Tick, Sooner
  <2>2. budget \in Nat /\ budget' = budget
    BY <1>3 DEF Tick
  <2>3. rest' \in Off..budget'
    BY <1>3, <2>2 DEF Tick, Sooner
  <2>4. age' \in 0..Idle /\ quiet' \in 0..(Idle + 1) /\ silent' \in 0..Idle
    BY <1>3 DEF Tick, Older
  <2>5. late' \in BOOLEAN
    BY <1>3 DEF Tick, Due
  <2>6. UNCHANGED <<calls, budgetCall, stallErr, cause, reader>>
    BY <1>3 DEF Tick
  <2> QED
    BY <2>1, <2>2, <2>3, <2>4, <2>5, <2>6 DEF reader
<1>4. CASE Exchange
  <2>1. CASE Answer
    BY <2>1 DEF Answer, guard, clocks
  <2>2. CASE BadStatus
    BY <2>2 DEF BadStatus, Return, guard, clocks
  <2>3. CASE SendFails
    <3>1. result' \in {"failed", "aborted", "stall"}
      BY <2>3 DEF SendFails, Return, Report, Failures
    <3>2. pc' = "stop" /\ UNCHANGED <<guard, clocks, retried, ready, err>>
      BY <2>3 DEF SendFails, Return
    <3> QED
      BY <3>1, <3>2 DEF guard, clocks
  <2> QED
    BY <1>4, <2>1, <2>2, <2>3 DEF Exchange
<1>5. CASE Reauthorize
  <2>1. CASE Unauthorized \/ Refreshed
    <3>1. pc' \in {"refresh", "send"}
      BY <2>1 DEF Unauthorized, Refreshed
    <3>2. retried' \in BOOLEAN
      BY <2>1 DEF Unauthorized, Refreshed
    <3>3. UNCHANGED <<guard, clocks, ready, err, result>>
      BY <2>1 DEF Unauthorized, Refreshed
    <3> QED
      BY <3>1, <3>2, <3>3 DEF guard, clocks
  <2>2. CASE RefreshFails
    BY <2>2 DEF RefreshFails, Return, guard, clocks
  <2> QED
    BY <1>5, <2>1, <2>2 DEF Reauthorize
<1>6. CASE Reading
  <2>1. CASE Read \/ ReadEnds
    BY ZenonT(60), <2>1 DEF Read, ReadEnds, Failures, guard, clocks
  <2>2. CASE Touch
    BY <2>2, HalfType DEF Touch
  <2>3. CASE Written \/ WriteFails
    BY <2>3 DEF Written, WriteFails, Return, guard, clocks
  <2>4. CASE Check
    BY <2>4 DEF Check, Return, Report, guard, clocks
  <2>5. CASE Stop
    BY <2>5 DEF Stop
  <2> QED
    BY <1>6, <2>1, <2>2, <2>3, <2>4, <2>5 DEF Reading
<1>7. CASE UNCHANGED vars
  BY <1>7 DEF vars, guard, clocks, reader
<1> QED
  BY <1>1, <1>2, <1>3, <1>4, <1>5, <1>6, <1>7 DEF Next

\* Only the clock and touch move the two ages.
LEMMA StepSkip == ASSUME TypeOK, SkipInv, [Next]_vars PROVE SkipInv'
<1>0. age \in 0..Idle /\ quiet \in 0..(Idle + 1) /\ Idle \in Nat /\ Half \in 0..Idle
  BY GuardAssumption, HalfType DEF TypeOK
<1>1. CASE Tick
  <2>1. stallErr' = stallErr /\ age' = Older(age, Idle) /\ quiet' = Older(quiet, Idle + 1)
    BY <1>1 DEF Tick
  <2> QED
    BY <1>0, <2>1 DEF SkipInv, Older, Half
<1>2. CASE Touch
  <2>1. stallErr' = stallErr /\ quiet' = 0
    BY <1>2 DEF Touch
  <2>2. age' = 0 \/ (age' = age /\ (age < Half \/ stallErr # "none"))
    BY <1>2 DEF Touch
  <2>3. Half' = Half
    BY DEF Half
  <2>4. CASE age' = 0
    BY <2>1, <2>4 DEF SkipInv
  <2>5. CASE age' = age /\ age < Half
    BY <1>0, <2>1, <2>3, <2>5 DEF SkipInv
  <2>6. CASE age' = age /\ stallErr # "none"
    BY <2>1, <2>6 DEF SkipInv
  <2> QED
    BY <2>2, <2>4, <2>5, <2>6
<1>3. ASSUME UNCHANGED <<age, quiet>>, stallErr' = "none" => stallErr = "none"
      PROVE  SkipInv'
  BY <1>3 DEF SkipInv, Half
<1>4. CASE Timers \/ Arrive \/ ClientLeaves
  BY <1>3, <1>4 DEF Timers, FireIdle, FireBudget, OnIdle, OnBudget, Stall,
                    clocks, guard, Arrive, ClientLeaves
<1>5. CASE Exchange \/ Reauthorize
  BY <1>3, <1>5 DEF Exchange, Answer, BadStatus, SendFails, Reauthorize,
                    Unauthorized, Refreshed, RefreshFails, clocks, guard
<1>6. CASE Read \/ ReadEnds \/ Written \/ WriteFails \/ Check \/ Stop
  BY <1>3, <1>6 DEF Read, ReadEnds, Written, WriteFails, Check, Stop, clocks, guard
<1>7. CASE UNCHANGED vars
  BY <1>3, <1>7 DEF vars, guard, clocks
<1> QED
  BY <1>1, <1>2, <1>4, <1>5, <1>6, <1>7 DEF Next, Reading

\* Bytes leave the socket for the guard, and the guard for silence.
LEMMA StepBytes == ASSUME TypeOK, BytesInv, [Next]_vars PROVE BytesInv'
<1>0. silent \in 0..Idle /\ quiet \in 0..(Idle + 1) /\ Idle \in Nat
  BY GuardAssumption DEF TypeOK
<1>1. SUFFICES ASSUME Wrapped
               PROVE  (ready \/ pc = "touch" \/ silent >= quiet \/ silent = Idle)'
  BY DEF BytesInv, Wrapped
<1>2. ready \/ pc = "touch" \/ silent >= quiet \/ silent = Idle
  BY <1>1 DEF BytesInv
<1>3. CASE Tick
  <2>1. ready' = ready /\ pc' = pc /\ silent' = Older(silent, Idle)
        /\ quiet' = Older(quiet, Idle + 1)
    BY <1>3 DEF Tick, reader
  <2> QED
    BY <1>0, <1>2, <2>1 DEF Older
<1>4. CASE Touch
  <2>1. quiet' = 0 /\ silent' = silent
    BY <1>4 DEF Touch
  <2> QED
    BY <1>0, <2>1
<1>5. CASE Read
  BY <1>1, <1>5 DEF Read, Wrapped, Guarded
<1>6. CASE Arrive
  BY <1>6 DEF Arrive
<1>7. ASSUME UNCHANGED <<ready, silent, quiet>>, pc = "touch" => pc' = "touch"
      PROVE  (ready \/ pc = "touch" \/ silent >= quiet \/ silent = Idle)'
  BY <1>2, <1>7
<1>8. CASE Timers \/ ClientLeaves
  BY <1>7, <1>8 DEF Timers, FireIdle, FireBudget, OnIdle, OnBudget, ClientLeaves,
                    clocks, reader
<1>9. CASE Exchange \/ Reauthorize
  BY <1>1, <1>7, <1>9 DEF Exchange, Answer, BadStatus, SendFails, Reauthorize,
       Unauthorized, Refreshed, RefreshFails, Return, clocks, guard, Wrapped
<1>10. CASE ReadEnds \/ Written \/ WriteFails \/ Check \/ Stop
  BY <1>7, <1>10 DEF ReadEnds, Written, WriteFails, Check, Stop, Return, clocks, guard
<1>11. CASE UNCHANGED vars
  BY <1>7, <1>11 DEF vars, clocks, reader
<1> QED
  BY <1>3, <1>4, <1>5, <1>6, <1>8, <1>9, <1>10, <1>11 DEF Next, Reading

LEMMA Invariant == Spec => []IInv
<1>1. IInv /\ [Next]_vars => IInv'
  BY StepType, StepSkip, StepBytes DEF IInv
<1> QED
  BY InitIInv, <1>1, PTL DEF Spec

\* Timers, reader and history keep to their types.
THEOREM TypeCorrect == Spec => []TypeOK
<1>1. IInv => TypeOK
  BY DEF IInv
<1> QED
  BY Invariant, <1>1, PTL

\* Only onIdle records an idle stall, and it has looked at the age.
LEMMA IdleStallStep ==
    ASSUME TypeOK, Next, IdleStall
    PROVE  OnIdle /\ age = Idle
<1>1. stallErr = "none" /\ stallErr' = "idle"
  BY DEF IdleStall
<1>2. CASE OnIdle
  BY <1>1, <1>2, GuardAssumption DEF OnIdle, TypeOK
<1>3. CASE OnBudget
  BY <1>1, <1>3 DEF OnBudget, Stall
<1>4. CASE FireIdle \/ FireBudget \/ Arrive \/ ClientLeaves \/ Tick
  BY <1>1, <1>4 DEF FireIdle, FireBudget, Arrive, ClientLeaves, Tick, guard
<1>5. CASE Exchange \/ Reauthorize
  BY <1>1, <1>5 DEF Exchange, Answer, BadStatus, SendFails, Reauthorize,
                    Unauthorized, Refreshed, RefreshFails, guard
<1>6. CASE Reading
  BY <1>1, <1>6 DEF Reading, Read, ReadEnds, Touch, Written, WriteFails, Check,
                    Stop, guard
<1> QED
  BY <1>2, <1>3, <1>4, <1>5, <1>6 DEF Next, Timers

\* The idle bound trips only after at least the second half of the window
\* without bytes, whatever touch skips and however late the callback runs.
THEOREM Patience == Spec => GuardIsPatient
<1>1. IInv /\ [Next]_vars => [IdleStall => quiet >= Idle - Half]_vars
  <2> SUFFICES ASSUME IInv, Next, IdleStall PROVE quiet >= Idle - Half
    OBVIOUS
  <2>1. age = Idle /\ stallErr = "none"
    BY IdleStallStep DEF IInv, IdleStall
  <2>2. age <= quiet \/ age - quiet < Half
    BY <2>1 DEF IInv, SkipInv
  <2> QED
    BY <2>1, <2>2, HalfType, GuardAssumption DEF IInv, TypeOK
<1> QED
  BY Invariant, <1>1, PTL DEF Spec, GuardIsPatient

\* A provider that wraps its body never kills an answer whose bytes keep coming
\* while its reader keeps taking them.
THEOREM LongAnswersLive == ASSUME Wrapped PROVE Spec => NotKilledMidFlight
<1>1. IInv /\ [Next]_vars
      => [IdleStall => silent >= Idle - Half \/ ready \/ pc = "touch"]_vars
  <2> SUFFICES ASSUME IInv, Next, IdleStall, ~ready, pc # "touch"
               PROVE  silent >= Idle - Half
    OBVIOUS
  <2>1. age = Idle /\ stallErr = "none"
    BY IdleStallStep DEF IInv, IdleStall
  <2>2. age <= quiet \/ age - quiet < Half
    BY <2>1 DEF IInv, SkipInv
  <2>3. silent >= quiet \/ silent = Idle
    BY DEF IInv, BytesInv
  <2> QED
    BY <2>1, <2>2, <2>3, HalfType, GuardAssumption DEF IInv, TypeOK
<1> QED
  BY Invariant, <1>1, PTL DEF Spec, NotKilledMidFlight

\* The bound that is named is the one that tripped first.
THEOREM FirstCauseStands == Spec => OneCause
<1>1. ASSUME Next, stallErr # "none" PROVE stallErr' = stallErr
  <2>1. CASE Timers
    BY <1>1, <2>1 DEF Timers, FireIdle, FireBudget, OnIdle, OnBudget, Stall
  <2>2. CASE Arrive \/ ClientLeaves \/ Tick
    BY <2>2 DEF Arrive, ClientLeaves, Tick, guard
  <2>3. CASE Exchange \/ Reauthorize
    BY <2>3 DEF Exchange, Answer, BadStatus, SendFails, Reauthorize,
                Unauthorized, Refreshed, RefreshFails, guard
  <2>4. CASE Reading
    BY <2>4 DEF Reading, Read, ReadEnds, Touch, Written, WriteFails, Check,
                Stop, guard
  <2> QED
    BY <1>1, <2>1, <2>2, <2>3, <2>4 DEF Next
<1>2. [Next]_vars => [stallErr # "none" => stallErr' = stallErr]_vars
  BY <1>1
<1> QED
  BY <1>2, PTL DEF Spec, OneCause
-----------------------------------------------------------------------------
(***************************************************************************)
(* As long as nothing is late, the idle timer and the age of g.last add up *)
(* to the window, and only a callback that waits for the lock is without a *)
(* timer.                                                                  *)
(***************************************************************************)
ClockInv ==
    /\ left # Off => age + left = Idle
    /\ left = Off => calls > 0
    /\ calls > 0 => age = Idle \/ age = 0
    /\ quiet <= age

PromptInv == ~late /\ stallErr = "none" /\ pc # "done" => ClockInv

LEMMA InitPrompt == ASSUME Guarded PROVE Init => PromptInv
BY GuardAssumption DEF Init, PromptInv, ClockInv, Off, Guarded

LEMMA StepPrompt ==
    ASSUME TypeOK, PromptInv, [Next]_vars
    PROVE  PromptInv'
<1> SUFFICES ASSUME ~late', stallErr' = "none", pc' # "done" PROVE ClockInv'
  BY DEF PromptInv
<1>0. /\ age \in 0..Idle /\ left \in Off..Idle /\ calls \in 0..MaxCalls
      /\ quiet \in 0..(Idle + 1) /\ Idle \in Nat \ {0} /\ MaxCalls \in Nat
  BY GuardAssumption DEF TypeOK
<1>1. ASSUME ClockInv, UNCHANGED <<left, age, calls, quiet>> PROVE ClockInv'
  BY <1>1 DEF ClockInv, Off
<1>2. ASSUME ~late, stallErr = "none", pc # "done" PROVE ClockInv
  BY <1>2 DEF PromptInv
<1>3. CASE Tick
  <2>1. ~late /\ stallErr = "none" /\ pc # "done" /\ left # 0 /\ ~(calls > 0)
    BY <1>3 DEF Tick, Due, reader
  <2>2. left # Off /\ left > 0 /\ age + left = Idle /\ quiet <= age
    BY <1>0, <1>2, <2>1 DEF ClockInv, Off
  <2>3. left' = left - 1 /\ age' = age + 1 /\ quiet' = quiet + 1 /\ calls' = calls
    BY <1>0, <1>3, <2>2 DEF Tick, Older, Sooner
  <2> QED
    BY <1>0, <2>1, <2>2, <2>3 DEF ClockInv, Off
<1>4. CASE FireIdle
  <2>1. ~late /\ stallErr = "none" /\ pc # "done"
    BY <1>4 DEF FireIdle, clocks, reader
  <2> QED
    BY <1>0, <1>2, <1>4, <2>1 DEF FireIdle, clocks, ClockInv, Off
<1>5. CASE OnIdle
  <2>1. /\ ~late /\ stallErr = "none" /\ pc # "done"
        /\ age < Idle /\ left' = Idle
    BY <1>5 DEF OnIdle, Stall, clocks, reader
  <2>2. age = 0 /\ quiet <= age /\ calls > 0
    BY <1>0, <1>2, <1>5, <2>1 DEF OnIdle, ClockInv
  <2>3. age' = 0 /\ quiet' = quiet
    BY <1>5, <2>2 DEF OnIdle, clocks
  <2> QED
    BY <1>0, <2>1, <2>2, <2>3 DEF ClockInv, Off
<1>6. CASE Touch
  <2>1. ~late /\ stallErr = "none" /\ pc # "done" /\ quiet' = 0 /\ calls' = calls
    BY <1>6 DEF Touch
  <2>2. \/ UNCHANGED <<left, age>>
        \/ left' = Idle /\ age' = 0
    BY <1>6 DEF Touch
  <2> QED
    BY <1>0, <1>2, <2>1, <2>2 DEF ClockInv, Off
<1>7. CASE FireBudget \/ OnBudget \/ Arrive \/ ClientLeaves
  BY <1>1, <1>2, <1>7 DEF FireBudget, OnBudget, Stall, Arrive, ClientLeaves,
                          guard, clocks, reader
<1>8. CASE Exchange \/ Reauthorize
  BY <1>1, <1>2, <1>8 DEF Exchange, Answer, BadStatus, SendFails, Reauthorize,
       Unauthorized, Refreshed, RefreshFails, Return, guard, clocks
<1>9. CASE Read \/ ReadEnds \/ Written \/ WriteFails \/ Check
  BY <1>1, <1>2, <1>9 DEF Read, ReadEnds, Written, WriteFails, Check, Return,
                          guard, clocks
<1>10. CASE Stop
  BY <1>10 DEF Stop
<1>11. CASE UNCHANGED vars
  BY <1>1, <1>2, <1>11 DEF vars, guard, clocks, reader
<1> QED
  BY <1>3, <1>4, <1>5, <1>6, <1>7, <1>8, <1>9, <1>10, <1>11
     DEF Next, Timers, Reading

\* As long as nothing is late no guarded stream is silent for longer than the
\* window, although touch skips most resets of the timer.
THEOREM NoLateStall == ASSUME Guarded PROVE Spec => []NoStallIsMissed
<1>1. PromptInv /\ TypeOK /\ [Next]_vars => PromptInv'
  BY StepPrompt
<1>2. PromptInv /\ TypeOK => NoStallIsMissed
  BY GuardAssumption DEF PromptInv, ClockInv, TypeOK, NoStallIsMissed
<1> QED
  BY InitPrompt, TypeCorrect, <1>1, <1>2, PTL DEF Spec
=============================================================================
