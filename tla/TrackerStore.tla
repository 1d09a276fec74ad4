---------------------------- MODULE TrackerStore ----------------------------
(***************************************************************************)
(* The drains of the Tracker and their file.  A mutation changes the map   *)
(* under the lock and then asks for a save through a channel that holds    *)
(* one token; persistLoop takes the token, copies the live drains and      *)
(* writes them.  The process can die at any moment: nothing flushes on the *)
(* way down, and a restart loads what the file holds.                      *)
(***************************************************************************)
EXTENDS Integers

CONSTANTS
    Callers,   \* the goroutines that mark and clear drains
    Flushers,  \* the goroutines that call Flush
    Targets,
    TTLs,      \* the drain TTLs they ask for
    Torn,      \* what a file that was not written to its end holds
    DiskFails, \* whether chmod and write may fail
    MaxTime    \* bound: the last tick

Content == [Targets -> Nat]

ASSUME TrackerAssumption ==
    /\ TTLs \subseteq Nat
    /\ Torn \notin Content
    /\ DiskFails \in BOOLEAN
    /\ MaxTime \in Nat

VARIABLES
    now,     \* the clock
    up,      \* the process runs
    drains,  \* drains[t]: until when t is drained, 0 for no entry
    pc,      \* pc[c]: "idle", or "signal" between mutation and schedulePersist
    save,    \* the token in the save channel
    loop,    \* where persistLoop is
    snap,    \* the entries it is about to write
    file,    \* the content of the drain file
    flush,   \* flush[f]: "idle", "asked", or "taken" by the loop
    touched, \* history: the targets mutated since flush[f] was asked
    failed   \* history: the last save failed

vars == <<now, up, drains, pc, save, loop, snap, file, flush, touched, failed>>

Live(m) == [t \in Targets |-> IF m[t] > now THEN m[t] ELSE 0]
Nothing == [t \in Targets |-> 0]
OnDisk == IF file = Torn THEN Nothing ELSE file

Init ==
    /\ now = 0
    /\ up = TRUE
    /\ drains = Nothing
    /\ pc = [c \in Callers |-> "idle"]
    /\ save = FALSE
    /\ loop = "wait"
    /\ snap = Nothing
    /\ file = Nothing
    /\ flush = [f \in Flushers |-> "idle"]
    /\ touched = [f \in Flushers |-> {}]
    /\ failed = FALSE
-----------------------------------------------------------------------------
\* The part of a mutation under the lock: T are the targets it changes.
Mutate(c, T, until) ==
    /\ up /\ pc[c] = "idle"
    /\ drains' = [t \in Targets |-> IF t \in T THEN until ELSE drains[t]]
    /\ pc' = [pc EXCEPT ![c] = "signal"]
    /\ touched' = [f \in Flushers |-> touched[f] \cup T]
    /\ UNCHANGED <<now, up, save, loop, snap, file, flush, failed>>

\* A TTL of zero returns early.
MarkDrained(c, t, ttl) == ttl > 0 /\ Mutate(c, {t}, now + ttl)

Clear(c, t) == Mutate(c, {t}, 0)
ClearAll(c) == Mutate(c, Targets, 0)

\* mutant: a save in progress is taken for the one that is asked for
SignalIfWaiting(c) ==
    /\ up /\ pc[c] = "signal"
    /\ pc' = [pc EXCEPT ![c] = "idle"]
    /\ save' = (save \/ loop = "wait")
    /\ UNCHANGED <<now, up, drains, loop, snap, file, flush, touched, failed>>

\* schedulePersist: one token is enough, further ones are dropped.
SchedulePersist(c) ==
    /\ up /\ pc[c] = "signal"
    /\ pc' = [pc EXCEPT ![c] = "idle"]
    /\ save' = TRUE
    /\ UNCHANGED <<now, up, drains, loop, snap, file, flush, touched, failed>>

\* Flush offers its channel to the loop and waits.
Flush(f) ==
    /\ up /\ flush[f] = "idle"
    /\ flush' = [flush EXCEPT ![f] = "asked"]
    /\ touched' = [touched EXCEPT ![f] = {}]
    /\ UNCHANGED <<now, up, drains, pc, save, loop, snap, file, failed>>
-----------------------------------------------------------------------------
\* persistLoop.
TakeSave ==
    /\ up /\ loop = "wait" /\ save
    /\ save' = FALSE
    /\ loop' = "snapshot"
    /\ UNCHANGED <<now, up, drains, pc, snap, file, flush, touched, failed>>

TakeFlush(f) ==
    /\ up /\ loop = "wait" /\ flush[f] = "asked"
    /\ flush' = [flush EXCEPT ![f] = "taken"]
    /\ loop' = "drop"
    /\ UNCHANGED <<now, up, drains, pc, save, snap, file, touched, failed>>

\* mutant: a flush with no save pending has nothing to do
DropSaveAndSkip ==
    /\ up /\ loop = "drop"
    /\ save' = FALSE
    /\ loop' = IF save THEN "snapshot" ELSE "wait"
    /\ flush' = IF save THEN flush ELSE [f \in Flushers |->
                   IF flush[f] = "taken" THEN "idle" ELSE flush[f]]
    /\ UNCHANGED <<now, up, drains, pc, snap, file, touched, failed>>

\* The save that is pending is covered by the one that follows.
DropSave ==
    /\ up /\ loop = "drop"
    /\ save' = FALSE
    /\ loop' = "snapshot"
    /\ UNCHANGED <<now, up, drains, pc, snap, file, flush, touched, failed>>

\* persist copies the live entries under the read lock.
Snapshot ==
    /\ up /\ loop = "snapshot"
    /\ snap' = Live(drains)
    /\ loop' = "write"
    /\ UNCHANGED <<now, up, drains, pc, save, file, flush, touched, failed>>

\* os.WriteFile truncates the file before it writes.
Truncate ==
    /\ up /\ loop = "write"
    /\ file' = Torn
    /\ loop' = "torn"
    /\ UNCHANGED <<now, up, drains, pc, save, snap, flush, touched, failed>>

\* The loop waits again; a Flush that it took returns.
Resume ==
    /\ loop' = "wait"
    /\ flush' = [f \in Flushers |-> IF flush[f] = "taken" THEN "idle" ELSE flush[f]]
    /\ UNCHANGED <<now, up, drains, pc, snap, touched>>

\* mutant: the pending save is dropped after the write
WriteAndDrop ==
    /\ up /\ loop = "torn"
    /\ file' = snap
    /\ failed' = FALSE
    /\ save' = FALSE
    /\ Resume

Write ==
    /\ up /\ loop = "torn"
    /\ file' = snap
    /\ failed' = FALSE
    /\ Resume
    /\ UNCHANGED save

\* An error of chmod or of the write is dropped; the write leaves a torn file.
WriteFails ==
    /\ DiskFails
    /\ up /\ loop \in {"write", "torn"}
    /\ Resume
    /\ failed' = TRUE
    /\ UNCHANGED <<file, save>>
-----------------------------------------------------------------------------
\* The process ends: nothing is flushed.  The variables of the process keep the
\* values it died with until the next one starts.
Crash ==
    /\ up
    /\ up' = FALSE
    /\ UNCHANGED <<now, drains, pc, save, loop, snap, file, flush, touched,
                   failed>>

\* mutant: load keeps the entries that are over
LoadExpired == [t \in Targets |-> IF OnDisk[t] > now THEN 0 ELSE OnDisk[t]]

\* load keeps the entries that are not over; a torn file has none.
Load == Live(OnDisk)

Restart ==
    /\ ~up
    /\ up' = TRUE
    /\ drains' = Load
    /\ pc' = [c \in Callers |-> "idle"]
    /\ save' = FALSE
    /\ loop' = "wait"
    /\ snap' = Nothing
    /\ flush' = [f \in Flushers |-> "idle"]
    /\ touched' = [f \in Flushers |-> {}]
    /\ failed' = FALSE
    /\ UNCHANGED <<now, file>>

Tick ==
    /\ now < MaxTime
    /\ now' = now + 1
    /\ UNCHANGED <<up, drains, pc, save, loop, snap, file, flush, touched,
                   failed>>

Edit(c) ==
    \/ \E t \in Targets : Clear(c, t) \/ \E ttl \in TTLs : MarkDrained(c, t, ttl)
    \/ ClearAll(c)

PersistLoop ==
    \/ TakeSave \/ (\E f \in Flushers : TakeFlush(f)) \/ DropSave
    \/ Snapshot \/ Truncate \/ Write \/ WriteFails

Next ==
    \/ \E c \in Callers : Edit(c) \/ SchedulePersist(c)
    \/ \E f \in Flushers : Flush(f)
    \/ PersistLoop \/ Crash \/ Restart \/ Tick

Spec == Init /\ [][Next]_vars

\* The runtime schedules the loop and the callers; a disk that can work does in
\* the end; a select with two ready cases takes each of them now and then.
FairSpec ==
    /\ Spec
    /\ WF_vars(PersistLoop) /\ SF_vars(TakeSave)
    /\ \A c \in Callers : WF_vars(SchedulePersist(c))
    /\ \A f \in Flushers : SF_vars(TakeFlush(f))
-----------------------------------------------------------------------------
(***************************************************************************)
(* Properties.                                                             *)
(***************************************************************************)

\* Memory, file and loop keep to their types.
TypeOK ==
    /\ now \in Nat /\ {up, save, failed} \subseteq BOOLEAN
    /\ drains \in Content /\ snap \in Content /\ file \in Content \cup {Torn}
    /\ pc \in [Callers -> {"idle", "signal"}]
    /\ loop \in {"wait", "drop", "snapshot", "write", "torn"}
    /\ flush \in [Flushers -> {"idle", "asked", "taken"}]
    /\ touched \in [Flushers -> SUBSET Targets]

Settled == (\A c \in Callers : pc[c] = "idle") /\ ~save /\ loop = "wait"

\* No wake-up is lost: when no mutation is under way, no token is pending and
\* the loop waits, the file holds exactly the live drains of the memory,
\* however mutations, saves and flushes overlapped before; a save that failed
\* is made good by the next one.
QuietMeansSaved == Settled /\ ~failed => Live(OnDisk) = Live(drains)

\* A process that dies in a quiet moment comes back with the drains it had.
RestartKeepsDrains ==
    [][Restart /\ Settled /\ ~failed => drains' = Live(drains)]_vars

\* When Flush returns, the file holds every drain that was there when it was
\* called, apart from those that have been changed since, unless its own write
\* failed.
FlushSaves ==
    [][\A f \in Flushers :
         up /\ flush[f] = "taken" /\ flush'[f] = "idle" /\ ~failed' /\ up' =>
         \A t \in Targets \ touched[f] : drains[t] > now => file'[t] = drains[t]]_vars

\* Every drain reaches the file, unless it is changed or over by then, a save
\* fails, or the process dies.
DrainReachesDisk ==
    \A t \in Targets : \A until \in 1..(MaxTime + 3) :
        drains[t] = until /\ until > now
          ~> OnDisk[t] = until \/ drains[t] # until \/ until <= now
             \/ failed \/ ~up
=============================================================================
