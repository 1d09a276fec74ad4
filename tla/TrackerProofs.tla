--------------------------- MODULE TrackerProofs ---------------------------
(***************************************************************************)
(* What is proved of TrackerStore for every set of callers, flushers,      *)
(* targets and TTLs, with crashes and failing disks: no request for a save *)
(* is lost, a quiet process loses nothing when it dies, and a Flush that   *)
(* returns has saved what it promises.                                     *)
(***************************************************************************)
EXTENDS TrackerStore, TLAPS

\* The live part of a content is a content, and taking it twice changes nothing.
LEMMA LiveTwice ==
    ASSUME now \in Nat, NEW m \in Content
    PROVE  Live(m) \in Content /\ Live(Live(m)) = Live(m)
BY DEF Live, Content

\* Two contents with the same live entries keep them as time passes.
LEMMA LiveLater ==
    ASSUME now \in Nat, now' = now + 1, NEW a \in Content, NEW b \in Content,
           Live(a) = Live(b)
    PROVE  Live(a)' = Live(b)'
<1>1. ASSUME NEW t \in Targets
      PROVE  (IF a[t] > now' THEN a[t] ELSE 0) = (IF b[t] > now' THEN b[t] ELSE 0)
  <2>1. (IF a[t] > now THEN a[t] ELSE 0) = (IF b[t] > now THEN b[t] ELSE 0)
    BY DEF Live
  <2>2. a[t] \in Nat /\ b[t] \in Nat
    BY DEF Content
  <2> QED
    BY <2>1, <2>2
<1> QED
  BY <1>1 DEF Live

-----------------------------------------------------------------------------
(***************************************************************************)
(* The inductive invariant.  SyncInv says where the news of a mutation is  *)
(* on its way to the file: in a caller, in the token, in the loop before   *)
(* it takes its copy, in that copy, or in the file.                        *)
(***************************************************************************)
SyncInv ==
    ~save /\ (\A c \in Callers : pc[c] = "idle") =>
        \/ loop \in {"drop", "snapshot"}
        \/ loop \in {"write", "torn"} /\ Live(snap) = Live(drains)
        \/ loop = "wait" /\ (failed \/ Live(OnDisk) = Live(drains))

FlushInv ==
    \A f \in Flushers : flush[f] = "taken" =>
        /\ loop # "wait"
        /\ loop \in {"write", "torn"} =>
              \A t \in Targets \ touched[f] : drains[t] > now => snap[t] = drains[t]

IInv == TypeOK /\ SyncInv /\ FlushInv

LEMMA OnDiskType == TypeOK => OnDisk \in Content
BY DEF TypeOK, OnDisk, Content, Nothing

LEMMA InitIInv == Init => IInv
<1> SUFFICES ASSUME Init PROVE IInv
  OBVIOUS
<1>1. TypeOK
  BY DEF Init, TypeOK, Content, Nothing
<1>2. OnDisk = drains
  BY TrackerAssumption DEF Init, OnDisk
<1>3. SyncInv /\ FlushInv
  BY <1>2 DEF Init, SyncInv, FlushInv
<1> QED
  BY <1>1, <1>3 DEF IInv

\* A mutation is remembered by its caller, whatever it changes.
LEMMA MutateStep ==
    ASSUME IInv, NEW c \in Callers, NEW T \in SUBSET Targets, NEW until \in Nat,
           Mutate(c, T, until)
    PROVE  IInv'
<1>1. TypeOK'
  BY DEF IInv, TypeOK, Mutate, Content
<1>2. pc'[c] = "signal"
  BY DEF IInv, TypeOK, Mutate
<1>3. SyncInv'
  BY <1>2 DEF SyncInv
<1>4. FlushInv'
  <2> SUFFICES ASSUME NEW f \in Flushers, flush'[f] = "taken"
               PROVE  /\ loop' # "wait"
                      /\ loop' \in {"write", "torn"} =>
                            \A t \in Targets \ touched'[f] :
                               drains'[t] > now' => snap'[t] = drains'[t]
    BY DEF FlushInv
  <2>1. \A t \in Targets \ touched'[f] : t \notin touched[f] /\ drains'[t] = drains[t]
    BY DEF Mutate
  <2> QED
    BY <2>1 DEF IInv, FlushInv, Mutate
<1> QED
  BY <1>1, <1>3, <1>4 DEF IInv

LEMMA Inductive == IInv /\ [Next]_vars => IInv'
<1> SUFFICES ASSUME IInv, [Next]_vars PROVE IInv'
  OBVIOUS
<1>a. TypeOK /\ SyncInv /\ FlushInv
  BY DEF IInv
<1>b. now \in Nat /\ drains \in Content /\ snap \in Content /\ OnDisk \in Content
  BY <1>a, OnDiskType DEF TypeOK
<1>1. ASSUME NEW c \in Callers, Edit(c) PROVE IInv'
  <2>1. \A t \in Targets : {t} \in SUBSET Targets
    OBVIOUS
  <2>2. ASSUME NEW t \in Targets, Clear(c, t) PROVE IInv'
    BY <2>1, <2>2, MutateStep DEF Clear
  <2>3. ASSUME NEW t \in Targets, NEW ttl \in TTLs, MarkDrained(c, t, ttl) PROVE IInv'
    <3>1. now + ttl \in Nat
      BY <1>b, TrackerAssumption
    <3> QED
      BY <2>1, <2>3, <3>1, MutateStep DEF MarkDrained
  <2>4. ASSUME ClearAll(c) PROVE IInv'
    BY <2>4, MutateStep DEF ClearAll
  <2> QED
    BY <1>1, <2>2, <2>3, <2>4 DEF Edit
<1>2. ASSUME NEW c \in Callers, SchedulePersist(c) PROVE IInv'
  BY <1>a, <1>2 DEF IInv, TypeOK, SyncInv, FlushInv, SchedulePersist
<1>3. ASSUME NEW f \in Flushers, Flush(f) PROVE IInv'
  <2>1. TypeOK' /\ FlushInv'
    BY <1>a, <1>3 DEF TypeOK, FlushInv, Flush
  <2>2. SyncInv'
    BY <1>a, <1>3 DEF SyncInv, Flush, Live, OnDisk
  <2> QED
    BY <2>1, <2>2 DEF IInv
<1>4. ASSUME TakeSave PROVE IInv'
  BY <1>a, <1>4 DEF IInv, TypeOK, SyncInv, FlushInv, TakeSave
<1>5. ASSUME NEW f \in Flushers, TakeFlush(f) PROVE IInv'
  BY <1>a, <1>5 DEF IInv, TypeOK, SyncInv, FlushInv, TakeFlush
<1>6. ASSUME DropSave PROVE IInv'
  BY <1>a, <1>6 DEF IInv, TypeOK, SyncInv, FlushInv, DropSave
<1>7. ASSUME Snapshot PROVE IInv'
  <2>1. Live(drains) \in Content /\ Live(Live(drains)) = Live(drains)
    BY <1>b, LiveTwice
  <2>2. TypeOK'
    BY <1>a, <1>7, <2>1 DEF TypeOK, Snapshot
  <2>3. Live(snap)' = Live(drains)'
    BY <1>7, <2>1 DEF Snapshot, Live
  <2>4. \A t \in Targets : drains[t] > now => snap'[t] = drains[t]
    BY <1>7 DEF Snapshot, Live
  <2>5. SyncInv' /\ FlushInv'
    BY <1>a, <1>7, <2>3, <2>4 DEF SyncInv, FlushInv, Snapshot
  <2> QED
    BY <2>2, <2>5 DEF IInv
<1>8. ASSUME Truncate PROVE IInv'
  <2>1. TypeOK' /\ FlushInv'
    BY <1>a, <1>8 DEF TypeOK, FlushInv, Truncate
  <2>2. SyncInv'
    BY <1>a, <1>8 DEF SyncInv, Truncate, Live
  <2> QED
    BY <2>1, <2>2 DEF IInv
<1>9. ASSUME Write PROVE IInv'
  <2>1. TypeOK'
    BY <1>a, <1>9 DEF TypeOK, Write, Resume
  <2>2. \A f \in Flushers : flush'[f] # "taken"
    BY <1>a, <1>9 DEF TypeOK, Write, Resume
  <2>3. OnDisk' = snap
    BY <1>b, <1>9, TrackerAssumption DEF OnDisk, Write
  <2>4. SyncInv'
    BY <1>a, <1>9, <2>3 DEF SyncInv, Write, Resume, Live
  <2> QED
    BY <2>1, <2>2, <2>4 DEF IInv, FlushInv
<1>10. ASSUME WriteFails PROVE IInv'
  <2>1. TypeOK'
    BY <1>a, <1>10 DEF TypeOK, WriteFails, Resume
  <2>2. \A f \in Flushers : flush'[f] # "taken"
    BY <1>a, <1>10 DEF TypeOK, WriteFails, Resume
  <2>3. SyncInv'
    BY <1>10 DEF SyncInv, WriteFails, Resume
  <2> QED
    BY <2>1, <2>2, <2>3 DEF IInv, FlushInv
<1>11. ASSUME Crash PROVE IInv'
  BY <1>a, <1>11 DEF IInv, TypeOK, SyncInv, FlushInv, Crash, Live, OnDisk
<1>12. ASSUME Restart PROVE IInv'
  <2>1. Load \in Content /\ Live(Load) = Load
    BY <1>b, LiveTwice DEF Load
  <2>2. TypeOK' /\ FlushInv'
    BY <1>a, <1>12, <2>1 DEF TypeOK, FlushInv, Restart, Content, Nothing
  <2>3. Live(OnDisk)' = Live(drains)'
    BY <1>12, <2>1 DEF Restart, Load, Live, OnDisk
  <2>4. SyncInv'
    BY <1>12, <2>3 DEF SyncInv, Restart
  <2> QED
    BY <2>2, <2>4 DEF IInv
<1>13. ASSUME Tick PROVE IInv'
  <2>1. TypeOK' /\ FlushInv'
    BY <1>a, <1>13 DEF TypeOK, FlushInv, Tick, Content
  <2>2. now' = now + 1 /\ UNCHANGED <<drains, snap, OnDisk>>
    BY <1>13 DEF Tick, OnDisk
  <2>3. Live(snap) = Live(drains) => Live(snap)' = Live(drains)'
    <3> SUFFICES ASSUME Live(snap) = Live(drains) PROVE Live(snap)' = Live(drains)'
      OBVIOUS
    <3> QED
      BY <1>b, <2>2, LiveLater DEF Live
  <2>4. Live(OnDisk) = Live(drains) => Live(OnDisk)' = Live(drains)'
    <3> SUFFICES ASSUME Live(OnDisk) = Live(drains) PROVE Live(OnDisk)' = Live(drains)'
      OBVIOUS
    <3> QED
      BY <1>b, <2>2, LiveLater DEF Live
  <2>5. SyncInv'
    BY <1>a, <1>13, <2>3, <2>4 DEF SyncInv, Tick
  <2> QED
    BY <2>1, <2>5 DEF IInv
<1>14. ASSUME UNCHANGED vars PROVE IInv'
  BY <1>a, <1>14 DEF IInv, TypeOK, SyncInv, FlushInv, vars, Live, OnDisk
<1> QED
  BY <1>1, <1>2, <1>3, <1>4, <1>5, <1>6, <1>7, <1>8, <1>9, <1>10, <1>11, <1>12,
     <1>13, <1>14 DEF Next, PersistLoop

LEMMA Invariance == Spec => []IInv
BY InitIInv, Inductive, PTL DEF Spec

-----------------------------------------------------------------------------
\* Memory, file and loop keep to their types, whoever calls and crashes.
THEOREM TypeCorrect == Spec => []TypeOK
<1>1. IInv => TypeOK
  BY DEF IInv
<1> QED
  BY <1>1, Invariance, PTL

\* No request for a save is lost: a quiet process has its drains on disk.
THEOREM NoLostSave == Spec => []QuietMeansSaved
<1>1. IInv => QuietMeansSaved
  BY DEF IInv, SyncInv, QuietMeansSaved, Settled
<1> QED
  BY <1>1, Invariance, PTL

\* A process that dies in a quiet moment comes back with the drains it had.
THEOREM RestartKeeps == Spec => RestartKeepsDrains
<1>1. IInv => (Restart /\ Settled /\ ~failed => drains' = Live(drains))
  BY DEF IInv, SyncInv, Settled, Restart, Load
<1> QED
  BY <1>1, Invariance, PTL DEF RestartKeepsDrains

\* A Flush that returns has saved every drain that was not changed meanwhile.
THEOREM FlushKeepsPromise == Spec => FlushSaves
<1> DEFINE Saved == \A f \in Flushers :
             up /\ flush[f] = "taken" /\ flush'[f] = "idle" /\ ~failed' /\ up' =>
               \A t \in Targets \ touched[f] : drains[t] > now => file'[t] = drains[t]
<1>1. IInv /\ [Next]_vars => Saved
  <2> SUFFICES ASSUME IInv, [Next]_vars, NEW f \in Flushers,
                      up, flush[f] = "taken", flush'[f] = "idle", ~failed', up'
               PROVE  \A t \in Targets \ touched[f] :
                         drains[t] > now => file'[t] = drains[t]
    BY DEF Saved
  <2>1. flush \in [Flushers -> {"idle", "asked", "taken"}]
    BY DEF IInv, TypeOK
  <2>2. CASE Write
    BY <2>2 DEF IInv, FlushInv, Write
  <2>3. CASE UNCHANGED flush
    BY <2>3
  <2>4. CASE \E g \in Flushers : Flush(g) \/ TakeFlush(g)
    BY <2>1, <2>4 DEF Flush, TakeFlush
  <2>5. CASE WriteFails
    BY <2>5 DEF WriteFails
  <2>6. CASE Restart
    BY <2>6 DEF Restart
  <2> QED
    BY <2>2, <2>3, <2>4, <2>5, <2>6
    DEF Next, vars, PersistLoop, Edit, MarkDrained, Clear, ClearAll, Mutate,
        SchedulePersist, TakeSave, DropSave, Snapshot, Truncate, Crash, Tick
<1> QED
  BY <1>1, Invariance, PTL DEF Spec, FlushSaves
=============================================================================
