----------------------------- MODULE ConfigFile -----------------------------
(***************************************************************************)
(* config.yaml and the copy of it the gateway serves from.                 *)
(*                                                                         *)
(* A dashboard handler (an editor) changes the file through mutate: it     *)
(* reads the file, applies its change, validates, writes the file back     *)
(* (os.WriteFile truncates it first) and then loads the file and stores    *)
(* the result as the served config.  No lock holds two editors apart.      *)
(* A watcher polls the file's mtime and reloads when it changed.  An       *)
(* operator may save the file by hand, and the process may die and start   *)
(* again at any point.  The mtime is a counter: every write moves it.      *)
(***************************************************************************)
EXTENDS Routing

CONSTANTS Editors,
          Chains, RouteTables,   \* the chains and routes a form may carry
          Discovered, Picks,     \* the catalogs an upstream lists, the ids a form picks
          Strategies,            \* of plain combos
          Files,                 \* what is on disk at first, and what is saved by hand
          Replies,               \* what a decision model may send back
          MaxEdits,              \* bound: edits begun
          MaxFaults              \* bound: saves by hand and crashes

VARIABLES
    file,      \* [body, stamp]: the bytes of config.yaml and its mtime
    served,    \* the atomic pointer: the config requests read
    editors,   \* per editor [pc, cfg]
    watcher,   \* [pc, recorded, noted, cfg]
    up,        \* the process runs
    budget,    \* [edits, faults] used so far
    crossed    \* history: a write met an edit, or a start, that was under way

vars == <<file, served, editors, watcher, up, budget, crossed>>

IsConfig(c) ==
    /\ c = [providers |-> c.providers, combos |-> c.combos]
    /\ c.providers = [p \in DOMAIN c.providers |->
                        [models   |-> c.providers[p].models,
                         disabled |-> c.providers[p].disabled,
                         off      |-> c.providers[p].off]]

\* No provider lists a model that it withdrew.
Consistent(c) ==
    \A p \in DOMAIN c.providers : c.providers[p].models \cap c.providers[p].disabled = {}

\* Load takes any file that parses and validates; the model asks of the first
\* file, and of one saved by hand, that it does not itself list a withdrawn model.
ASSUME FilesAssumption == \A c \in Files : IsConfig(c) /\ Consistent(c)

Idle    == [pc |-> "idle", cfg |-> Empty]
Asleep  == [pc |-> "off", recorded |-> 0, noted |-> 0, cfg |-> Empty]
AllIdle == \A e \in Editors : editors[e] = Idle

Init ==
    /\ \E c \in {f \in Files : Validate(f)} : file = [body |-> c, stamp |-> 0]
    /\ served = file.body
    /\ editors = [e \in Editors |-> Idle]
    /\ watcher = Asleep
    /\ up = TRUE
    /\ budget = [edits |-> 0, faults |-> 0]
    /\ crossed = FALSE

----------------------------------------------------------------------------
(* Mutate and the reload behind it.                                        *)

Put(body) == file' = [body |-> body, stamp |-> file.stamp + 1]

\* The file is read, changed and validated; a change that is refused ends here
\* with an error and no trace.
Mutate(e, cfg) ==
    /\ up
    /\ editors[e].pc = "idle"
    /\ budget.edits < MaxEdits
    /\ Validate(cfg)
    /\ editors' = [editors EXCEPT ![e] = [pc |-> "open", cfg |-> cfg]]
    /\ budget' = [budget EXCEPT !.edits = @ + 1]
    /\ crossed' = (crossed \/ ~AllIdle)
    /\ UNCHANGED <<file, served, watcher, up>>

Truncate(e) ==
    /\ editors[e].pc = "open"
    /\ Put(Empty)
    /\ editors' = [editors EXCEPT ![e].pc = "write"]
    /\ UNCHANGED <<served, watcher, up, budget, crossed>>

Write(e) ==
    /\ editors[e].pc = "write"
    /\ Put(editors[e].cfg)
    /\ editors' = [editors EXCEPT ![e] = [pc |-> "load", cfg |-> Empty]]
    /\ UNCHANGED <<served, watcher, up, budget, crossed>>

\* The reload of an editor: a file that does not validate keeps the old config.
Load(e) ==
    /\ editors[e].pc = "load"
    /\ editors' = [editors EXCEPT ![e] = IF Validate(file.body)
                                         THEN [pc |-> "store", cfg |-> file.body]
                                         ELSE Idle]
    /\ UNCHANGED <<file, served, watcher, up, budget, crossed>>

Store(e) ==
    /\ editors[e].pc = "store"
    /\ served' = editors[e].cfg
    /\ editors' = [editors EXCEPT ![e] = Idle]
    /\ UNCHANGED <<file, watcher, up, budget, crossed>>

----------------------------------------------------------------------------
(* The handlers that change the config.                                    *)

cfgOnDisk == file.body

CreateProvider(e, p) ==
    /\ p \notin DOMAIN cfgOnDisk.providers
    /\ Mutate(e, createProvider(cfgOnDisk, p))

DeleteProvider(e, p) == Mutate(e, deleteProvider(cfgOnDisk, p))

ToggleProvider(e, p) ==
    /\ p \in DOMAIN cfgOnDisk.providers
    /\ Mutate(e, toggleProvider(cfgOnDisk, p))

\* The timeouts of the server and of a provider are durations: the file is
\* rewritten and nothing the model keeps is different.
UpdateTimeouts(e) == Mutate(e, cfgOnDisk)

AddModel(e, p, m) ==
    /\ p \in DOMAIN cfgOnDisk.providers
    /\ Mutate(e, addModel(cfgOnDisk, p, m))

DisableModel(e, p, ids) ==
    /\ p \in DOMAIN cfgOnDisk.providers
    /\ Mutate(e, disableModel(cfgOnDisk, p, ids))

EnableModel(e, p, ids) ==
    /\ p \in DOMAIN cfgOnDisk.providers
    /\ Mutate(e, enableModel(cfgOnDisk, p, ids))

DeleteModel(e, p, ids) ==
    /\ p \in DOMAIN cfgOnDisk.providers
    /\ Mutate(e, deleteModel(cfgOnDisk, p, ids))

\* The catalog is fetched before the file is read: what was found may be of
\* any age, and the provider may be gone by now.
RefreshModels(e, p, found) ==
    /\ p \in DOMAIN cfgOnDisk.providers
    /\ Mutate(e, SetModels(cfgOnDisk, p, found))

CreateCombo(e, n, cb) ==
    /\ n \notin DOMAIN cfgOnDisk.combos
    /\ Mutate(e, createCombo(cfgOnDisk, n, cb))

UpdateCombo(e, n, strategy, chain) ==
    /\ n \in DOMAIN cfgOnDisk.combos
    /\ Mutate(e, SetCombo(cfgOnDisk, n, strategy, chain))

UpdateSmartCombo(e, n, routes, default, decision) ==
    /\ n \in DOMAIN cfgOnDisk.combos
    /\ IsSmart(cfgOnDisk.combos[n])
    /\ default \in DOMAIN routes
    /\ Mutate(e, SetSmartCombo(cfgOnDisk, n, routes, default, decision))

\* comboAction looks the name up in the served config to tell an edit from a
\* delete; the delete itself runs on the file.
DeleteCombo(e, n) ==
    /\ n \in DOMAIN served.combos
    /\ Mutate(e, deleteCombo(cfgOnDisk, n))

Handler(e) ==
    \/ \E p \in Providers :
         \/ CreateProvider(e, p) \/ DeleteProvider(e, p) \/ ToggleProvider(e, p)
         \/ \E m \in Models : AddModel(e, p, m)
         \/ \E ids \in Picks : DisableModel(e, p, ids) \/ EnableModel(e, p, ids)
                                 \/ DeleteModel(e, p, ids)
         \/ \E found \in Discovered : RefreshModels(e, p, found)
    \/ UpdateTimeouts(e)
    \/ \E n \in ComboNames :
         \/ DeleteCombo(e, n)
         \/ \E s \in Strategies, chain \in Chains :
              CreateCombo(e, n, Plain(s, chain)) \/ UpdateCombo(e, n, s, chain)
         \/ \E t \in RouteTables, r \in Routes, d \in Decisions :
              CreateCombo(e, n, Smart(t, r, d)) \/ UpdateSmartCombo(e, n, t, r, d)

Mutation(e) == Truncate(e) \/ Write(e) \/ Load(e) \/ Store(e)

----------------------------------------------------------------------------
(* The watcher.  The mtimes are noted before the load and recorded after   *)
(* it, and a load that fails records nothing.                              *)

\* The goroutine starts some time after the config it will compare with was
\* loaded.
WatchStarts ==
    /\ up /\ watcher.pc = "off"
    /\ watcher' = [watcher EXCEPT !.pc = "sleep", !.recorded = file.stamp]
    /\ UNCHANGED <<file, served, editors, up, budget, crossed>>

WatchTick ==
    /\ watcher.pc = "sleep"
    /\ file.stamp # watcher.recorded
    /\ watcher' = [watcher EXCEPT !.pc = "load", !.noted = file.stamp]
    /\ UNCHANGED <<file, served, editors, up, budget, crossed>>

WatchLoad ==
    /\ watcher.pc = "load"
    /\ watcher' = IF Validate(file.body)
                  THEN [watcher EXCEPT !.pc = "store", !.cfg = file.body]
                  ELSE [watcher EXCEPT !.pc = "sleep", !.noted = 0]
    /\ UNCHANGED <<file, served, editors, up, budget, crossed>>

\* Mutant: the mtimes are read again after the reload.
WatchStoreLateStamp ==
    /\ watcher.pc = "store"
    /\ served' = watcher.cfg
    /\ watcher' = [watcher EXCEPT !.pc = "sleep", !.recorded = file.stamp,
                                  !.noted = 0, !.cfg = Empty]
    /\ UNCHANGED <<file, editors, up, budget, crossed>>

WatchStore ==
    /\ watcher.pc = "store"
    /\ served' = watcher.cfg
    /\ watcher' = [watcher EXCEPT !.pc = "sleep", !.recorded = watcher.noted,
                                  !.noted = 0, !.cfg = Empty]
    /\ UNCHANGED <<file, editors, up, budget, crossed>>

watch == WatchStarts \/ WatchTick \/ WatchLoad \/ WatchStore

----------------------------------------------------------------------------
(* The surroundings.                                                       *)

\* Anything a text editor can leave behind, in one write.
SaveByHand ==
    /\ budget.faults < MaxFaults
    /\ \E c \in Files : c # file.body /\ Put(c)
    /\ budget' = [budget EXCEPT !.faults = @ + 1]
    /\ crossed' = (crossed \/ ~AllIdle \/ (up /\ watcher.pc = "off"))
    /\ UNCHANGED <<served, editors, watcher, up>>

Crash ==
    /\ up /\ budget.faults < MaxFaults
    /\ up' = FALSE
    /\ served' = Empty
    /\ editors' = [e \in Editors |-> Idle]
    /\ watcher' = Asleep
    /\ budget' = [budget EXCEPT !.faults = @ + 1]
    /\ UNCHANGED <<file, crossed>>

\* A file that does not validate stops the start.
Start ==
    /\ ~up
    /\ Validate(file.body)
    /\ up' = TRUE
    /\ served' = file.body
    /\ UNCHANGED <<file, editors, watcher, budget, crossed>>

Next ==
    \/ \E e \in Editors : Handler(e) \/ Mutation(e)
    \/ watch
    \/ SaveByHand \/ Crash \/ Start

\* A handler that began runs on, and the watcher's ticker keeps ticking.
Spec ==
    /\ Init /\ [][Next]_vars
    /\ \A e \in Editors : WF_vars(Mutation(e))
    /\ WF_vars(watch)

----------------------------------------------------------------------------
(* Properties.                                                             *)

\* Whatever the edits, saves and restarts were, every name /v1/models lists
\* leads to a chain of known targets, for every reply of a decision model; and
\* an answer that names a route runs the chain of that route under its owner's
\* strategy, never a silent substitute.  (Validate on every way in, against
\* resolve, resolveDirect and the fallback of runSmartCombo.)
EveryListedNameLands ==
    /\ \A name \in modelEntries(served) :
         LET chain == Chain(served, name, NoReply)
         IN  /\ chain.targets # <<>>
             /\ \A t \in Range(chain.targets) : Known(served, t)
    /\ \A name \in {n \in DOMAIN served.combos : IsSmart(served.combos[n])} :
         \A reply \in Replies :
           LET cb    == served.combos[name]
               route == decide(cb, reply)
               chain == runSmartCombo(served, name, reply)
           IN  /\ chain.targets # <<>>
               /\ route \in DOMAIN cb.routes /\ cb.routes[route] \in DOMAIN served.combos =>
                    LET owner == served.combos[cb.routes[route]]
                    IN  chain.targets = owner.targets /\ chain.strategy = owner.strategy

\* A withdrawn model is never listed again by a catalog refresh, by another
\* edit or by an edit lost and redone: no provider lists a model it withdrew.
NeverListedAndWithdrawn == Consistent(file.body) /\ Consistent(served)

\* Unless two writers crossed, the gateway ends up serving what is on disk:
\* the editor's own reload, the watcher's and the mtimes it keeps may run in any
\* order.  A file that does not validate, and a process that is down, are the
\* operator's.
ServedCatchesUp ==
    <>[](crossed \/ ~up \/ ~Validate(file.body) \/ served = file.body)

=============================================================================
