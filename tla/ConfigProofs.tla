---------------------------- MODULE ConfigProofs ----------------------------
(***************************************************************************)
(* Proofs about ConfigFile, for every set of providers, models, combos,    *)
(* routes, editors and decision replies: what the gateway serves has       *)
(* passed Validate, so every name it lists leads somewhere; and no edit    *)
(* lists a model that was withdrawn.                                       *)
(***************************************************************************)
EXTENDS ConfigFile, TLAPS

\* The two changing cells are records.
Cells ==
  /\ editors = [e \in Editors |-> [pc |-> editors[e].pc, cfg |-> editors[e].cfg]]
  /\ watcher = [pc |-> watcher.pc, recorded |-> watcher.recorded,
                noted |-> watcher.noted, cfg |-> watcher.cfg]

\* Everything that is, or may become, the served config.
ServedInv ==
  /\ Validate(served)
  /\ \A e \in Editors : Validate(editors[e].cfg)
  /\ Validate(watcher.cfg)

Sound(c) == IsConfig(c) /\ Consistent(c)

\* Everything that is, or may become, the file or the served config.
SoundInv ==
  /\ Sound(file.body) /\ Sound(served) /\ Sound(watcher.cfg)
  /\ \A e \in Editors : Sound(editors[e].cfg)

IInv == Cells /\ ServedInv /\ SoundInv

-----------------------------------------------------------------------------
(* Validate is worth its name.                                             *)

LEMMA PairIsRange == ASSUME NEW t PROVE Range(<<t>>) = {t}
<1>1. DOMAIN <<t>> = {1} /\ <<t>>[1] = t
  OBVIOUS
<1> QED BY <1>1 DEF Range

\* A destination that was accepted leads to a chain of known targets.
LEMMA DestinationLands ==
  ASSUME NEW cfg, Validate(cfg), NEW n, NEW d, validateDestination(cfg, n, d)
  PROVE  /\ resolveDestination(cfg, d) # <<>>
         /\ \A t \in Range(resolveDestination(cfg, d)) : Known(cfg, t)
<1>1. CASE d \in DOMAIN cfg.combos
  <2>1. ~IsSmart(cfg.combos[d])
    BY <1>1 DEF validateDestination
  <2>2. validatePlain(cfg, cfg.combos[d])
    BY <1>1, <2>1 DEF Validate
  <2> QED BY <1>1, <2>2 DEF validatePlain, resolveDestination
<1>2. CASE d \notin DOMAIN cfg.combos
  <2>1. d \in Targets /\ Known(cfg, d)
    BY <1>2 DEF validateDestination
  <2>2. resolveDestination(cfg, d) = <<d>>
    BY <1>2, <2>1 DEF resolveDestination
  <2>3. <<d>> # <<>>
    OBVIOUS
  <2> QED BY <2>1, <2>2, <2>3, PairIsRange
<1> QED BY <1>1, <1>2

\* Whatever the decision model replies, a smart combo runs a chain of known
\* targets, and that of the route it chose when that is a combo.
LEMMA SmartLands ==
  ASSUME NEW cfg, Validate(cfg), NEW n \in DOMAIN cfg.combos, IsSmart(cfg.combos[n]), NEW reply
  PROVE  LET cb    == cfg.combos[n]
             route == decide(cb, reply)
             chain == runSmartCombo(cfg, n, reply)
         IN  /\ chain.targets # <<>>
             /\ \A t \in Range(chain.targets) : Known(cfg, t)
             /\ route \in DOMAIN cb.routes /\ cb.routes[route] \in DOMAIN cfg.combos =>
                  LET owner == cfg.combos[cb.routes[route]]
                  IN  chain.targets = owner.targets /\ chain.strategy = owner.strategy
<1> DEFINE cb    == cfg.combos[n]
           route == decide(cb, reply)
           chain == runSmartCombo(cfg, n, reply)
           lands(targets) == targets # <<>> /\ \A t \in Range(targets) : Known(cfg, t)
<1>1. validateSmart(cfg, n, cb)
  BY DEF Validate
<1>2. ASSUME NEW r \in DOMAIN cb.routes PROVE lands(resolve(cfg, cb, r))
  <2>1. validateDestination(cfg, n, cb.routes[r])
    BY <1>1 DEF validateSmart
  <2>2. resolve(cfg, cb, r) = resolveDestination(cfg, cb.routes[r])
    BY DEF resolve
  <2> QED BY <2>1, <2>2, DestinationLands
<1>3. cb.default \in DOMAIN cb.routes
  BY <1>1 DEF validateSmart
<1>4. chain.targets = IF resolve(cfg, cb, route) # <<>> THEN resolve(cfg, cb, route)
                                                       ELSE resolve(cfg, cb, cb.default)
  BY DEF runSmartCombo
<1>5. route \in DOMAIN cb.routes => chain.targets = resolve(cfg, cb, route)
  BY <1>2, <1>4
<1>6. route \notin DOMAIN cb.routes => chain.targets = resolve(cfg, cb, cb.default)
  <2>1. route \notin DOMAIN cb.routes => resolve(cfg, cb, route) = <<>>
    BY DEF resolve
  <2> QED BY <1>4, <2>1
<1>7. lands(chain.targets)
  BY <1>2, <1>3, <1>5, <1>6
<1>8. ASSUME route \in DOMAIN cb.routes, cb.routes[route] \in DOMAIN cfg.combos
      PROVE  /\ chain.targets = cfg.combos[cb.routes[route]].targets
             /\ chain.strategy = cfg.combos[cb.routes[route]].strategy
  <2>1. chain.targets = cfg.combos[cb.routes[route]].targets
    BY <1>5, <1>8 DEF resolve, resolveDestination
  <2>2. chain.strategy = cfg.combos[cb.routes[route]].strategy
    BY <1>8 DEF runSmartCombo
  <2> QED BY <2>1, <2>2
<1> QED BY <1>7, <1>8

LEMMA ListedLands ==
  ASSUME NEW cfg, Validate(cfg), NEW name \in modelEntries(cfg)
  PROVE  LET chain == Chain(cfg, name, NoReply)
         IN  chain.targets # <<>> /\ \A t \in Range(chain.targets) : Known(cfg, t)
<1>1. CASE name \notin DOMAIN cfg.combos
  <2>1. resolveDirect(cfg, name) /\ Known(cfg, name)
    BY <1>1 DEF modelEntries, resolveDirect, Known, catalogFor, listedTarget
  <2>2. Chain(cfg, name, NoReply).targets = <<name>> /\ <<name>> # <<>>
    BY <1>1, <2>1 DEF Chain
  <2> QED BY <2>1, <2>2, PairIsRange
<1>2. CASE name \in DOMAIN cfg.combos /\ IsSmart(cfg.combos[name])
  <2>1. Chain(cfg, name, NoReply) = runSmartCombo(cfg, name, NoReply)
    BY <1>2 DEF Chain
  <2> QED BY <1>2, <2>1, SmartLands
<1>3. CASE name \in DOMAIN cfg.combos /\ ~IsSmart(cfg.combos[name])
  <2>1. validatePlain(cfg, cfg.combos[name])
    BY <1>3 DEF Validate
  <2>2. Chain(cfg, name, NoReply).targets = cfg.combos[name].targets
    BY <1>3 DEF Chain
  <2> QED BY <2>1, <2>2 DEF validatePlain
<1> QED BY <1>1, <1>2, <1>3

LEMMA ValidLands == Validate(served) => EveryListedNameLands
<1> SUFFICES ASSUME Validate(served) PROVE EveryListedNameLands
  OBVIOUS
<1>1. ASSUME NEW name \in modelEntries(served)
      PROVE  LET chain == Chain(served, name, NoReply)
             IN  chain.targets # <<>> /\ \A t \in Range(chain.targets) : Known(served, t)
  BY ListedLands
<1>2. ASSUME NEW name \in DOMAIN served.combos, IsSmart(served.combos[name]), NEW reply \in Replies
      PROVE  LET cb    == served.combos[name]
                 route == decide(cb, reply)
                 chain == runSmartCombo(served, name, reply)
             IN  /\ chain.targets # <<>>
                 /\ route \in DOMAIN cb.routes /\ cb.routes[route] \in DOMAIN served.combos =>
                      LET owner == served.combos[cb.routes[route]]
                      IN  chain.targets = owner.targets /\ chain.strategy = owner.strategy
  BY <1>2, SmartLands
<1> QED BY <1>1, <1>2 DEF EveryListedNameLands

-----------------------------------------------------------------------------
(* No change lists what is withdrawn.                                      *)

LEMMA EmptyIsFine == Validate(Empty) /\ Sound(Empty)
<1>1. DOMAIN Nothing = {}
  BY DEF Nothing
<1>2. Empty.providers = Nothing /\ Empty.combos = Nothing
  BY DEF Empty
<1>3. Validate(Empty) /\ Consistent(Empty)
  BY <1>1, <1>2 DEF Validate, Consistent
<1>4. IsConfig(Empty)
  <2>1. Nothing = [p \in DOMAIN Nothing |-> [models |-> Nothing[p].models,
                                            disabled |-> Nothing[p].disabled,
                                            off |-> Nothing[p].off]]
    BY <1>1 DEF Nothing
  <2> QED BY <1>2, <2>1 DEF IsConfig, Empty
<1> QED BY <1>3, <1>4 DEF Sound

\* The changes to one provider.
LEMMA EditKeepsSound ==
  ASSUME NEW c, Sound(c), NEW p \in DOMAIN c.providers, NEW models, NEW disabled, NEW off,
         models \cap disabled = {}
  PROVE  Sound([c EXCEPT !.providers[p] = [models |-> models, disabled |-> disabled, off |-> off]])
<1> DEFINE x == [models |-> models, disabled |-> disabled, off |-> off]
           d == [c EXCEPT !.providers[p] = x]
<1>1. d = [providers |-> [c.providers EXCEPT ![p] = x], combos |-> c.combos]
  BY DEF Sound, IsConfig
<1>2. DOMAIN d.providers = DOMAIN c.providers
  BY <1>1
<1>3. \A q \in DOMAIN c.providers : d.providers[q] = IF q = p THEN x ELSE c.providers[q]
  BY <1>1 DEF Sound, IsConfig
<1>4. Consistent(d)
  BY <1>2, <1>3 DEF Sound, Consistent
<1>5. IsConfig(d)
  <2>1. ASSUME NEW q \in DOMAIN c.providers
        PROVE  d.providers[q] = [models |-> d.providers[q].models,
                                 disabled |-> d.providers[q].disabled,
                                 off |-> d.providers[q].off]
    BY <1>3, <2>1 DEF Sound, IsConfig
  <2>2. d.providers = [q \in DOMAIN d.providers |-> d.providers[q]]
    BY <1>1
  <2>3. d.providers = [q \in DOMAIN d.providers |->
                         [models |-> d.providers[q].models,
                          disabled |-> d.providers[q].disabled,
                          off |-> d.providers[q].off]]
    BY <1>2, <2>1, <2>2
  <2> QED BY <1>1, <2>3 DEF IsConfig
<1> QED BY <1>4, <1>5 DEF Sound

\* Fewer providers, or other combos, are no harm.
LEMMA OtherCombosKeepSound ==
  ASSUME NEW c, Sound(c), NEW combos
  PROVE  Sound([providers |-> c.providers, combos |-> combos])
BY DEF Sound, IsConfig, Consistent

LEMMA CombosExcept ==
  ASSUME NEW c, Sound(c), NEW combos
  PROVE  Sound([c EXCEPT !.combos = combos])
<1>1. [c EXCEPT !.combos = combos] = [providers |-> c.providers, combos |-> combos]
  BY DEF Sound, IsConfig
<1> QED BY <1>1, OtherCombosKeepSound

LEMMA PruneKeepsSound == ASSUME NEW c, Sound(c) PROVE Sound(Prune(c))
<1>1. \E combos : Prune(c) = [c EXCEPT !.combos = combos]
  BY DEF Prune
<1> QED BY <1>1, CombosExcept

LEMMA ModelsKeepSound ==
  ASSUME NEW c, Sound(c), NEW p \in DOMAIN c.providers, NEW models, NEW disabled,
         models \cap disabled = {}
  PROVE  Sound([c EXCEPT !.providers[p].models = models, !.providers[p].disabled = disabled])
<1> DEFINE ps == c.providers
           x  == [models |-> models, disabled |-> disabled, off |-> ps[p].off]
<1>1. ps[p] = [models |-> ps[p].models, disabled |-> ps[p].disabled, off |-> ps[p].off]
  BY DEF Sound, IsConfig
<1>2. [[ps[p] EXCEPT !.models = models] EXCEPT !.disabled = disabled] = x
  <2>1. [ps[p] EXCEPT !.models = models]
          = [models |-> models, disabled |-> ps[p].disabled, off |-> ps[p].off]
    BY <1>1
  <2>2. ASSUME NEW r, r = [models |-> models, disabled |-> ps[p].disabled, off |-> ps[p].off]
        PROVE  [r EXCEPT !.disabled = disabled] = x
    BY <2>2
  <2> QED BY <2>1, <2>2, Zenon
<1>3. [c EXCEPT !.providers[p].models = models, !.providers[p].disabled = disabled]
        = [c EXCEPT !.providers[p] = x]
  <2>1. ASSUME NEW f, f = ps PROVE [f EXCEPT ![p].models = models, ![p].disabled = disabled]
                                     = [f EXCEPT ![p] = x]
    BY <1>2, <2>1
  <2>2. c = [providers |-> ps, combos |-> c.combos]
    BY DEF Sound, IsConfig
  <2> QED BY <2>1, <2>2
<1> QED BY <1>3, EditKeepsSound

\* Each edit of a handler is sound.
LEMMA ModelEdits ==
  ASSUME NEW c, Sound(c), NEW p \in DOMAIN c.providers, NEW m, NEW ids
  PROVE  /\ Sound(addModel(c, p, m)) /\ Sound(disableModel(c, p, ids))
         /\ Sound(enableModel(c, p, ids)) /\ Sound(deleteModel(c, p, ids))
         /\ Sound(SetModels(c, p, ids)) /\ Sound(toggleProvider(c, p))
<1> DEFINE mo == c.providers[p].models
           di == c.providers[p].disabled
<1>1. mo \cap di = {}
  BY DEF Sound, Consistent
<1>2. Sound(addModel(c, p, m))
  <2>1. (mo \cup {m}) \cap (di \ {m}) = {}
    BY <1>1
  <2>2. Sound([c EXCEPT !.providers[p].models = mo \cup {m}, !.providers[p].disabled = di \ {m}])
    BY <2>1, ModelsKeepSound
  <2>3. addModel(c, p, m) = [c EXCEPT !.providers[p].models = mo \cup {m},
                                      !.providers[p].disabled = di \ {m}]
    BY DEF addModel, Sound, IsConfig
  <2> QED BY <2>2, <2>3
<1>3. Sound(disableModel(c, p, ids))
  <2>1. (mo \ ids) \cap (di \cup ids) = {}
    BY <1>1
  <2>2. Sound([c EXCEPT !.providers[p].models = mo \ ids, !.providers[p].disabled = di \cup ids])
    BY <2>1, ModelsKeepSound
  <2>3. disableModel(c, p, ids) = [c EXCEPT !.providers[p].models = mo \ ids,
                                            !.providers[p].disabled = di \cup ids]
    BY DEF disableModel, Sound, IsConfig
  <2> QED BY <2>2, <2>3
<1>4. Sound(enableModel(c, p, ids))
  <2>1. (mo \cup ids) \cap (di \ ids) = {}
    BY <1>1
  <2>2. Sound([c EXCEPT !.providers[p].models = mo \cup ids, !.providers[p].disabled = di \ ids])
    BY <2>1, ModelsKeepSound
  <2>3. enableModel(c, p, ids) = [c EXCEPT !.providers[p].models = mo \cup ids,
                                           !.providers[p].disabled = di \ ids]
    BY ZenonT(60) DEF enableModel, Sound, IsConfig
  <2> QED BY <2>2, <2>3
<1>5. Sound(deleteModel(c, p, ids))
  <2>1. (mo \ ids) \cap (di \ ids) = {}
    BY <1>1
  <2>2. Sound([c EXCEPT !.providers[p].models = mo \ ids, !.providers[p].disabled = di \ ids])
    BY <2>1, ModelsKeepSound
  <2>3. deleteModel(c, p, ids) = Prune([c EXCEPT !.providers[p].models = mo \ ids,
                                                 !.providers[p].disabled = di \ ids])
    BY DEF deleteModel, Sound, IsConfig
  <2> QED BY <2>2, <2>3, PruneKeepsSound
<1>6. Sound(SetModels(c, p, ids))
  <2>1. (ids \ di) \cap di = {}
    OBVIOUS
  <2>2. Sound([c EXCEPT !.providers[p] = [models |-> ids \ di, disabled |-> di,
                                          off |-> c.providers[p].off]])
    BY <2>1, EditKeepsSound
  <2> DEFINE pr == c.providers[p]
             x  == [models |-> ids \ di, disabled |-> di, off |-> pr.off]
  <2>3. [c EXCEPT !.providers[p].models = ids \ di] = [c EXCEPT !.providers[p] = x]
    <3>1. pr = [models |-> pr.models, disabled |-> pr.disabled, off |-> pr.off]
      BY DEF Sound, IsConfig
    <3>2. [pr EXCEPT !.models = ids \ di] = x
      BY <3>1
    <3> QED BY <3>2
  <2> QED BY <2>2, <2>3, PruneKeepsSound DEF SetModels
<1>7. Sound(toggleProvider(c, p))
  <2>1. Sound([c EXCEPT !.providers[p] = [models |-> mo, disabled |-> di,
                                          off |-> ~c.providers[p].off]])
    BY <1>1, EditKeepsSound
  <2>2. toggleProvider(c, p) = [c EXCEPT !.providers[p] = [models |-> mo, disabled |-> di,
                                                           off |-> ~c.providers[p].off]]
    BY DEF toggleProvider, Sound, IsConfig
  <2> QED BY <2>1, <2>2
<1> QED BY <1>2, <1>3, <1>4, <1>5, <1>6, <1>7

LEMMA ProviderEdits ==
  ASSUME NEW c, Sound(c), NEW p
  PROVE  Sound(createProvider(c, p)) /\ Sound(deleteProvider(c, p))
<1>1. Sound(createProvider(c, p))
  <2> DEFINE ps == [q \in DOMAIN c.providers \cup {p} |->
                      IF q = p THEN NewProvider ELSE c.providers[q]]
             d  == [providers |-> ps, combos |-> c.combos]
  <2>1. createProvider(c, p) = d
    BY DEF createProvider, Sound, IsConfig
  <2>2. NewProvider = [models |-> NewProvider.models, disabled |-> NewProvider.disabled,
                       off |-> NewProvider.off]
        /\ NewProvider.models \cap NewProvider.disabled = {}
    BY DEF NewProvider
  <2>3. Consistent(d)
    BY <2>2 DEF Sound, Consistent
  <2>4. \A q \in DOMAIN ps : ps[q] = [models |-> ps[q].models, disabled |-> ps[q].disabled,
                                      off |-> ps[q].off]
    BY <2>2 DEF Sound, IsConfig
  <2>5. IsConfig(d)
    BY <2>4 DEF IsConfig
  <2> QED BY <2>1, <2>3, <2>5 DEF Sound
<1>2. Sound(deleteProvider(c, p))
  <2> DEFINE ps == Restrict(c.providers, DOMAIN c.providers \ {p})
             d  == [providers |-> ps, combos |-> c.combos]
  <2>1. [c EXCEPT !.providers = Restrict(@, DOMAIN @ \ {p})] = d
    BY DEF Sound, IsConfig
  <2>2. Sound(d)
    BY DEF Sound, IsConfig, Consistent, Restrict
  <2> QED BY <2>1, <2>2, PruneKeepsSound DEF deleteProvider
<1> QED BY <1>1, <1>2

\* SetCombo and its kin change the combos only.
LEMMA ComboEdits ==
  ASSUME NEW c, Sound(c), NEW n, NEW cb, NEW strategy, NEW targets,
         NEW routes, NEW default, NEW decision
  PROVE  /\ Sound(createCombo(c, n, cb)) /\ Sound(SetCombo(c, n, strategy, targets))
         /\ Sound(SetSmartCombo(c, n, routes, default, decision)) /\ Sound(deleteCombo(c, n))
<1>1. \E combos : createCombo(c, n, cb) = [c EXCEPT !.combos = combos]
  BY DEF createCombo, Sound, IsConfig
<1>2. \E combos : SetCombo(c, n, strategy, targets) = [providers |-> c.providers, combos |-> combos]
  <2> DEFINE combos == [c.combos EXCEPT ![n] = [@ EXCEPT !.strategy = strategy, !.targets = targets]]
  <2>1. c = [providers |-> c.providers, combos |-> c.combos]
    BY DEF Sound, IsConfig
  <2>2. SetCombo(c, n, strategy, targets) = [providers |-> c.providers, combos |-> combos]
    BY <2>1 DEF SetCombo
  <2> QED BY <2>2
<1>3. \E combos : SetSmartCombo(c, n, routes, default, decision)
                    = [providers |-> c.providers, combos |-> combos]
  <2> DEFINE combos == [c.combos EXCEPT ![n] = [@ EXCEPT !.routes = routes, !.default = default,
                                                  !.decision = decision]]
  <2>1. c = [providers |-> c.providers, combos |-> c.combos]
    BY DEF Sound, IsConfig
  <2>2. SetSmartCombo(c, n, routes, default, decision)
          = [providers |-> c.providers, combos |-> combos]
    BY <2>1 DEF SetSmartCombo
  <2> QED BY <2>2
<1>4. \E combos : deleteCombo(c, n) = [c EXCEPT !.combos = combos]
  BY DEF deleteCombo, Sound, IsConfig
<1> QED BY <1>1, <1>2, <1>3, <1>4, CombosExcept, OtherCombosKeepSound

LEMMA HandlerIsSound ==
  ASSUME IInv, NEW e \in Editors, Handler(e)
  PROVE  \E cfg : Sound(cfg) /\ Mutate(e, cfg)
<1>1. Sound(cfgOnDisk)
  BY DEF IInv, SoundInv, cfgOnDisk
<1>2. ASSUME NEW p \in Providers,
             \/ CreateProvider(e, p) \/ DeleteProvider(e, p) \/ ToggleProvider(e, p)
             \/ \E m \in Models : AddModel(e, p, m)
             \/ \E ids \in Picks : DisableModel(e, p, ids) \/ EnableModel(e, p, ids)
                                     \/ DeleteModel(e, p, ids)
             \/ \E found \in Discovered : RefreshModels(e, p, found)
      PROVE  \E cfg : Sound(cfg) /\ Mutate(e, cfg)
  <2>1. CASE CreateProvider(e, p) \/ DeleteProvider(e, p)
    BY <1>1, <2>1, ProviderEdits DEF CreateProvider, DeleteProvider
  <2>2. CASE ToggleProvider(e, p)
    BY <1>1, <2>2, ModelEdits DEF ToggleProvider
  <2>3. ASSUME NEW m \in Models, AddModel(e, p, m) PROVE \E cfg : Sound(cfg) /\ Mutate(e, cfg)
    BY <1>1, <2>3, ModelEdits DEF AddModel
  <2>4. ASSUME NEW ids \in Picks,
               DisableModel(e, p, ids) \/ EnableModel(e, p, ids) \/ DeleteModel(e, p, ids)
        PROVE  \E cfg : Sound(cfg) /\ Mutate(e, cfg)
    BY <1>1, <2>4, ModelEdits DEF DisableModel, EnableModel, DeleteModel
  <2>5. ASSUME NEW found \in Discovered, RefreshModels(e, p, found)
        PROVE  \E cfg : Sound(cfg) /\ Mutate(e, cfg)
    BY <1>1, <2>5, ModelEdits DEF RefreshModels
  <2> QED BY <1>2, <2>1, <2>2, <2>3, <2>4, <2>5
<1>3. CASE UpdateTimeouts(e)
  BY <1>1, <1>3 DEF UpdateTimeouts
<1>4. ASSUME NEW n \in ComboNames, DeleteCombo(e, n)
      PROVE  \E cfg : Sound(cfg) /\ Mutate(e, cfg)
  BY <1>1, <1>4, ComboEdits DEF DeleteCombo
<1>5. ASSUME NEW n \in ComboNames, NEW s \in Strategies, NEW chain \in Chains,
             CreateCombo(e, n, Plain(s, chain)) \/ UpdateCombo(e, n, s, chain)
      PROVE  \E cfg : Sound(cfg) /\ Mutate(e, cfg)
  BY <1>1, <1>5, ComboEdits DEF CreateCombo, UpdateCombo
<1>6. ASSUME NEW n \in ComboNames, NEW t \in RouteTables, NEW r \in Routes, NEW d \in Decisions,
             CreateCombo(e, n, Smart(t, r, d)) \/ UpdateSmartCombo(e, n, t, r, d)
      PROVE  \E cfg : Sound(cfg) /\ Mutate(e, cfg)
  BY <1>1, <1>6, ComboEdits DEF CreateCombo, UpdateSmartCombo
<1> QED BY <1>2, <1>3, <1>4, <1>5, <1>6 DEF Handler

-----------------------------------------------------------------------------
(* The invariant.                                                          *)

Fine(c) == Validate(c) /\ Sound(c)

LEMMA InitIInv == Init => IInv
<1> SUFFICES ASSUME Init PROVE IInv
  OBVIOUS
<1>1. Validate(file.body) /\ Sound(file.body) /\ served = file.body
  BY FilesAssumption DEF Init, Sound
<1>2. Cells
  BY DEF Init, Cells, Idle, Asleep
<1>3. \A e \in Editors : editors[e].cfg = Empty
  BY DEF Init, Idle
<1>4. watcher.cfg = Empty
  BY DEF Init, Asleep
<1> QED BY <1>1, <1>2, <1>3, <1>4, EmptyIsFine DEF IInv, ServedInv, SoundInv

\* An editor that moves on holds a fine config; the others hold what they held.
LEMMA EditorMoves ==
  ASSUME IInv, NEW e \in Editors, NEW pc, NEW cfg, Fine(cfg), UNCHANGED watcher,
         editors' = [editors EXCEPT ![e] = [pc |-> pc, cfg |-> cfg]],
         Validate(served'), Sound(served'), Sound((file.body)')
  PROVE  IInv'
<1>1. \A x \in Editors : editors'[x] = IF x = e THEN [pc |-> pc, cfg |-> cfg] ELSE editors[x]
  BY DEF IInv, Cells
<1>2. Cells'
  <2>1. \A x \in Editors : editors'[x] = [pc |-> editors'[x].pc, cfg |-> editors'[x].cfg]
    BY <1>1 DEF IInv, Cells
  <2>2. editors' = [x \in Editors |-> editors'[x]]
    BY DEF IInv, Cells
  <2>3. editors' = [x \in Editors |-> [pc |-> editors'[x].pc, cfg |-> editors'[x].cfg]]
    BY <2>1, <2>2
  <2> QED BY <2>3 DEF IInv, Cells
<1>3. \A x \in Editors : Fine(editors'[x].cfg)
  BY <1>1 DEF IInv, ServedInv, SoundInv, Fine
<1> QED BY <1>2, <1>3 DEF IInv, ServedInv, SoundInv, Fine

LEMMA StepEditor ==
  ASSUME IInv, NEW e \in Editors, Handler(e) \/ Mutation(e)
  PROVE  IInv'
<1>1. editors[e] = [pc |-> editors[e].pc, cfg |-> editors[e].cfg] /\ Fine(editors[e].cfg)
  BY DEF IInv, Cells, ServedInv, SoundInv, Fine
<1>2. Fine(Empty) /\ Fine(served) /\ Sound(file.body)
  BY EmptyIsFine DEF IInv, ServedInv, SoundInv, Fine
<1>3. CASE Handler(e)
  <2>1. PICK cfg : Sound(cfg) /\ Mutate(e, cfg)
    BY <1>3, HandlerIsSound
  <2>2. Fine(cfg) /\ UNCHANGED <<file, served, watcher>>
        /\ editors' = [editors EXCEPT ![e] = [pc |-> "open", cfg |-> cfg]]
    BY <2>1 DEF Mutate, Fine
  <2> QED BY <1>2, <2>2, EditorMoves DEF Fine
<1>4. CASE Truncate(e)
  <2>1. editors' = [editors EXCEPT ![e] = [pc |-> "write", cfg |-> editors[e].cfg]]
    <3>1. editors' = [editors EXCEPT ![e] = [@ EXCEPT !.pc = "write"]]
      BY <1>4 DEF Truncate
    <3>2. [editors[e] EXCEPT !.pc = "write"] = [pc |-> "write", cfg |-> editors[e].cfg]
      BY <1>1
    <3> QED BY <3>1, <3>2
  <2>2. UNCHANGED <<served, watcher>> /\ (file.body)' = Empty
    BY <1>4 DEF Truncate, Put
  <2> QED BY <1>1, <1>2, <2>1, <2>2, EditorMoves DEF Fine
<1>5. CASE Write(e)
  <2>1. UNCHANGED <<served, watcher>> /\ (file.body)' = editors[e].cfg
        /\ editors' = [editors EXCEPT ![e] = [pc |-> "load", cfg |-> Empty]]
    BY <1>5 DEF Write, Put
  <2> QED BY <1>1, <1>2, <2>1, EditorMoves DEF Fine
<1>6. CASE Load(e)
  <2>1. UNCHANGED <<file, served, watcher>>
    BY <1>6 DEF Load
  <2>2. CASE Validate(file.body)
    <3>1. editors' = [editors EXCEPT ![e] = [pc |-> "store", cfg |-> file.body]]
      BY <1>6, <2>2 DEF Load
    <3> QED BY <1>2, <2>1, <2>2, <3>1, EditorMoves DEF Fine
  <2>3. CASE ~Validate(file.body)
    <3>1. editors' = [editors EXCEPT ![e] = [pc |-> "idle", cfg |-> Empty]]
      BY <1>6, <2>3 DEF Load, Idle
    <3> QED BY <1>2, <2>1, <3>1, EditorMoves DEF Fine
  <2> QED BY <2>2, <2>3
<1>7. CASE Store(e)
  <2>1. UNCHANGED <<file, watcher>> /\ served' = editors[e].cfg
        /\ editors' = [editors EXCEPT ![e] = [pc |-> "idle", cfg |-> Empty]]
    BY <1>7 DEF Store, Idle
  <2> QED BY <1>1, <1>2, <2>1, EditorMoves DEF Fine
<1> QED BY <1>3, <1>4, <1>5, <1>6, <1>7 DEF Mutation

LEMMA StepWatch == ASSUME IInv, watch PROVE IInv'
<1> DEFINE w == watcher
<1>1. w = [pc |-> w.pc, recorded |-> w.recorded, noted |-> w.noted, cfg |-> w.cfg] /\ Fine(w.cfg)
  BY DEF IInv, Cells, ServedInv, SoundInv, Fine
<1>2. UNCHANGED <<file, editors>>
  BY DEF watch, WatchStarts, WatchTick, WatchLoad, WatchStore
<1>3. Fine(served)'
  BY <1>1 DEF watch, WatchStarts, WatchTick, WatchLoad, WatchStore, IInv, ServedInv, SoundInv, Fine
<1>4. \E pc, recorded, noted, cfg :
        /\ watcher' = [pc |-> pc, recorded |-> recorded, noted |-> noted, cfg |-> cfg]
        /\ Fine(cfg)
  <2>1. CASE WatchStarts
    <3>1. watcher' = [pc |-> "sleep", recorded |-> file.stamp, noted |-> w.noted, cfg |-> w.cfg]
      BY <1>1, <2>1 DEF WatchStarts
    <3> QED BY <1>1, <3>1
  <2>2. CASE WatchTick
    <3>1. watcher' = [pc |-> "load", recorded |-> w.recorded, noted |-> file.stamp, cfg |-> w.cfg]
      BY <1>1, <2>2 DEF WatchTick
    <3> QED BY <1>1, <3>1
  <2>3. CASE WatchLoad
    <3>1. CASE Validate(file.body)
      <4>1. watcher' = [pc |-> "store", recorded |-> w.recorded, noted |-> w.noted,
                        cfg |-> file.body]
        BY <1>1, <2>3, <3>1 DEF WatchLoad
      <4> QED BY <3>1, <4>1 DEF IInv, SoundInv, Fine
    <3>2. CASE ~Validate(file.body)
      <4>1. watcher' = [pc |-> "sleep", recorded |-> w.recorded, noted |-> 0, cfg |-> w.cfg]
        BY <1>1, <2>3, <3>2 DEF WatchLoad
      <4> QED BY <1>1, <4>1
    <3> QED BY <3>1, <3>2
  <2>4. CASE WatchStore
    <3>1. watcher' = [pc |-> "sleep", recorded |-> w.noted, noted |-> 0, cfg |-> Empty]
      BY <1>1, <2>4 DEF WatchStore
    <3> QED BY <3>1, EmptyIsFine DEF Fine
  <2> QED BY <2>1, <2>2, <2>3, <2>4 DEF watch
<1>5. Cells' /\ Fine(watcher.cfg)'
  BY <1>2, <1>4 DEF IInv, Cells, Fine
<1> QED BY <1>2, <1>3, <1>5 DEF IInv, ServedInv, SoundInv, Fine

LEMMA StepOutside == ASSUME IInv, SaveByHand \/ Crash \/ Start PROVE IInv'
<1>1. CASE SaveByHand
  <2>1. UNCHANGED <<served, editors, watcher>> /\ (file.body)' \in Files
    BY <1>1 DEF SaveByHand, Put
  <2>2. Sound((file.body)')
    BY <2>1, FilesAssumption DEF Sound
  <2> QED BY <2>1, <2>2 DEF IInv, Cells, ServedInv, SoundInv
<1>2. CASE Crash
  <2>1. file' = file /\ served' = Empty /\ watcher' = Asleep /\ editors' = [e \in Editors |-> Idle]
    BY <1>2 DEF Crash
  <2>2. Cells' /\ watcher'.cfg = Empty /\ \A e \in Editors : editors'[e].cfg = Empty
    BY <2>1 DEF Cells, Asleep, Idle
  <2> QED BY <2>1, <2>2, EmptyIsFine DEF IInv, ServedInv, SoundInv
<1>3. CASE Start
  <2>1. UNCHANGED <<file, editors, watcher>> /\ served' = file.body /\ Validate(file.body)
    BY <1>3 DEF Start
  <2> QED BY <2>1 DEF IInv, Cells, ServedInv, SoundInv
<1> QED BY <1>1, <1>2, <1>3

LEMMA StepIInv == IInv /\ [Next]_vars => IInv'
<1> SUFFICES ASSUME IInv, [Next]_vars PROVE IInv'
  OBVIOUS
<1>1. CASE UNCHANGED vars
  BY <1>1 DEF vars, IInv, Cells, ServedInv, SoundInv
<1>2. CASE Next
  BY <1>2, StepEditor, StepWatch, StepOutside DEF Next
<1> QED BY <1>1, <1>2

-----------------------------------------------------------------------------
\* Whatever the edits, saves by hand, crashes and reloads were, and whatever the
\* decision model replies, a name that /v1/models lists leads to a chain of known
\* targets, and a route that was chosen runs its own chain (Validate against
\* resolve, resolveDirect and runSmartCombo).
THEOREM ListedNamesLand == Spec => []EveryListedNameLands
<1>1. IInv => EveryListedNameLands
  BY ValidLands DEF IInv, ServedInv
<1> QED BY <1>1, InitIInv, StepIInv, PTL DEF Spec

\* Neither the file nor the served config lists a model its provider withdrew,
\* as long as no file saved by hand does (FilesAssumption): SetModels filters a
\* refreshed catalog, and the other edits move a model from one list to the other.
THEOREM WithdrawnStaysOut == Spec => []NeverListedAndWithdrawn
<1>1. IInv => NeverListedAndWithdrawn
  BY DEF IInv, SoundInv, Sound, NeverListedAndWithdrawn
<1> QED BY <1>1, InitIInv, StepIInv, PTL DEF Spec
=============================================================================
