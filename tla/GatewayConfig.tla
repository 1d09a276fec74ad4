--------------------------- MODULE GatewayConfig ---------------------------
(***************************************************************************)
(* The values config.yaml can hold, the rules every one of them passes on  *)
(* its way in (Validate) and the changes the dashboard makes to them.      *)
(*                                                                         *)
(* A config is a record of two partial functions: the providers by name    *)
(* and the combos by name.  Kept of a provider: its active and its         *)
(* withdrawn models and its off switch.  Kept of a combo: its strategy,    *)
(* its chain of targets and, for a smart combo, its routes, default route  *)
(* and decision settings.  The order of providers, of combos and of models *)
(* and every duration are outside the model.                               *)
(***************************************************************************)
EXTENDS Naturals, Sequences, FiniteSets, Functions

CONSTANTS Providers, Models, ComboNames, Routes,
          BaseOf,      \* the model family of an id; an effort clone has another id's
          Decisions,   \* the decision settings a smart combo can have
          NoRoute

ASSUME FamiliesAssumption == BaseOf \in [Models -> Models]

Targets == Providers \X Models

Nothing == [x \in {} |-> x]

\* A file with no bytes in it: it parses, and it validates.
Empty == [providers |-> Nothing, combos |-> Nothing]

NewProvider == [models |-> {}, disabled |-> {}, off |-> FALSE]

Plain(strategy, targets) ==
    [strategy |-> strategy, targets |-> targets, routes |-> Nothing,
     default |-> NoRoute, decision |-> NoRoute]

Smart(routes, default, decision) ==
    [strategy |-> "smart", targets |-> <<>>, routes |-> routes,
     default |-> default, decision |-> decision]

IsSmart(cb) == cb.strategy = "smart"

----------------------------------------------------------------------------
(* The rules of Validate.                                                  *)

\* An effort clone stands for a listed family: gemini-3.7-flash-high is
\* accepted where gemini-3.7-flash is listed.
listedTarget(catalog, m) ==
    \/ m \in catalog
    \/ BaseOf[m] # m /\ \E id \in catalog : BaseOf[id] = BaseOf[m]

catalogFor(p) == p.models \cup p.disabled

Known(cfg, t) ==
    /\ t[1] \in DOMAIN cfg.providers
    /\ LET catalog == catalogFor(cfg.providers[t[1]])
       IN  catalog # {} => listedTarget(catalog, t[2])

validatePlain(cfg, cb) ==
    /\ cb.targets # <<>>
    /\ DOMAIN cb.routes = {}
    /\ Cardinality(Range(cb.targets)) = Len(cb.targets)
    /\ \A t \in Range(cb.targets) : Known(cfg, t)

\* Mutant: a pair is taken without asking the catalog of its provider.
AnyPairIsADestination(cfg, name, destination) ==
    /\ destination # name
    /\ destination \in DOMAIN cfg.combos => ~IsSmart(cfg.combos[destination])

\* A combo name wins over a provider/model pair.
validateDestination(cfg, name, destination) ==
    /\ destination # name
    /\ IF destination \in DOMAIN cfg.combos
       THEN ~IsSmart(cfg.combos[destination])
       ELSE destination \in Targets /\ Known(cfg, destination)

validateSmart(cfg, name, cb) ==
    /\ cb.targets = <<>>
    /\ DOMAIN cb.routes # {}
    /\ \A r \in DOMAIN cb.routes : validateDestination(cfg, name, cb.routes[r])
    /\ cb.default \in DOMAIN cb.routes

Validate(cfg) ==
    \A n \in DOMAIN cfg.combos :
        LET cb == cfg.combos[n]
        IN  IF IsSmart(cb) THEN validateSmart(cfg, n, cb) ELSE validatePlain(cfg, cb)

----------------------------------------------------------------------------
(* The changes.  Each is a function of the config it finds on disk; what   *)
(* it refuses to touch it leaves out of its guard (the "May" operators).   *)

\* Targets whose provider is gone, or whose model is no longer active, leave
\* their chain, and an emptied chain leaves the config.  Smart combos stay.
Prune(cfg) ==
    LET stays(t) ==
            /\ t[1] \in DOMAIN cfg.providers
            /\ LET p == cfg.providers[t[1]]
               IN  p.models = {} \/ listedTarget(p.models, t[2])
        pruned == [n \in DOMAIN cfg.combos |->
                     [cfg.combos[n] EXCEPT !.targets = SelectSeq(@, stays)]]
        kept   == {n \in DOMAIN pruned :
                     IsSmart(cfg.combos[n]) \/ pruned[n].targets # <<>>}
    IN  [cfg EXCEPT !.combos = Restrict(pruned, kept)]

\* Mutant: the refresh forgets what the operator withdrew.
SetModelsUnfiltered(cfg, p, found) ==
    Prune([cfg EXCEPT !.providers[p].models = found])

\* A refreshed catalog: what the upstream lists, less what was withdrawn.
SetModels(cfg, p, found) ==
    Prune([cfg EXCEPT !.providers[p].models = found \ cfg.providers[p].disabled])

addModel(cfg, p, m) ==
    [cfg EXCEPT !.providers[p].models   = @ \cup {m},
                !.providers[p].disabled = @ \ {m}]

disableModel(cfg, p, ids) ==
    [cfg EXCEPT !.providers[p].models   = @ \ ids,
                !.providers[p].disabled = @ \cup ids]

enableModel(cfg, p, ids) ==
    [cfg EXCEPT !.providers[p].disabled = @ \ ids,
                !.providers[p].models   = @ \cup ids]

deleteModel(cfg, p, ids) ==
    Prune([cfg EXCEPT !.providers[p].models   = @ \ ids,
                      !.providers[p].disabled = @ \ ids])

createProvider(cfg, p) ==
    [cfg EXCEPT !.providers = [q \in DOMAIN @ \cup {p} |->
                                 IF q = p THEN NewProvider ELSE cfg.providers[q]]]

deleteProvider(cfg, p) ==
    Prune([cfg EXCEPT !.providers = Restrict(@, DOMAIN @ \ {p})])

toggleProvider(cfg, p) == [cfg EXCEPT !.providers[p].off = ~@]

\* createCombo and createSmartCombo append; both refuse a name in use.
createCombo(cfg, n, cb) ==
    [cfg EXCEPT !.combos = [x \in DOMAIN @ \cup {n} |->
                              IF x = n THEN cb ELSE cfg.combos[x]]]

\* SetCombo writes strategy and chain and leaves the routes where they are,
\* so a smart combo does not become a plain one: Validate refuses its routes.
SetCombo(cfg, n, strategy, targets) ==
    [cfg EXCEPT !.combos[n] = [@ EXCEPT !.strategy = strategy, !.targets = targets]]

SetSmartCombo(cfg, n, routes, default, decision) ==
    [cfg EXCEPT !.combos[n] = [@ EXCEPT !.routes   = routes,
                                        !.default  = default,
                                        !.decision = decision]]

deleteCombo(cfg, n) == [cfg EXCEPT !.combos = Restrict(@, DOMAIN @ \ {n})]

=============================================================================
