------------------------------ MODULE Routing ------------------------------
(***************************************************************************)
(* Where a request goes under one config: the names /v1/models lists, the  *)
(* chain a name leads to, and what a smart combo does first: it asks a     *)
(* decision model which route applies, falls back to the default route     *)
(* when the answer is of no use, and runs the chain its route leads to.    *)
(*                                                                         *)
(* Confidences, probabilities and their floor are small integers (tenths,  *)
(* say); weights are factors.  An answer holds what the model said about   *)
(* one question, and a reply the answers it gave; "unreached" stands for a *)
(* call that failed: no key, no connection, an error status, a body that   *)
(* does not parse.                                                         *)
(***************************************************************************)
EXTENDS GatewayConfig

CONSTANTS RouteOrder,   \* the routes in the order of their names
          NoReply, Unknown

\* One question asks for a choice; one question per route asks for a noul.
Question == "route"

\* The answers to all the questions, or none of them: one that is missing or
\* of another type makes the whole reply useless.
Ask(reply, questions, type) ==
    IF /\ reply # NoReply
       /\ \A q \in questions : q \in DOMAIN reply /\ reply[q].type = type
    THEN reply
    ELSE NoReply

decideChoice(cb, reply) ==
    LET answers == Ask(reply, {Question}, "choice")
    IN  IF \/ answers = NoReply
           \/ answers[Question].choice = NoRoute
           \/ answers[Question].confidence < cb.decision.floor
        THEN NoRoute
        ELSE answers[Question].choice

\* The highest weighted probability; of equals the first by name.
decideFanout(cb, reply) ==
    LET answers  == Ask(reply, DOMAIN cb.routes, "noul")
        score(r) == answers[r].noul * cb.decision.weights[r]
        best     == CHOOSE i \in DOMAIN RouteOrder :
                      /\ RouteOrder[i] \in DOMAIN cb.routes
                      /\ \A j \in DOMAIN RouteOrder :
                           RouteOrder[j] \in DOMAIN cb.routes =>
                             \/ score(RouteOrder[j]) < score(RouteOrder[i])
                             \/ score(RouteOrder[j]) = score(RouteOrder[i]) /\ i <= j
    IN  IF answers = NoReply \/ score(RouteOrder[best]) < cb.decision.floor
        THEN NoRoute
        ELSE RouteOrder[best]

\* Every failure, a low confidence included, takes the default route.  A
\* choice is passed on as it came, so it may name no route at all.
decide(cb, reply) ==
    LET answer == IF cb.decision.mode = "fanout"
                  THEN decideFanout(cb, reply)
                  ELSE decideChoice(cb, reply)
    IN  IF answer = NoRoute THEN cb.default ELSE answer

resolveDestination(cfg, destination) ==
    IF destination \in DOMAIN cfg.combos
    THEN cfg.combos[destination].targets
    ELSE IF destination \in Targets THEN <<destination>> ELSE <<>>

\* The targets of a route; none when there is no route of that name.
resolve(cfg, cb, route) ==
    IF route \in DOMAIN cb.routes THEN resolveDestination(cfg, cb.routes[route])
                                  ELSE <<>>

\* The chain a request runs: its targets, the combo whose name it runs under
\* and that combo's strategy.  A route the combo does not have leaves the
\* strategy at priority and the name at the smart combo's, although the
\* targets are those of the default route.
runSmartCombo(cfg, name, reply) ==
    LET cb       == cfg.combos[name]
        route    == decide(cb, reply)
        resolved == resolve(cfg, cb, route)
        owner    == IF route \in DOMAIN cb.routes THEN cb.routes[route] ELSE NoRoute
    IN  [targets  |-> IF resolved # <<>> THEN resolved ELSE resolve(cfg, cb, cb.default),
         owner    |-> IF owner \in DOMAIN cfg.combos THEN owner ELSE name,
         strategy |-> IF owner \in DOMAIN cfg.combos
                      THEN cfg.combos[owner].strategy
                      ELSE "priority"]

\* "<provider>/<model>": the catalog is the allowlist, less what is withdrawn.
resolveDirect(cfg, t) ==
    /\ t \in Targets
    /\ t[1] \in DOMAIN cfg.providers
    /\ LET p == cfg.providers[t[1]]
       IN  ~p.off /\ t[2] \in p.models /\ t[2] \notin p.disabled

modelEntries(cfg) ==
    DOMAIN cfg.combos
      \cup {t \in Targets : /\ t[1] \in DOMAIN cfg.providers
                            /\ ~cfg.providers[t[1]].off
                            /\ t[2] \in cfg.providers[t[1]].models
                                        \ cfg.providers[t[1]].disabled}

\* A request for a name: a combo of that name first, then a listed model.
Chain(cfg, name, reply) ==
    IF name \notin DOMAIN cfg.combos
    THEN [targets  |-> IF resolveDirect(cfg, name) THEN <<name>> ELSE <<>>,
          owner    |-> name,
          strategy |-> "priority"]
    ELSE IF IsSmart(cfg.combos[name])
    THEN runSmartCombo(cfg, name, reply)
    ELSE [targets  |-> cfg.combos[name].targets,
          owner    |-> name,
          strategy |-> cfg.combos[name].strategy]

=============================================================================
