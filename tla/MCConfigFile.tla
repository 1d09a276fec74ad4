---------------------------- MODULE MCConfigFile ----------------------------
(* Small instances of ConfigFile: two providers, a model and an effort     *)
(* clone of it, a plain and a smart combo, two routes.                       *)
EXTENDS ConfigFile, TLC

CONSTANTS p1, p2, m, mHigh, c, s, r1, r2, e1, e2

MCBaseOf == [x \in Models |-> m]

Fanout == [mode |-> "fanout", floor |-> 1, weights |-> (r1 :> 1 @@ r2 :> 2)]
Choice == [mode |-> "choice", floor |-> 1, weights |-> [r \in Routes |-> 1]]

MCDecisions   == {Choice}
MCChains      == {<<<<p1, mHigh>>, <<p2, m>>>>}
MCRouteTables == {(r1 :> c), (r1 :> <<p2, mHigh>> @@ r2 :> s)}
MCDiscovered  == {{m, mHigh}}
MCPicks       == {{m}}
MCStrategies  == {"reliable"}
MCRouteOrder  == <<r1, r2>>

Listing(models) == [NewProvider EXCEPT !.models = models]

Working ==
    [providers |-> (p1 :> Listing({m})),
     combos    |-> (c :> Plain("reliable", <<<<p1, m>>>>)
                    @@ s :> Smart(r1 :> c @@ r2 :> <<p1, m>>, r2, Fanout))]

\* Saved by hand: a smart combo that leads nowhere.
Dangling ==
    [Working EXCEPT !.combos = (s :> Smart(r1 :> c, r1, Choice))]

MCFiles == {Working, Dangling}

Said(type, choice, n) ==
    [type |-> type, choice |-> choice, confidence |-> n, noul |-> n]

MCReplies ==
    {NoReply}
      \cup {Question :> Said("choice", x, n) : x \in Routes \cup {Unknown, NoRoute}, n \in 0..1}
      \cup {(r1 :> Said("noul", NoRoute, n) @@ r2 :> Said("noul", NoRoute, k)) : n, k \in 0..1}
      \cup {(r1 :> Said("noul", NoRoute, 2))}
=============================================================================
