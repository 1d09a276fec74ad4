--------------------------- MODULE MCAccountVault ---------------------------
(* Small instances of AccountVault: one provider, two users of one account,  *)
(* an entry of that account from before users were told apart.               *)
EXTENDS AccountVault, TLC

CONSTANTS p1, acc, u1, u2, k1, k2, c1, r1, r2, w1, f1, f2

MCLogins == {Secret(acc, u1, None, None), Secret(acc, u2, None, None)}
MCPastes == {<<k1, k2>>}

Holding(accounts, status) ==
    [accounts |-> [p \in Providers |-> accounts],
     keys     |-> [k \in ClientKeys |-> status]]

\* A new installation has no client key yet, an older one has.
MCStored == {Holding(<<>>, "unknown"),
             Holding(<<Secret(acc, None, None, None)>>, "active")}

\* Requests, flows and users are interchangeable, and no property is temporal.
Symmetry ==
    Permutations({r1, r2}) \cup Permutations({f1, f2}) \cup Permutations({u1, u2})
=============================================================================
