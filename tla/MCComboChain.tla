---------------------------- MODULE MCComboChain ----------------------------
(* Instances of ComboChain for TLC. *)
EXTENDS ComboChain

CONSTANTS r1, r2, r3, t1, t2, t3

One(v) == [c \in Combos |-> v]
OneCombo == [r \in Requests |-> "main"]

Pair == One(<<t1, t2>>)
Triple == One(<<t1, t2, t3>>)

Priority == One("priority")
FillFirst == One("fill-first")
Reliable == One("reliable")
RoundRobin == One("round-robin")
NoBudget == One(0)
Budget1 == One(1)
Budget2 == One(2)
=============================================================================
