---------------------------- MODULE ClientAnswer ----------------------------
(***************************************************************************)
(* What the gateway promises one client: at most one target's reply, and   *)
(* exactly one ending of it.  An answer is either a whole reply, a reply   *)
(* that breaks off and says so, or an error status with no reply at all.   *)
(***************************************************************************)
CONSTANTS Clients, Sources, NoSource, Statuses

VARIABLES
    from,  \* from[c]: whose reply the client is receiving
    end,   \* end[c]: the endings it has seen
    left   \* left[c]: the client has gone away

Init ==
    /\ from = [c \in Clients |-> NoSource]
    /\ end = [c \in Clients |-> {}]
    /\ left = [c \in Clients |-> FALSE]

Open(c) == from[c] = NoSource /\ end[c] = {}

\* A reply begins.
Begin(c, s) ==
    /\ Open(c)
    /\ from' = [from EXCEPT ![c] = s]
    /\ UNCHANGED <<end, left>>

\* A reply that was begun ends, whole or with an error event.
End(c) ==
    /\ from[c] # NoSource /\ end[c] = {} /\ ~left[c]
    /\ \E e \in {"complete", "errorEvent"} : end' = [end EXCEPT ![c] = {e}]
    /\ UNCHANGED <<from, left>>

\* A reply that was buffered is delivered at once.
Deliver(c, s) ==
    /\ Open(c) /\ ~left[c]
    /\ from' = [from EXCEPT ![c] = s]
    /\ end' = [end EXCEPT ![c] = {"complete"}]
    /\ UNCHANGED left

\* No target answered: the client gets an error status.
Reject(c) ==
    /\ Open(c) /\ ~left[c]
    /\ \E e \in Statuses : end' = [end EXCEPT ![c] = {e}]
    /\ UNCHANGED <<from, left>>

Leave(c) ==
    /\ ~left[c]
    /\ left' = [left EXCEPT ![c] = TRUE]
    /\ UNCHANGED <<from, end>>

Next ==
    \E c \in Clients :
        \/ \E s \in Sources : Begin(c, s) \/ Deliver(c, s)
        \/ End(c) \/ Reject(c) \/ Leave(c)

Spec == Init /\ [][Next]_<<from, end, left>>
=============================================================================
