---------------------------- MODULE LeaseService ----------------------------
(* What the DHCP server promises its clients, without table and clock: an    *)
(* address that was acknowledged belongs to its client for a whole lease,    *)
(* and nobody else is offered or given it.  It says nothing of who is        *)
(* answered, and when.                                                       *)
EXTENDS Integers

CONSTANTS
    Client,
    Address,
    Nowhere,    \* no offer that counts
    Lease

VARIABLES
    offer,      \* the address a client was last offered, or remembers
    left        \* time left of what a client was acknowledged

vars == << offer, left >>

Init ==
    /\ offer \in [Client -> Address \cup {Nowhere}]
    /\ left = [c \in Client |-> [a \in Address |-> 0]]

\* The addresses client c has.
Held(c) == {a \in Address : left[c][a] > 0}
Taken(c) == UNION {Held(d) : d \in Client \ {c}}

\* A client that has an address is offered no second one.
Offer(c, a) ==
    /\ a \notin Taken(c)
    /\ Held(c) \subseteq {a}
    /\ offer' = [offer EXCEPT ![c] = a]
    /\ UNCHANGED left

\* A lease begins, or begins anew.
Grant(c, a) ==
    /\ offer[c] = a
    /\ a \notin Taken(c)
    /\ Held(c) \subseteq {a}
    /\ left' = [left EXCEPT ![c][a] = Lease]
    /\ UNCHANGED offer

Pass ==
    /\ left' = [c \in Client |-> [a \in Address |->
                   IF left[c][a] > 0 THEN left[c][a] - 1 ELSE 0]]
    /\ UNCHANGED offer

Next == Pass \/ \E c \in Client, a \in Address : Offer(c, a) \/ Grant(c, a)

Spec == Init /\ [][Next]_vars
=============================================================================
