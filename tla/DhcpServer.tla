----------------------------- MODULE DhcpServer -----------------------------
(* The DHCP server of the configuration access point (dhcp/dhcpserver.cpp):  *)
(* a table of leases, indexed by address, searched and changed by one        *)
(* handler.  Time is the 32-bit millisecond counter, which wraps.  Requests  *)
(* and answers are broadcast datagrams: any of them may get lost.            *)
EXTENDS Integers, FiniteSetsExt

CONSTANTS
    MaxIp,   \* DHCPS_MAX_IP
    Client,  \* hardware addresses
    NoMac,   \* the all-zero one, of a free entry
    Nowhere, \* a client remembers no address of this server
    Modulus, \* the tick counter wraps here: 2^32
    Granule, \* the table keeps the upper bits of the expiry: 2^16
    Lease    \* DEFAULT_LEASE_TIME_S * 1000

Address == 0 .. MaxIp - 1   \* offsets to DHCPS_BASE_IP

\* A day and a granule are less than half of the counter's range.
ASSUME DhcpAssumption ==
    /\ MaxIp \in Nat \ {0}
    /\ NoMac \notin Client
    /\ Nowhere \notin Address
    /\ Modulus \in Nat /\ Granule \in Nat \ {0} /\ Lease \in Nat \ {0}
    /\ 2 * (Lease + Granule) <= Modulus

VARIABLES
    now,     \* cyw43_hal_ticks_ms()
    lease,   \* the table
    known,   \* clients: the address last offered, or held before
    promise  \* history: time left of what the server acknowledged

vars == << now, lease, known, promise >>

\* uint32_t arithmetic on sums and differences of ticks.
Wrap(t) == IF t >= Modulus THEN t - Modulus ELSE t
Ahead(t) == IF t >= now THEN t - now ELSE t - now + Modulus

\* expiry >> 16, and << 16 | 0xffff when it is read.
Expiry(t) == Wrap(t - (t % Granule) + (Granule - 1))

\* Mutant of Expired: the times are compared, not their difference.
ExpiredUnsigned(a) == lease[a].expiry < now

\* (int32_t)(expiry - ticks) < 0
Expired(a) == 2 * Ahead(lease[a].expiry) >= Modulus

Init ==
    /\ now \in 0 .. Modulus - 1
    /\ lease = [a \in Address |-> [mac |-> NoMac, expiry |-> Granule - 1]]
    /\ known \in [Client -> Address \cup {Nowhere}]
    /\ promise = [c \in Client |-> [a \in Address |-> 0]]

Owned(c) == {a \in Address : lease[a].mac = c}
Usable == {a \in Address : lease[a].mac = NoMac \/ Expired(a)}

\* The scan ends at the client's own entry, and stops looking for a usable
\* one when it has found the first, whose owner it removes.
Removed(c) ==
    LET passed == {a \in Usable : \A b \in Owned(c) : a < b}
    IN  {a \in passed : \A b \in passed : a <= b}

\* Mutants of Offered: an entry of one's own is not looked for; a full table
\* is not noticed.
OfferedFirst(c) == Removed(c)
OfferedUnchecked(c) ==
    IF Owned(c) # {} THEN {Min(Owned(c))}
    ELSE IF Removed(c) = {} THEN {MaxIp} ELSE Removed(c)

\* The address offered, if any.
Offered(c) ==
    IF Owned(c) # {} THEN {Min(Owned(c))} ELSE Removed(c)

\* DHCPDISCOVER.  Nothing is reserved for the client.
Discover(c, arrives) ==
    /\ lease' = [a \in Address |->
                    IF a \in Removed(c) THEN [lease[a] EXCEPT !.mac = NoMac] ELSE lease[a]]
    /\ \/ /\ arrives
          /\ \E a \in Offered(c) : known' = [known EXCEPT ![c] = a]
       \/ /\ ~arrives \/ Offered(c) = {}
          /\ UNCHANGED known
    /\ UNCHANGED << now, promise >>

Acknowledge(c, a) ==
    /\ lease' = [lease EXCEPT ![a] = [mac |-> c, expiry |-> Expiry(Wrap(now + Lease))]]
    /\ promise' = [promise EXCEPT ![c][a] = Lease]
    /\ UNCHANGED << now, known >>

\* Mutants of Request: the owner is not compared; a free entry is refused.
RequestAnyOwner(c) == known[c] \in Address /\ Acknowledge(c, known[c])
RequestOwnOnly(c) ==
    /\ known[c] \in Address
    /\ lease[known[c]].mac = c
    /\ Acknowledge(c, known[c])

\* DHCPREQUEST.  Other addresses, and those of others, get no answer.
Request(c) ==
    /\ known[c] \in Address
    /\ lease[known[c]].mac \in {c, NoMac}
    /\ Acknowledge(c, known[c])

\* A millisecond passes, or the scaled unit of the model.
Tick ==
    /\ now' = Wrap(now + 1)
    /\ promise' = [c \in Client |-> [a \in Address |->
                      IF promise[c][a] > 0 THEN promise[c][a] - 1 ELSE 0]]
    /\ UNCHANGED << lease, known >>

Next ==
    \/ Tick
    \/ \E c \in Client :
         \/ \E arrives \in BOOLEAN : Discover(c, arrives)
         \/ Request(c)

\* Clients ask again and again, and not every offer or request gets lost.
Fairness ==
    \A c \in Client : WF_vars(Discover(c, TRUE)) /\ SF_vars(Request(c))

Spec == Init /\ [][Next]_vars
FairSpec == Spec /\ Fairness
-----------------------------------------------------------------------------
(* Types: nobody is offered or acknowledged an address outside the table.    *)
TypeOK ==
    /\ now \in 0 .. Modulus - 1
    /\ lease \in [Address -> [mac : Client \cup {NoMac}, expiry : 0 .. Modulus - 1]]
    /\ known \in [Client -> Address \cup {Nowhere}]
    /\ promise \in [Client -> [Address -> 0 .. Lease]]

(* No address is leased to two clients at a time, each for the whole time it *)
(* was told: over renewals, expiries, cleared entries and the wrap of the    *)
(* tick counter, of which the table keeps only the upper half.               *)
LeasesExclusive ==
    \A c, d \in Client : \A a \in Address :
        promise[c][a] > 0 /\ promise[d][a] > 0 => c = d

(* A client that asks anew while its lease runs is offered the address it    *)
(* has, even if another entry has become free before it: so one client never *)
(* fills the table.                                                          *)
AddressKept ==
    \A c \in Client : \A a \in Address : lease[a].mac = c => known[c] = a

(* The table, its scan and the wrapping clock keep a service of leases: what *)
(* was acknowledged stays its client's until the time it was told is over,   *)
(* nobody else is offered or given the address, and nobody a second one.     *)
Leases == INSTANCE LeaseService WITH offer <- known, left <- promise
ImplementsLeaseService == Leases!Spec

\* The clients come and go within one lease time from some time on.
Settled == <>[][~Tick]_vars

(* Although an offer reserves nothing and a refused request gets no answer,  *)
(* every client that keeps asking ends with a lease, or the others have all  *)
(* the addresses.                                                            *)
AskersAreServed ==
    Settled =>
        \A c \in Client :
            <>[](Owned(c) # {} \/ \A a \in Address : lease[a].mac # NoMac)
=============================================================================
