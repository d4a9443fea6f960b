-------------------------- MODULE DhcpServerProofs --------------------------
(* Proofs about DhcpServer, for every number of clients and addresses, every *)
(* width of the tick counter, and every granule of the table.                *)
EXTENDS DhcpServer, TLAPS

USE DhcpAssumption DEF Address

\* What the server acknowledged is in the table, and does not look expired.
Kept ==
    \A c \in Client : \A a \in Address : promise[c][a] > 0 =>
        /\ lease[a].mac = c
        /\ Ahead(lease[a].expiry) >= promise[c][a]
        /\ Ahead(lease[a].expiry) < Lease + Granule

IInv == TypeOK /\ Kept /\ AddressKept

-----------------------------------------------------------------------------
\* An expiry that is written and read again is never early, and less than a
\* granule late.
LEMMA ExpiryAhead ==
  ASSUME now \in 0 .. Modulus - 1
  PROVE  /\ Expiry(Wrap(now + Lease)) \in 0 .. Modulus - 1
         /\ Ahead(Expiry(Wrap(now + Lease))) >= Lease
         /\ Ahead(Expiry(Wrap(now + Lease))) < Lease + Granule
  <1> DEFINE u == Wrap(now + Lease)
             d == Granule - 1 - (u % Granule)
  <1>1. u \in 0 .. Modulus - 1
    BY SMT DEF Wrap
  <1>2. u % Granule \in 0 .. Granule - 1
    BY <1>1, SMT
  <1>3. d \in 0 .. Granule - 1 /\ Expiry(u) = Wrap(u + d)
    BY <1>1, <1>2, SMT DEF Expiry
  <1>4. u = IF now + Lease >= Modulus THEN now + Lease - Modulus ELSE now + Lease
    BY DEF Wrap
  <1> HIDE DEF u, d
  <1> QED
    <2>1. Wrap(u + d) \in 0 .. Modulus - 1
      BY <1>1, <1>3, SMT DEF Wrap
    <2>2. Ahead(Wrap(u + d)) = Lease + d
      BY <1>1, <1>3, <1>4, SMT DEF Wrap, Ahead
    <2> QED
      BY <1>3, <2>1, <2>2, SMT DEF u

\* A promised address is not usable for anybody.
LEMMA PromisedNotUsable ==
  ASSUME TypeOK, Kept, NEW d \in Client, NEW a \in Address, promise[d][a] > 0
  PROVE  a \notin Usable
  <1>1. lease[a].mac = d /\ d # NoMac
    BY DEF Kept
  <1>2. Ahead(lease[a].expiry) < Lease + Granule /\ Ahead(lease[a].expiry) \in Int
    BY SMT DEF Kept, TypeOK, Ahead
  <1>3. ~Expired(a)
    BY <1>2, SMT DEF Expired
  <1> QED
    BY <1>1, <1>3 DEF Usable

\* A client that owns an entry is offered that one, others a usable one.
LEMMA OfferedIsKnownOrUsable ==
  ASSUME TypeOK, AddressKept, NEW c \in Client, NEW a \in Offered(c)
  PROVE  /\ a \in Address
         /\ Owned(c) # {} => a = known[c]
         /\ Owned(c) = {} => a \in Usable
  <1>1. CASE Owned(c) # {}
    <2>1. Owned(c) = {known[c]} /\ known[c] \in Address
      BY <1>1 DEF AddressKept, Owned
    <2>2. Min({known[c]}) = known[c]
      BY <2>1, SMT DEF Min
    <2> QED
      BY <1>1, <2>1, <2>2 DEF Offered
  <1>2. CASE Owned(c) = {}
    BY <1>2 DEF Offered, Removed, Usable
  <1> QED
    BY <1>1, <1>2

-----------------------------------------------------------------------------
LEMMA Initially == Init => IInv
  BY SMT DEF Init, IInv, TypeOK, Kept, AddressKept

\* A discovery clears nothing that is promised.
LEMMA DiscoverStep ==
  ASSUME IInv, NEW c \in Client, NEW arrives \in BOOLEAN, Discover(c, arrives)
  PROVE  IInv'
  <1>0. TypeOK /\ Kept /\ AddressKept
    BY DEF IInv
  <1>1. /\ lease' = [a \in Address |->
                        IF a \in Removed(c) THEN [lease[a] EXCEPT !.mac = NoMac] ELSE lease[a]]
        /\ UNCHANGED << now, promise >>
    BY DEF Discover
  <1>2. \/ UNCHANGED known
        \/ \E a \in Offered(c) : known' = [known EXCEPT ![c] = a]
    BY DEF Discover
  <1>3. \A a \in Offered(c) : /\ a \in Address
                              /\ Owned(c) # {} => a = known[c]
    BY <1>0, OfferedIsKnownOrUsable
  <1>4. \A a \in Address : /\ lease'[a].expiry = lease[a].expiry
                           /\ lease'[a].mac \in {lease[a].mac, NoMac}
                           /\ a \notin Usable => lease'[a] = lease[a]
    BY <1>0, <1>1 DEF TypeOK, Removed
  <1>5. TypeOK'
    <2>1. (lease \in [Address -> [mac : Client \cup {NoMac}, expiry : 0 .. Modulus - 1]])'
      BY <1>0, <1>1 DEF TypeOK
    <2>2. (known \in [Client -> Address \cup {Nowhere}])'
      BY <1>0, <1>2, <1>3 DEF TypeOK
    <2> QED
      BY <1>0, <1>1, <2>1, <2>2 DEF TypeOK
  <1>6. Kept'
    <2> SUFFICES ASSUME NEW d \in Client, NEW a \in Address, promise[d][a] > 0
                 PROVE  /\ lease'[a] = lease[a]
                        /\ Ahead(lease[a].expiry)' = Ahead(lease'[a].expiry)
      BY <1>0, <1>1 DEF Kept, Ahead
    <2>1. lease'[a] = lease[a]
      BY <1>0, <1>4, PromisedNotUsable
    <2> QED
      BY <1>1, <2>1 DEF Ahead
  <1>7. AddressKept'
    <2> SUFFICES ASSUME NEW d \in Client, NEW a \in Address, lease'[a].mac = d
                 PROVE  known'[d] = a
      BY DEF AddressKept
    <2>1. lease[a].mac = d
      BY <1>4
    <2>2. known[d] = a /\ a \in Owned(d)
      BY <1>0, <2>1 DEF AddressKept, Owned
    <2> QED
      BY <1>0, <1>2, <1>3, <2>2 DEF TypeOK
  <1> QED
    BY <1>5, <1>6, <1>7 DEF IInv

\* An acknowledgement goes to the owner of the entry, or takes a free one.
LEMMA RequestStep ==
  ASSUME IInv, NEW c \in Client, Request(c)
  PROVE  IInv'
  <1> DEFINE a == known[c]
             e == Expiry(Wrap(now + Lease))
  <1>0. TypeOK /\ Kept /\ AddressKept
    BY DEF IInv
  <1>1. /\ a \in Address
        /\ lease[a].mac \in {c, NoMac}
        /\ lease' = [lease EXCEPT ![a] = [mac |-> c, expiry |-> e]]
        /\ promise' = [promise EXCEPT ![c][a] = Lease]
        /\ UNCHANGED << now, known >>
    BY DEF Request, Acknowledge
  <1>2. /\ e \in 0 .. Modulus - 1
        /\ Ahead(e) >= Lease
        /\ Ahead(e) < Lease + Granule
    BY <1>0, ExpiryAhead DEF TypeOK
  <1> HIDE DEF e
  <1>3. TypeOK'
    <2>1. (lease \in [Address -> [mac : Client \cup {NoMac}, expiry : 0 .. Modulus - 1]])'
      BY <1>0, <1>1, <1>2 DEF TypeOK
    <2>2. (promise \in [Client -> [Address -> 0 .. Lease]])'
      BY <1>0, <1>1 DEF TypeOK
    <2> QED
      BY <1>0, <1>1, <2>1, <2>2 DEF TypeOK
  <1>4. Kept'
    <2> SUFFICES ASSUME NEW d \in Client, NEW b \in Address, promise'[d][b] > 0
                 PROVE  /\ lease'[b].mac = d
                        /\ Ahead(lease[b].expiry)' >= promise'[d][b]
                        /\ Ahead(lease[b].expiry)' < Lease + Granule
      BY DEF Kept, Ahead
    <2>0. \A t : Ahead(t)' = Ahead(t)
      BY <1>1 DEF Ahead
    <2>1. CASE b = a /\ d = c
      <3>1. promise'[d][b] = Lease /\ lease'[b] = [mac |-> c, expiry |-> e]
        BY <1>0, <1>1, <2>1 DEF TypeOK
      <3> QED
        BY <1>1, <1>2, <2>1, <3>1 DEF Ahead
    <2>2. CASE b = a /\ d # c
      <3>1. promise'[d][b] = promise[d][b]
        BY <1>0, <1>1, <2>2 DEF TypeOK
      <3>2. lease[b].mac = d
        BY <1>0, <3>1 DEF Kept
      <3> QED
        BY <1>1, <2>2, <3>2
    <2>3. CASE b # a
      <3>1. promise'[d][b] = promise[d][b] /\ lease'[b] = lease[b]
        BY <1>0, <1>1, <2>3 DEF TypeOK
      <3> QED
        BY <1>0, <1>1, <3>1 DEF Kept, Ahead
    <2> QED
      BY <2>1, <2>2, <2>3
  <1>5. AddressKept'
    BY <1>0, <1>1 DEF AddressKept, TypeOK
  <1> QED
    BY <1>3, <1>4, <1>5 DEF IInv

LEMMA TickStep ==
  ASSUME IInv, Tick
  PROVE  IInv'
  <1>0. TypeOK /\ Kept /\ AddressKept
    BY DEF IInv
  <1>1. /\ now' = Wrap(now + 1)
        /\ promise' = [c \in Client |-> [a \in Address |->
                          IF promise[c][a] > 0 THEN promise[c][a] - 1 ELSE 0]]
        /\ UNCHANGED << lease, known >>
    BY DEF Tick
  <1>2. TypeOK'
    <2>1. now' \in 0 .. Modulus - 1
      BY <1>0, <1>1, SMT DEF TypeOK, Wrap
    <2>2. (promise \in [Client -> [Address -> 0 .. Lease]])'
      BY <1>0, <1>1, SMT DEF TypeOK
    <2> QED
      BY <1>0, <1>1, <2>1, <2>2 DEF TypeOK
  <1>3. Kept'
    <2> SUFFICES ASSUME NEW c \in Client, NEW a \in Address, promise'[c][a] > 0
                 PROVE  /\ lease[a].mac = c
                        /\ Ahead(lease[a].expiry)' >= promise'[c][a]
                        /\ Ahead(lease[a].expiry)' < Lease + Granule
      BY <1>1 DEF Kept, Ahead
    <2>1. promise[c][a] \in Nat /\ promise'[c][a] = promise[c][a] - 1 /\ promise[c][a] > 0
      BY <1>0, <1>1 DEF TypeOK
    <2>2. /\ lease[a].mac = c
          /\ Ahead(lease[a].expiry) >= promise[c][a]
          /\ Ahead(lease[a].expiry) < Lease + Granule
      BY <1>0, <2>1 DEF Kept
    <2>3. lease[a].expiry \in 0 .. Modulus - 1 /\ now \in 0 .. Modulus - 1
      BY <1>0 DEF TypeOK
    <2>4. Ahead(lease[a].expiry) \in Int /\ Ahead(lease[a].expiry) > 0
      BY <2>1, <2>2, <2>3, SMT DEF Ahead
    <2>5. Ahead(lease[a].expiry)' = Ahead(lease[a].expiry) - 1
      <3> DEFINE t == lease[a].expiry
      <3>1. Ahead(lease[a].expiry)' = IF t >= now' THEN t - now' ELSE t - now' + Modulus
        BY <1>1 DEF Ahead
      <3>2. t \in 0 .. Modulus - 1 /\ Ahead(t) > 0
        BY <2>3, <2>4
      <3> HIDE DEF t
      <3>3. (IF t >= now' THEN t - now' ELSE t - now' + Modulus) = Ahead(t) - 1
        <4>1. now' = IF now + 1 >= Modulus THEN now + 1 - Modulus ELSE now + 1
          BY <1>1, <2>3, SMT DEF Wrap
        <4>2. t \in Int /\ now \in Int /\ Modulus \in Int /\ t < Modulus /\ now < Modulus
              /\ t >= 0 /\ now >= 0 /\ t # now
          BY <2>3, <3>2, SMT DEF Ahead
        <4> QED
          BY <4>1, <4>2, SMT DEF Ahead
      <3> QED
        BY <3>1, <3>3 DEF t
    <2> QED
      BY <2>1, <2>2, <2>4, <2>5, SMT
  <1>4. AddressKept'
    BY <1>0, <1>1 DEF AddressKept
  <1> QED
    BY <1>2, <1>3, <1>4 DEF IInv

LEMMA Inductive == IInv /\ [Next]_vars => IInv'
  <1> SUFFICES ASSUME IInv, [Next]_vars PROVE IInv'
    OBVIOUS
  <1>1. CASE Tick
    BY <1>1, TickStep
  <1>2. ASSUME NEW c \in Client, NEW arrives \in BOOLEAN, Discover(c, arrives) PROVE IInv'
    BY <1>2, DiscoverStep
  <1>3. ASSUME NEW c \in Client, Request(c) PROVE IInv'
    BY <1>3, RequestStep
  <1>4. CASE UNCHANGED vars
    BY <1>4 DEF vars, IInv, TypeOK, Kept, AddressKept, Ahead
  <1> QED
    BY <1>1, <1>2, <1>3, <1>4 DEF Next

LEMMA Invariance == Spec => []IInv
  BY Initially, Inductive, PTL DEF Spec

-----------------------------------------------------------------------------
(* Types of the table, the clock and the promises.                           *)
THEOREM TypeCorrect == Spec => []TypeOK
  BY Invariance, PTL DEF IInv

(* No address is leased to two clients at a time, whatever the width of the  *)
(* counter, if a lease and a granule are less than half of its range.        *)
THEOREM LeasesAreExclusive == Spec => []LeasesExclusive
  <1>1. IInv => LeasesExclusive
    BY DEF IInv, Kept, LeasesExclusive
  <1> QED
    BY <1>1, Invariance, PTL

(* A client has one entry at most, and is offered that one.                  *)
THEOREM ClientsKeepTheirAddress == Spec => []AddressKept
  BY Invariance, PTL DEF IInv

-----------------------------------------------------------------------------
\* The service of leases.

\* What others were promised is theirs in the table, and looks unexpired.
LEMMA TakenInTable ==
  ASSUME TypeOK, Kept, NEW c \in Client, NEW a \in Leases!Taken(c)
  PROVE  a \in Address /\ lease[a].mac \notin {c, NoMac} /\ a \notin Usable
  <1>1. PICK d \in Client \ {c} : a \in Leases!Held(d)
    BY DEF Leases!Taken
  <1>2. a \in Address /\ promise[d][a] > 0
    BY <1>1 DEF Leases!Held
  <1> QED
    BY <1>2, PromisedNotUsable DEF Kept

\* A client that was promised an address owns that entry and knows no other.
LEMMA HeldIsKnown ==
  ASSUME TypeOK, Kept, AddressKept, NEW c \in Client
  PROVE  /\ Leases!Held(c) \subseteq {known[c]}
         /\ Leases!Held(c) \subseteq Owned(c)
  BY DEF Leases!Held, Kept, AddressKept, Owned

LEMMA DiscoverImplements ==
  ASSUME IInv, NEW c \in Client, NEW arrives \in BOOLEAN, Discover(c, arrives)
  PROVE  [Leases!Next]_(Leases!vars)
  <1>0. TypeOK /\ Kept /\ AddressKept
    BY DEF IInv
  <1>1. promise' = promise
    BY DEF Discover
  <1>2. CASE UNCHANGED known
    BY <1>1, <1>2 DEF Leases!vars
  <1>3. ASSUME NEW a \in Offered(c), known' = [known EXCEPT ![c] = a]
        PROVE  Leases!Offer(c, a) /\ a \in Address
    <2>1. /\ a \in Address
          /\ Owned(c) # {} => a = known[c]
          /\ Owned(c) = {} => a \in Usable
      BY <1>0, OfferedIsKnownOrUsable
    <2>2. Leases!Held(c) \subseteq {a}
      BY <1>0, <2>1, HeldIsKnown
    <2>3. CASE Owned(c) = {}
      <3>1. a \notin Leases!Taken(c)
        BY <1>0, <2>1, <2>3, TakenInTable
      <3> QED
        BY <1>1, <1>3, <2>1, <2>2, <3>1 DEF Leases!Offer
    <2>4. CASE Owned(c) # {}
      <3>1. lease[a].mac = c
        BY <1>0, <2>1, <2>4 DEF Owned, AddressKept
      <3>2. a \notin Leases!Taken(c)
        BY <1>0, <3>1, TakenInTable
      <3> QED
        BY <1>1, <1>3, <2>1, <2>2, <3>2 DEF Leases!Offer
    <2> QED
      BY <2>3, <2>4
  <1> QED
    BY <1>2, <1>3 DEF Discover, Leases!Next

LEMMA RequestImplements ==
  ASSUME IInv, NEW c \in Client, Request(c)
  PROVE  Leases!Next
  <1>0. TypeOK /\ Kept /\ AddressKept
    BY DEF IInv
  <1>1. /\ known[c] \in Address
        /\ lease[known[c]].mac \in {c, NoMac}
        /\ promise' = [promise EXCEPT ![c][known[c]] = Lease]
        /\ UNCHANGED known
    BY DEF Request, Acknowledge
  <1>2. known[c] \notin Leases!Taken(c)
    BY <1>0, <1>1, TakenInTable
  <1>3. Leases!Held(c) \subseteq {known[c]}
    BY <1>0, HeldIsKnown
  <1>4. Leases!Grant(c, known[c])
    BY <1>1, <1>2, <1>3 DEF Leases!Grant
  <1> QED
    BY <1>1, <1>4 DEF Leases!Next

(* Table, scan and clock implement the service of leases: every offer, every *)
(* acknowledgement and every tick is one of its steps, or none.              *)
THEOREM ServerKeepsLeases == Spec => ImplementsLeaseService
  <1>1. Init => Leases!Init
    BY DEF Init, Leases!Init
  <1>2. IInv /\ [Next]_vars => [Leases!Next]_(Leases!vars)
    <2> SUFFICES ASSUME IInv, [Next]_vars PROVE [Leases!Next]_(Leases!vars)
      OBVIOUS
    <2>1. CASE Tick
      BY <2>1 DEF Tick, Leases!Next, Leases!Pass
    <2>2. ASSUME NEW c \in Client, NEW arrives \in BOOLEAN, Discover(c, arrives)
          PROVE  [Leases!Next]_(Leases!vars)
      BY <2>2, DiscoverImplements
    <2>3. ASSUME NEW c \in Client, Request(c) PROVE [Leases!Next]_(Leases!vars)
      BY <2>3, RequestImplements
    <2>4. CASE UNCHANGED vars
      BY <2>4 DEF vars, Leases!vars
    <2> QED
      BY <2>1, <2>2, <2>3, <2>4 DEF Next
  <1> QED
    BY <1>1, <1>2, Invariance, PTL DEF Spec, ImplementsLeaseService, Leases!Spec
=============================================================================
