------------------------- MODULE ConfigServerProofs -------------------------
(* What holds of the configuration server for every number of connections,   *)
(* heap blocks and form values, with resets and aborted connections.         *)
EXTENDS ConfigServer, TLAPS

(* What the clients send is well formed.                                      *)
LEMMA RequestShape ==
  \A r \in Requests : r.setup \in BOOLEAN /\ DOMAIN r.params \subseteq Params
                      /\ \A f \in DOMAIN r.params : r.params[f] \in Value
  <1> SUFFICES ASSUME NEW r \in Requests
               PROVE  r.setup \in BOOLEAN /\ DOMAIN r.params \subseteq Params
                      /\ \A f \in DOMAIN r.params : r.params[f] \in Value
    OBVIOUS
  <1>1. r \in RequestType
    BY ServerAssumption
  <1>2. PICK S \in SUBSET Params : r.params \in [S -> Value]
    BY <1>1 DEF RequestType
  <1> QED
    BY <1>1, <1>2 DEF RequestType

(* The main thread copies each global once.                                   *)
CopyBound ==
    /\ phase \in {"open", "wait"} => copied = 0
    /\ phase = "copy" => copied < 4

TypeInv == TypeOK /\ CopyBound

LEMMA TypeInit == Init => TypeInv
  <1> SUFFICES ASSUME Init PROVE TypeInv
    OBVIOUS
  <1>1. conn \in [Block -> ConnType] /\ unacked \in [Pcb -> Nat]
    BY DEF Init, ConnType
  <1>2. global \in FormType /\ form \in FormType /\ creds \in FormType
    BY DEF Init, NoForm, FormType
  <1>3. arg \in [Pcb -> Block \cup {None}]
    BY DEF Init
  <1>4. /\ listening \in BOOLEAN /\ complete \in BOOLEAN
        /\ kill_server \in BOOLEAN /\ again \in BOOLEAN
    BY Zenon DEF Init
  <1> QED
    BY <1>1, <1>2, <1>3, <1>4 DEF Init, TypeInv, CopyBound, TypeOK

(* The globals keep their type through a request.                             *)
LEMMA SuppliedType ==
  ASSUME TypeOK, NEW r \in Requests, Submitted(r.params)
  PROVE  /\ global' \in FormType /\ form' \in FormType
         /\ kill_server' \in BOOLEAN /\ again' \in BOOLEAN
  <1>1. global' \in FormType
    BY RequestShape DEF Submitted, Supplied, TypeOK, FormType
  <1> QED
    BY <1>1 DEF Submitted, Supplied, TypeOK

(* Closing a connection keeps the types of what lwIP and the heap hold.       *)
LEMMA DetachType ==
  ASSUME TypeOK, NEW p \in Pcb, NEW freed, Detach(p, freed)
  PROVE  /\ open' \subseteq Pcb /\ live' \subseteq Block
         /\ arg' \in [Pcb -> Block \cup {None}] /\ unacked' \in [Pcb -> Nat]
  BY DEF TypeOK, Detach

LEMMA TypeStep == TypeInv /\ [Next]_vars => TypeInv'
  <1> SUFFICES ASSUME TypeInv, [Next]_vars PROVE TypeInv'
    OBVIOUS
  <1> USE DEF TypeInv, TypeOK, CopyBound
  <1>1. ASSUME NEW p \in Pcb, NEW b \in Block, Accept(p, b) PROVE TypeInv'
    <2>1. conn' \in [Block -> ConnType]
      BY <1>1 DEF Accept, ConnType
    <2> QED
      BY <1>1, <2>1 DEF Accept, globals, main
  <1>2. ASSUME NEW p \in Pcb, NEW r \in Requests, Receive(p, r) PROVE TypeInv'
    <2>1. /\ global' \in FormType /\ form' \in FormType
          /\ kill_server' \in BOOLEAN /\ again' \in BOOLEAN
      BY <1>2, SuppliedType DEF Receive, globals
    <2>2. UNCHANGED << complete, main >>
      BY <1>2 DEF Receive, Close
    <2>3. /\ open' \subseteq Pcb /\ live' \subseteq Block
          /\ arg' \in [Pcb -> Block \cup {None}] /\ unacked' \in [Pcb -> Nat]
          /\ conn' \in [Block -> ConnType]
      <3>1. CASE Close(p)
        BY <3>1, DetachType DEF Close
      <3>2. CASE ~Close(p)
        <4>1. Parts(r) \in Nat
          BY DEF Parts
        <4>2. conn' \in [Block -> ConnType]
          BY <1>2, <3>2, <4>1 DEF Receive, ConnType
        <4> QED
          BY <1>2, <3>2, <4>1, <4>2 DEF Receive
      <3> QED
        BY <3>1, <3>2
    <2> QED
      BY <2>1, <2>2, <2>3 DEF main
  <1>3. ASSUME NEW p \in Pcb, NEW n \in 1 .. MaxUnacked, Sent(p, n) PROVE TypeInv'
    <2>1. UNCHANGED << globals, complete, main >>
      BY <1>3 DEF Sent, Close
    <2>2. CASE Close(p)
      BY <2>1, <2>2, DetachType DEF Close, globals, main
    <2>3. CASE ~Close(p)
      <3>1. /\ conn' = [conn EXCEPT ![arg[p]].sent = @ + n]
            /\ unacked' = [unacked EXCEPT ![p] = @ - n]
            /\ n \in 1 .. unacked[p]
            /\ UNCHANGED << open, arg, live >>
        BY <1>3, <2>3 DEF Sent
      <3>2. conn' \in [Block -> ConnType]
        <4>1. n \in Nat
          BY ServerAssumption
        <4>2. \A b \in Block : conn[b] \in ConnType
          OBVIOUS
        <4>3. \A b \in Block : [conn[b] EXCEPT !.sent = @ + n] \in ConnType
          BY <4>1, <4>2 DEF ConnType
        <4> QED
          BY <3>1, <4>2, <4>3
      <3>3. unacked' \in [Pcb -> Nat]
        BY <3>1
      <3> QED
        BY <2>1, <3>1, <3>2, <3>3 DEF globals, main
    <2> QED
      BY <2>2, <2>3
  <1>4. ASSUME NEW p \in Pcb, Drop(p) PROVE TypeInv'
    <2>1. Detach(p, {arg[p]}) /\ UNCHANGED << conn, globals, complete, main >>
      BY <1>4 DEF Drop, Close
    <2> QED
      BY <2>1, DetachType DEF globals, main
  <1>5. ASSUME NEW p \in Pcb, NEW err \in Errors, Error(p, err) PROVE TypeInv'
    <2>1. PICK freed : Detach(p, freed)
      BY <1>5 DEF Error
    <2> QED
      BY <1>5, <2>1, DetachType DEF Error, globals, main
  <1>6. CASE Main
    <2>1. UNCHANGED << lwip, heap, globals, complete >>
      BY <1>6 DEF Main, OpenServer, Wake, CopyGlobal, CloseServer, Deinit, Restart
    <2>2. CASE CopyGlobal
      <3>1. copied' \in 0 .. 4
        BY <2>2 DEF CopyGlobal
      <3>2. creds' \in FormType
        BY <2>2 DEF CopyGlobal, FormType
      <3> QED
        BY <2>1, <2>2, <3>1, <3>2 DEF CopyGlobal, lwip, heap, globals
    <2>3. CASE OpenServer \/ Wake
      <3>1. listening' \in BOOLEAN
        BY <2>3, Zenon DEF OpenServer, Wake
      <3> QED
        BY <2>1, <2>3, <3>1 DEF OpenServer, Wake, lwip, heap, globals
    <2>4. CASE CloseServer \/ Deinit \/ Restart
      <3>1. listening' \in BOOLEAN
        BY <2>4, Zenon DEF CloseServer, Deinit, Restart
      <3> QED
        BY <2>1, <2>4, <3>1 DEF CloseServer, Deinit, Restart, lwip, heap, globals
    <2> QED
      BY <1>6, <2>2, <2>3, <2>4 DEF Main
  <1>7. CASE UNCHANGED vars
    BY <1>7 DEF vars, lwip, heap, globals, main
  <1> QED
    BY <1>1, <1>2, <1>3, <1>4, <1>5, <1>6, <1>7 DEF Next, Clients

(* The variables keep their types in every behaviour.                         *)
THEOREM TypeCorrect == Spec => []TypeOK
  <1>1. TypeInv => TypeOK
    BY DEF TypeInv
  <1> QED
    BY <1>1, TypeInit, TypeStep, PTL DEF Spec

-----------------------------------------------------------------------------
LEMMA ArgsInit == Init => ArgsAlive
  BY DEF Init, ArgsAlive

(* Detaching one connection leaves the others with live blocks of their own.  *)
LEMMA DetachKeepsArgs ==
  ASSUME TypeOK, ArgsAlive, NEW p \in Pcb, p \in open, conn' = conn,
         NEW freed \in SUBSET {arg[p]}, Detach(p, freed)
  PROVE  ArgsAlive'
  <1> SUFFICES ASSUME NEW q \in open'
               PROVE  arg'[q] \in live' /\ conn'[arg'[q]].pcb = q
    BY DEF ArgsAlive
  <1>1. q \in open /\ q # p /\ arg'[q] = arg[q]
    BY DEF Detach, TypeOK
  <1>2. arg[q] # arg[p]
    BY <1>1 DEF ArgsAlive
  <1> QED
    BY <1>1, <1>2 DEF ArgsAlive, Detach

LEMMA ArgsStep ==
  ASSUME TypeOK, ArgsAlive, [Next]_vars
  PROVE  ArgsAlive'
  <1>1. ASSUME NEW p \in Pcb, NEW b \in Block, Accept(p, b) PROVE ArgsAlive'
    <2> SUFFICES ASSUME NEW q \in open'
                 PROVE  arg'[q] \in live' /\ conn'[arg'[q]].pcb = q
      BY DEF ArgsAlive
    <2>1. CASE q = p
      BY <1>1, <2>1 DEF Accept, TypeOK
    <2>2. CASE q # p
      <3>1. q \in open /\ arg'[q] = arg[q] /\ arg[q] # b
        BY <1>1, <2>2 DEF Accept, TypeOK, ArgsAlive
      <3> QED
        BY <1>1, <3>1 DEF Accept, TypeOK, ArgsAlive
    <2> QED
      BY <2>1, <2>2
  <1>2. ASSUME NEW p \in Pcb, NEW r \in Requests, Receive(p, r) PROVE ArgsAlive'
    <2>1. CASE Close(p)
      BY <1>2, <2>1, DetachKeepsArgs DEF Receive, Close
    <2>2. CASE ~Close(p)
      <3>1. /\ conn' = [conn EXCEPT ![arg[p]].sent = 0, ![arg[p]].total = Parts(r)]
            /\ UNCHANGED << open, arg, live >>
        BY <1>2, <2>2 DEF Receive
      <3>2. \A b \in Block : conn'[b].pcb = conn[b].pcb
        BY <3>1 DEF TypeOK, ConnType
      <3> QED
        BY <3>1, <3>2 DEF ArgsAlive, TypeOK
    <2> QED
      BY <2>1, <2>2
  <1>3. ASSUME NEW p \in Pcb, NEW n \in 1 .. MaxUnacked, Sent(p, n) PROVE ArgsAlive'
    <2>1. CASE Close(p)
      BY <1>3, <2>1, DetachKeepsArgs DEF Sent, Close
    <2>2. CASE ~Close(p)
      <3>1. /\ conn' = [conn EXCEPT ![arg[p]].sent = @ + n]
            /\ UNCHANGED << open, arg, live >>
        BY <1>3, <2>2 DEF Sent
      <3>2. \A b \in Block : conn'[b].pcb = conn[b].pcb
        BY <3>1 DEF TypeOK, ConnType
      <3> QED
        BY <3>1, <3>2 DEF ArgsAlive, TypeOK
    <2> QED
      BY <2>1, <2>2
  <1>4. ASSUME NEW p \in Pcb, Drop(p) PROVE ArgsAlive'
    BY <1>4, DetachKeepsArgs DEF Drop, Close
  <1>5. ASSUME NEW p \in Pcb, NEW err \in Errors, Error(p, err) PROVE ArgsAlive'
    BY <1>5, DetachKeepsArgs DEF Error
  <1>6. CASE Main
    <2>1. UNCHANGED << open, arg, live, conn >>
      BY <1>6 DEF Main, OpenServer, Wake, CopyGlobal, CloseServer, Deinit, Restart,
                  lwip, heap
    <2> QED
      BY <2>1 DEF ArgsAlive
  <1>7. CASE UNCHANGED vars
    BY <1>7 DEF vars, lwip, heap, ArgsAlive
  <1> QED
    BY <1>1, <1>2, <1>3, <1>4, <1>5, <1>6, <1>7 DEF Next, Clients

(* No callback of an open connection gets a freed block or that of another    *)
(* connection: for any number of connections, in any order of events.         *)
THEOREM CallbacksGetLiveBlocks == Spec => []ArgsAlive
  <1>1. TypeInv => TypeOK
    BY DEF TypeInv
  <1>2. (TypeInv /\ ArgsAlive) /\ [Next]_vars => (TypeInv /\ ArgsAlive)'
    BY <1>1, TypeStep, ArgsStep
  <1> QED
    BY <1>2, TypeInit, ArgsInit, PTL DEF Spec

-----------------------------------------------------------------------------
(* The main thread goes on only after kill_server was set, and kill_server is *)
(* only set by a request that carries every field.  The globals stay those of *)
(* that request until parameters come again; what is copied is a part of them.*)
FormInv ==
    /\ complete => kill_server
    /\ phase \in {"copy", "save", "closed", "off"} => complete
    /\ kill_server => \A f \in Params : global[f] # Unset
    /\ kill_server /\ ~again => global = form
    /\ phase = "copy" /\ ~again =>
          \A i \in 1 .. copied : creds[CopyOrder[i]] = form[CopyOrder[i]]
    /\ phase \in {"save", "closed", "off"} /\ ~again => creds = form

LEMMA FormInit == Init => FormInv
  BY DEF Init, FormInv

LEMMA SuppliedKeepsForm ==
  ASSUME TypeOK, FormInv, NEW r \in Requests, Submitted(r.params),
         UNCHANGED << complete, main >>
  PROVE  FormInv'
  <1> USE DEF FormInv
  <1>1. DOMAIN r.params \subseteq Params /\ \A f \in DOMAIN r.params : r.params[f] \in Value
    BY RequestShape
  <1>2. Unset \notin Value
    BY ServerAssumption
  <1>3. /\ global' = [f \in Params |-> IF f \in DOMAIN r.params THEN r.params[f] ELSE global[f]]
        /\ kill_server' = (kill_server \/ DOMAIN r.params = Params)
        /\ form' = IF DOMAIN r.params = Params /\ ~kill_server THEN global' ELSE form
        /\ again' = (again \/ (kill_server /\ r.params # << >>))
    BY DEF Submitted, Supplied
  <1>4. kill_server' => \A f \in Params : global'[f] # Unset
    BY <1>1, <1>2, <1>3
  <1>5. UNCHANGED << phase, copied, creds >>
    BY DEF main
  <1>6. CASE ~kill_server
    <2>1. complete' = complete /\ ~complete
      BY <1>6
    <2>2. phase' \notin {"copy", "save", "closed", "off"}
      BY <1>5, <2>1
    <2>3. kill_server' => global' = form'
      BY <1>3, <1>6
    <2> QED
      BY <1>4, <2>1, <2>2, <2>3
  <1>7. CASE kill_server /\ ~again'
    <2>1. r.params = << >> /\ ~again /\ form' = form /\ kill_server'
      BY <1>3, <1>7 DEF TypeOK
    <2>2. DOMAIN r.params = {}
      BY <2>1
    <2>3. global' = global
      BY <1>3, <2>2 DEF TypeOK, FormType
    <2> QED
      BY <1>4, <1>5, <1>7, <2>1, <2>3
  <1>8. CASE kill_server /\ again'
    BY <1>3, <1>4, <1>5, <1>8
  <1> QED
    BY <1>6, <1>7, <1>8

LEMMA FormStep ==
  ASSUME TypeInv, FormInv, [Next]_vars
  PROVE  FormInv'
  <1> USE DEF FormInv
  <1>0. TypeOK /\ CopyBound
    BY DEF TypeInv
  <1>1. ASSUME NEW p \in Pcb, NEW b \in Block, Accept(p, b) PROVE FormInv'
    BY <1>1 DEF Accept, globals, main
  <1>2. ASSUME NEW p \in Pcb, NEW r \in Requests, Receive(p, r) PROVE FormInv'
    <2>1. UNCHANGED << complete, main >>
      BY <1>2 DEF Receive
    <2>2. CASE Submitted(r.params)
      BY <1>0, <2>1, <2>2, SuppliedKeepsForm
    <2>3. CASE UNCHANGED globals
      BY <2>1, <2>3 DEF globals, main
    <2> QED
      BY <1>2, <2>2, <2>3 DEF Receive
  <1>3. ASSUME NEW p \in Pcb, NEW n \in 1 .. MaxUnacked, Sent(p, n) PROVE FormInv'
    BY <1>3 DEF Sent, globals, main
  <1>4. ASSUME NEW p \in Pcb, Drop(p) PROVE FormInv'
    BY <1>4 DEF Drop, globals, main
  <1>8. ASSUME NEW p \in Pcb, NEW err \in Errors, Error(p, err) PROVE FormInv'
    BY <1>8 DEF Error, globals, main
  <1>5. CASE CopyGlobal
    <2> DEFINE f == CopyOrder[copied + 1]
    <2>1. /\ creds' = [creds EXCEPT ![f] = global[f]] /\ copied' = copied + 1
          /\ phase' = IF copied + 1 = 4 THEN "save" ELSE "copy"
          /\ UNCHANGED << globals, complete >> /\ phase = "copy" /\ copied \in 0 .. 3
      BY <1>0, <1>5 DEF CopyGlobal, TypeOK, CopyBound
    <2>2. \A i \in 1 .. 4 : CopyOrder[i] \in Params
      BY DEF CopyOrder, Params
    <2>3. \A i \in 1 .. copied : CopyOrder[i] # f
      BY <2>1 DEF CopyOrder
    <2>4. ~again => \A i \in 1 .. copied' : creds'[CopyOrder[i]] = form[CopyOrder[i]]
      <3> SUFFICES ASSUME ~again, NEW i \in 1 .. copied'
                   PROVE  creds'[CopyOrder[i]] = form[CopyOrder[i]]
        OBVIOUS
      <3>1. CASE i = copied + 1
        <4>1. global = form
          BY <2>1
        <4>2. f \in Params
          BY <2>1, <2>2
        <4> QED
          BY <1>0, <2>1, <3>1, <4>1, <4>2 DEF TypeOK, FormType
      <3>2. CASE i \in 1 .. copied
        <4>1. creds[CopyOrder[i]] = form[CopyOrder[i]]
          BY <2>1, <3>2
        <4>2. CopyOrder[i] # f
          BY <2>3, <3>2
        <4>3. CopyOrder[i] \in Params
          BY <2>1, <2>2, <3>2
        <4> QED
          BY <1>0, <2>1, <4>1, <4>2, <4>3 DEF TypeOK, FormType
      <3> QED
        BY <2>1, <3>1, <3>2
    <2>5. copied' = 4 /\ ~again => creds' = form
      <3>1. Params = {CopyOrder[1], CopyOrder[2], CopyOrder[3], CopyOrder[4]}
        BY DEF CopyOrder, Params
      <3>2. creds' \in [Params -> Value \cup {Unset}] /\ form \in [Params -> Value \cup {Unset}]
        <4>1. global \in FormType /\ creds \in FormType /\ form \in FormType
          BY <1>0 DEF TypeOK
        <4>2. f \in Params
          BY <2>1, <2>2
        <4> QED
          BY <2>1, <4>1, <4>2 DEF FormType
      <3>3. copied' = 4 /\ ~again => \A g \in Params : creds'[g] = form[g]
        BY <2>4, <3>1
      <3> QED
        BY <3>2, <3>3
    <2> QED
      BY <2>1, <2>4, <2>5 DEF globals
  <1>6. CASE OpenServer \/ Wake \/ CloseServer \/ Deinit \/ Restart
    BY <1>0, <1>6 DEF OpenServer, Wake, CloseServer, Deinit, Restart, globals, CopyBound
  <1>7. CASE UNCHANGED vars
    BY <1>7 DEF vars, globals, main
  <1> QED
    BY <1>1, <1>2, <1>3, <1>4, <1>5, <1>6, <1>7, <1>8 DEF Next, Main, Clients

LEMMA FormHolds == Spec => []FormInv
  <1>1. (TypeInv /\ FormInv) /\ [Next]_vars => (TypeInv /\ FormInv)'
    BY TypeStep, FormStep
  <1> QED
    BY <1>1, TypeInit, FormInit, PTL DEF Spec

(* The main thread never takes over a global that no client has supplied.     *)
THEOREM EveryFieldIsSupplied == Spec => []AllSupplied
  <1>1. FormInv => AllSupplied
    BY DEF FormInv, AllSupplied
  <1> QED
    BY <1>1, FormHolds, PTL

(* If no parameters come after the form was complete, the credentials are     *)
(* that form, although the copy can be interrupted between any two fields.    *)
THEOREM CredentialsAreTheForm == Spec => []AppliedIsTheForm
  <1>1. FormInv => AppliedIsTheForm
    BY DEF FormInv, AppliedIsTheForm
  <1> QED
    BY <1>1, FormHolds, PTL
=============================================================================
