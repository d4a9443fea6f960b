---------------------------- MODULE ConfigServer ----------------------------
(* The configuration web server (http_server/server.h) and the main thread   *)
(* that waits for it (initConfigServer in main.cpp).  The callbacks run in   *)
(* the lwIP interrupt: each is atomic, and the main thread can be preempted  *)
(* by any of them between any two of its own steps.                          *)
EXTENDS Integers

CONSTANTS
    Pcb,        \* lwIP's protocol control blocks
    Block,      \* heap blocks calloc can give for a TCP_CONNECT_STATE_T
    None,       \* the null pointer
    Value,      \* what a form field can carry
    Unset,      \* a credentials global that no request has written
    Requests,   \* what clients send
    MaxUnacked, \* response parts lwIP queues on a connection
    Errors,     \* what lwIP reports through tcp_err: "ERR_RST", "ERR_ABRT"
    OpenFails   \* tcpServerOpen may fail

Params == {"ssid", "password", "hostname", "port"}

\* The globals are copied in this order (main.cpp:119-122).
CopyOrder == << "ssid", "password", "hostname", "port" >>

\* A GET: of /setup, with some parameters, or of anything else.
RequestType == [setup : BOOLEAN, params : UNION {[S -> Value] : S \in SUBSET Params}]

ASSUME ServerAssumption ==
    /\ None \notin Pcb \cup Block
    /\ Unset \notin Value
    /\ Requests \subseteq RequestType
    /\ MaxUnacked \in Nat
    /\ Errors \subseteq {"ERR_RST", "ERR_ABRT"}
    /\ OpenFails \in BOOLEAN

VARIABLES
    \* lwIP
    open,      \* connections that are up and have our callbacks
    arg,       \* their callback argument
    unacked,   \* response parts written and not acknowledged
    listening, \* the listening pcb has tcpServerAccept
    \* heap
    live,      \* allocated connection blocks
    conn,      \* con_state: its pcb, sent_len and header_len + result_len
    \* globals of server.h
    global,    \* ssid_, password_, hostname_, port_
    kill_server,
    complete,
    \* main thread
    phase,
    copied,    \* globals copied so far
    creds,     \* simpleWifiCredentials
    \* history
    form,      \* parameters of the request that set kill_server
    again      \* parameters came after that

lwip    == << open, arg, unacked >>
heap    == << live, conn >>
globals == << global, kill_server, form, again >>
main    == << phase, copied, creds, listening >>
vars    == << lwip, heap, globals, complete, main >>

NoForm == [f \in Params |-> Unset]

Init ==
    /\ open = {}
    /\ arg = [p \in Pcb |-> None]
    /\ unacked = [p \in Pcb |-> 0]
    /\ listening = FALSE
    /\ live = {}
    /\ conn = [b \in Block |-> [pcb |-> None, sent |-> 0, total |-> 0]]
    /\ global = NoForm /\ form = NoForm /\ creds = NoForm
    /\ kill_server = FALSE /\ complete = FALSE
    /\ phase = "open" /\ copied = 0
    /\ again = FALSE

\* cyw43_arch_deinit stops lwIP; initInfineon starts it again.
LwipRuns == phase # "off"

-----------------------------------------------------------------------------
\* Mutant of Accept: a form that has come in is not noticed.
AcceptDeaf(p, b) ==
    /\ LwipRuns /\ listening
    /\ p \in Pcb \ open
    /\ b \in Block \ live
    /\ open' = open \cup {p}
    /\ arg' = [arg EXCEPT ![p] = b]
    /\ unacked' = [unacked EXCEPT ![p] = 0]
    /\ live' = live \cup {b}
    /\ conn' = [conn EXCEPT ![b] = [pcb |-> p, sent |-> 0, total |-> 0]]
    /\ UNCHANGED << complete, globals, main >>

\* tcpServerAccept.  If calloc fails, lwIP drops the connection again.
Accept(p, b) ==
    /\ LwipRuns /\ listening
    /\ p \in Pcb \ open
    /\ b \in Block \ live
    /\ open' = open \cup {p}
    /\ arg' = [arg EXCEPT ![p] = b]
    /\ unacked' = [unacked EXCEPT ![p] = 0]
    /\ live' = live \cup {b}
    /\ conn' = [conn EXCEPT ![b] = [pcb |-> p, sent |-> 0, total |-> 0]]
    /\ complete' = (complete \/ kill_server)
    /\ UNCHANGED << globals, main >>

\* Mutant of Detach: the callbacks stay registered.
DetachNothing(p, freed) ==
    /\ unacked' = [unacked EXCEPT ![p] = 0]
    /\ live' = live \ freed
    /\ UNCHANGED << open, arg >>

\* The connection is gone for our callbacks, and these blocks are freed.
Detach(p, freed) ==
    /\ open' = open \ {p}
    /\ arg' = [arg EXCEPT ![p] = None]
    /\ unacked' = [unacked EXCEPT ![p] = 0]
    /\ live' = live \ freed

\* tcpCloseClientConnection: callbacks off, tcp_close (or tcp_abort if that
\* fails), con_state freed.  What lwIP still has queued it sends from the freed
\* block, since tcp_write was told not to copy: bytes on the wire are left out.
Close(p) == Detach(p, {arg[p]}) /\ UNCHANGED conn

Supplied(params, enough) ==
    /\ global' = [f \in Params |-> IF f \in DOMAIN params THEN params[f] ELSE global[f]]
    /\ kill_server' = (kill_server \/ enough)
    /\ form' = IF enough /\ ~kill_server THEN global' ELSE form
    /\ again' = (again \/ (kill_server /\ params # << >>))

\* Mutant of Submitted: a form is complete with three parameters.
SubmittedEarly(params) ==
    Supplied(params, \E f \in Params : Params \ {f} \subseteq DOMAIN params)

\* Mutant of Submitted: the globals are replaced by the parameters.
SubmittedReplacing(params) ==
    /\ global' = params
    /\ kill_server' = (kill_server \/ DOMAIN params = Params)
    /\ UNCHANGED << form, again >>

\* serverContent: every known parameter goes to its global; all four in one
\* request set kill_server.
Submitted(params) == Supplied(params, DOMAIN params = Params)

\* The page has a header and a body, the redirect a header only.
Parts(r) == IF r.setup THEN 2 ELSE 1

\* tcpServerRecv with a GET: the globals change before the answer is written,
\* and stay changed if tcp_write then finds no memory.
Receive(p, r) ==
    /\ LwipRuns
    /\ p \in open
    /\ IF r.setup THEN Submitted(r.params) ELSE UNCHANGED globals
    /\ \/ /\ unacked[p] + Parts(r) <= MaxUnacked
          /\ unacked' = [unacked EXCEPT ![p] = @ + Parts(r)]
          /\ conn' = [conn EXCEPT ![arg[p]].sent = 0, ![arg[p]].total = Parts(r)]
          /\ UNCHANGED << open, arg, live >>
       \/ Close(p)
    /\ UNCHANGED << complete, main >>

\* tcpServerSent: n parts acknowledged; after the last one, close.  The parts
\* of an earlier answer count as well.
Sent(p, n) ==
    /\ LwipRuns
    /\ p \in open
    /\ n \in 1 .. unacked[p]
    /\ LET b == arg[p]
       IN  IF conn[b].sent + n >= conn[b].total
           THEN Close(p)
           ELSE /\ conn' = [conn EXCEPT ![b].sent = @ + n]
                /\ unacked' = [unacked EXCEPT ![p] = @ - n]
                /\ UNCHANGED << open, arg, live >>
    /\ UNCHANGED << globals, complete, main >>

\* tcpServerRecv without data (the peer closed), tcpServerPoll (10 s idle).
Drop(p) ==
    /\ LwipRuns
    /\ p \in open
    /\ Close(p)
    /\ UNCHANGED << globals, complete, main >>

\* tcpServerErr: lwIP gives the pcb up.  After ERR_ABRT con_state is lost; any
\* other error goes down the close path, with the pcb from con_state.
Error(p, err) ==
    /\ LwipRuns
    /\ p \in open
    /\ Detach(p, IF err = "ERR_ABRT" THEN {} ELSE {arg[p]})
    /\ UNCHANGED << conn, globals, complete, main >>

-----------------------------------------------------------------------------
\* initConfigServer, from tcpServerOpen on.
OpenServer ==
    /\ phase = "open"
    /\ \/ phase' = "wait" /\ listening' = TRUE
       \/ OpenFails /\ phase' = "station" /\ UNCHANGED listening
    /\ UNCHANGED << lwip, heap, globals, complete, copied, creds >>

Wake ==
    /\ phase = "wait"
    /\ complete
    /\ phase' = "copy"
    /\ UNCHANGED << lwip, heap, globals, complete, copied, creds, listening >>

\* Mutant of CopyGlobal: one field too few.
CopyGlobalShort ==
    /\ phase = "copy"
    /\ creds' = [creds EXCEPT ![CopyOrder[copied + 1]] = global[CopyOrder[copied + 1]]]
    /\ copied' = copied + 1
    /\ phase' = IF copied + 1 = 3 THEN "save" ELSE "copy"
    /\ UNCHANGED << lwip, heap, globals, complete, listening >>

CopyGlobal ==
    /\ phase = "copy"
    /\ creds' = [creds EXCEPT ![CopyOrder[copied + 1]] = global[CopyOrder[copied + 1]]]
    /\ copied' = copied + 1
    /\ phase' = IF copied + 1 = 4 THEN "save" ELSE "copy"
    /\ UNCHANGED << lwip, heap, globals, complete, listening >>

\* The save loop is done: tcpServerClose (the listener only), then the radio
\* and lwIP with it.
CloseServer ==
    /\ phase = "save"
    /\ listening' = FALSE
    /\ phase' = "closed"
    /\ UNCHANGED << lwip, heap, globals, complete, copied, creds >>

Deinit ==
    /\ phase = "closed"
    /\ phase' = "off"
    /\ UNCHANGED << lwip, heap, globals, complete, copied, creds, listening >>

\* initInfineon, 5 s later: lwIP goes on with the connections it had.
Restart ==
    /\ phase = "off"
    /\ phase' = "station"
    /\ UNCHANGED << lwip, heap, globals, complete, copied, creds, listening >>

Main == OpenServer \/ Wake \/ CopyGlobal \/ CloseServer \/ Deinit \/ Restart

Clients ==
    \/ \E p \in Pcb, b \in Block : Accept(p, b)
    \/ \E p \in Pcb, r \in Requests : Receive(p, r)
    \/ \E p \in Pcb, n \in 1 .. MaxUnacked : Sent(p, n)
    \/ \E p \in Pcb : Drop(p)
    \/ \E p \in Pcb, err \in Errors : Error(p, err)

Next == Main \/ Clients

\* The main thread runs; a connection that answers nobody is dropped by its
\* poll timer.
Fairness == WF_vars(Main) /\ \A p \in Pcb : WF_vars(Drop(p))

\* Besides, browsers keep opening connections.
Browsing == SF_vars(\E p \in Pcb, b \in Block : Accept(p, b))

Spec == Init /\ [][Next]_vars
FairSpec == Spec /\ Fairness
BrowsingSpec == FairSpec /\ Browsing
-----------------------------------------------------------------------------
ConnType == [pcb : Pcb \cup {None}, sent : Nat, total : Nat]
FormType == [Params -> Value \cup {Unset}]

(* Types: the globals of server.h hold values or nothing, and the main thread *)
(* copies no more than four of them.                                          *)
TypeOK ==
    /\ open \subseteq Pcb /\ live \subseteq Block
    /\ arg \in [Pcb -> Block \cup {None}]
    /\ unacked \in [Pcb -> Nat]
    /\ conn \in [Block -> ConnType]
    /\ listening \in BOOLEAN /\ complete \in BOOLEAN
    /\ kill_server \in BOOLEAN /\ again \in BOOLEAN
    /\ global \in FormType /\ form \in FormType /\ creds \in FormType
    /\ phase \in {"open", "wait", "copy", "save", "closed", "off", "station"}
    /\ copied \in 0 .. 4

(* Whatever the order of accepts, requests, acknowledgements, idle timers and *)
(* errors, a callback never gets a freed block: the argument of an open       *)
(* connection is allocated, is about that connection, and about no other one, *)
(* although blocks and pcbs are reused.  The assert of server.h:81 and 195.   *)
ArgsAlive ==
    \A p \in open : arg[p] \in live /\ conn[arg[p]].pcb = p

(* Once the main thread reads the globals, each of them has been delivered by *)
(* a client: a partial form, in any order with complete ones, does not end    *)
(* the configuration with a field nobody gave.                                *)
AllSupplied ==
    phase \in {"copy", "save", "closed", "off"} =>
        \A f \in Params : global[f] # Unset

(* The credentials applied are those of the request that completed the form, *)
(* in all four fields, whatever partial forms came before it: unless further *)
(* parameters come before the main thread has copied the globals.             *)
AppliedIsTheForm ==
    phase \in {"save", "closed"} /\ ~again => creds = form

(* A form submitted is applied: the main thread gets to save it. It does if   *)
(* browsers keep opening connections; the page promises it of the click       *)
(* itself (server.h:48).                                                      *)
SubmitIsApplied == kill_server /\ phase = "wait" ~> phase = "save"
=============================================================================
