----------------------------- MODULE TlsClient ------------------------------
(* The upload of a measurement: http_request (wifi/WiFiManager.cpp), which   *)
(* waits for `complete', and the TLS client (wifi/tls2_client.h), whose      *)
(* callbacks lwIP runs in an interrupt between any two steps of the wait.    *)
EXTENDS Integers

CONSTANTS
    Block,      \* heap blocks calloc can give for a TLS_CLIENT_T
    Pcb,        \* lwIP's control blocks
    None,       \* the null pointer
    MaxConfigs, \* TLS configurations the heap has room for
    MaxTexts    \* request texts the heap has room for

ASSUME ClientAssumption ==
    /\ None \notin Block \cup Pcb
    /\ MaxConfigs \in Nat
    /\ MaxTexts \in Nat

VARIABLES
    phase,    \* http_request: "idle", "wait"; "halted" for good
    state,    \* its TLS_CLIENT_T
    live,     \* allocated TLS_CLIENT_Ts
    tls,      \* their fields
    configs,  \* TLS configurations allocated
    texts,    \* texts of requests allocated
    stage,    \* control blocks: "free", "idle", "dns", "connecting", "established"
    arg,      \* the argument of their callbacks
    before,   \* history: what was allocated before this upload
    lost      \* history: lwIP has reported an error of this upload

lwip == << stage, arg >>
main == << phase, state, live, configs, texts, before >>
vars == << main, tls, lwip, lost >>

Phases == {"idle", "wait", "halted"}
Active == {"dns", "connecting", "established"}

Init ==
    /\ phase = "idle"
    /\ state = None
    /\ live = {}
    /\ tls = [b \in Block |-> [pcb |-> None, complete |-> FALSE]]
    /\ configs = 0
    /\ texts = 0
    /\ stage = [p \in Pcb |-> "free"]
    /\ arg = [p \in Pcb |-> None]
    /\ before = [live |-> {}, configs |-> 0, texts |-> 0]
    /\ lost = FALSE

-----------------------------------------------------------------------------
\* build_request takes a new text each time, and nothing frees one.
Texts(n) == texts + n <= MaxTexts /\ texts' = texts + n

\* The measurement and tls_client_open up to the name resolution: the text that
\* loop() logs and the text of the request, the new state, its pcb, and the
\* configuration that altcp_tls_create_config_client made.
Opened(b, p) ==
    /\ phase = "idle"
    /\ b \in Block \ live
    /\ stage[p] = "free"
    /\ configs < MaxConfigs
    /\ Texts(2)
    /\ state' = b
    /\ live' = live \cup {b}
    /\ configs' = configs + 1
    /\ before' = [live |-> live, configs |-> configs, texts |-> texts]
    /\ lost' = FALSE

OpenedAs(b, p, to) ==
    /\ stage' = [stage EXCEPT ![p] = to]
    /\ arg' = [arg EXCEPT ![p] = b]
    /\ tls' = [tls EXCEPT ![b] = [pcb |-> p, complete |-> FALSE]]

\* The name is being resolved, or is known and the connection begins, or
\* altcp_connect refuses it and the state is closed at once.
Open(b, p) ==
    /\ Opened(b, p)
    /\ phase' = "wait"
    /\ \/ OpenedAs(b, p, "dns") \/ OpenedAs(b, p, "connecting")
       \/ /\ tls' = [tls EXCEPT ![b] = [pcb |-> None, complete |-> TRUE]]
          /\ UNCHANGED lwip

\* dns_gethostbyname refuses the name (an empty one, for example): the close
\* gets the pcb for a TLS_CLIENT_T and writes through it.  That faults, or
\* http_request returns and frees nothing.  A failed mbedtls_ssl_setup exits.
OpenRefused(b, p) ==
    /\ Opened(b, p)
    /\ OpenedAs(b, p, "idle")
    /\ phase' \in {"idle", "halted"}

\* There is no memory for the state (the request has no text yet) or for the
\* pcb (none is made without a configuration): http_request returns, and what
\* it has allocated stays.
OpenFailed ==
    /\ phase = "idle"
    /\ configs' = IF configs < MaxConfigs THEN configs + 1 ELSE configs
    /\ \/ live = Block /\ Texts(1) /\ UNCHANGED live
       \/ Texts(2) /\ \E b \in Block \ live : live' = live \cup {b}
    /\ UNCHANGED << phase, state, before, tls, lwip, lost >>

\* The heap has no room for the texts of another cycle: `new' panics.
HeapSpent ==
    /\ phase = "idle"
    /\ texts + 2 > MaxTexts
    /\ phase' = "halted"
    /\ UNCHANGED << state, live, configs, texts, before, tls, lwip, lost >>

\* Mutant of Finish: the configuration stays.
FinishHalf ==
    /\ phase = "wait"
    /\ tls[state].complete
    /\ live' = live \ {state}
    /\ phase' = "idle"
    /\ UNCHANGED << state, configs, texts, before, tls, lwip, lost >>

\* The wait sees `complete' (it looks once a second), and frees the state and
\* the configuration, not the text.
Finish ==
    /\ phase = "wait"
    /\ tls[state].complete
    /\ live' = live \ {state}
    /\ configs' = configs - 1
    /\ phase' = "idle"
    /\ UNCHANGED << state, texts, before, tls, lwip, lost >>

-----------------------------------------------------------------------------
\* Mutant of Close: the flag only.
CloseFlagOnly(b) == tls' = [tls EXCEPT ![b].complete = TRUE] /\ UNCHANGED lwip

\* tls_client_close: complete, callbacks off, altcp_close or altcp_abort.
Close(b) ==
    /\ tls' = [tls EXCEPT ![b] = [pcb |-> None, complete |-> TRUE]]
    /\ stage' = [p \in Pcb |-> IF p = tls[b].pcb THEN "free" ELSE stage[p]]
    /\ arg' = [p \in Pcb |-> IF p = tls[b].pcb THEN None ELSE arg[p]]

Reach(p, to) == stage' = [stage EXCEPT ![p] = to] /\ UNCHANGED << arg, tls >>

\* Mutant of DnsFound: an unknown host is only logged.
DnsFoundDeaf(p) ==
    /\ stage[p] = "dns"
    /\ Reach(p, "connecting") \/ Reach(p, "idle")
    /\ UNCHANGED << main, lost >>

\* The name is resolved and the connection begins, or it is unknown, or
\* altcp_connect fails.
DnsFound(p) ==
    /\ stage[p] = "dns"
    /\ Reach(p, "connecting") \/ Close(arg[p])
    /\ UNCHANGED << main, lost >>

\* The connection is up (TLS included): the request is written, or not.
Connected(p) ==
    /\ stage[p] = "connecting"
    /\ Reach(p, "established") \/ Close(arg[p])
    /\ UNCHANGED << main, lost >>

\* The server has closed the connection.  Its data are only logged.
ReceivedEnd(p) ==
    /\ stage[p] = "established"
    /\ Close(arg[p])
    /\ UNCHANGED << main, lost >>

\* tls_client_poll, from 15 s after the connection began.
Poll(p) ==
    /\ stage[p] \in {"connecting", "established"}
    /\ Close(arg[p])
    /\ UNCHANGED << main, lost >>

\* tls_client_err: lwIP has freed the pcb (reset, refused, no handshake).
\* complete stays as it is.
Err(p) ==
    /\ stage[p] \in {"connecting", "established"}
    /\ tls' = [tls EXCEPT ![arg[p]].pcb = None]
    /\ stage' = [stage EXCEPT ![p] = "free"]
    /\ arg' = [arg EXCEPT ![p] = None]
    /\ lost' = TRUE
    /\ UNCHANGED main

Callbacks ==
    \E p \in Pcb : DnsFound(p) \/ Connected(p) \/ ReceivedEnd(p) \/ Poll(p) \/ Err(p)

Next ==
    \/ \E b \in Block, p \in Pcb : Open(b, p) \/ OpenRefused(b, p)
    \/ OpenFailed \/ HeapSpent
    \/ Finish
    \/ Callbacks

\* http_request waits, lwIP gives up on a name, its poll timer runs.
Fairness ==
    /\ WF_vars(Finish)
    /\ \A p \in Pcb : WF_vars(DnsFound(p)) /\ WF_vars(Poll(p))

Spec == Init /\ [][Next]_vars
FairSpec == Spec /\ Fairness
-----------------------------------------------------------------------------
(* Types: http_request never counts on a configuration the heap has not given.*)
TypeOK ==
    /\ phase \in Phases
    /\ state \in Block \cup {None}
    /\ live \subseteq Block
    /\ tls \in [Block -> [pcb : Pcb \cup {None}, complete : BOOLEAN]]
    /\ configs \in 0 .. MaxConfigs
    /\ stage \in [Pcb -> Active \cup {"free", "idle"}]
    /\ arg \in [Pcb -> Block \cup {None}]
    /\ texts \in 0 .. MaxTexts
    /\ before \in [live : SUBSET Block, configs : 0 .. MaxConfigs, texts : 0 .. MaxTexts]
    /\ lost \in BOOLEAN

(* lwIP calls back only for the upload that is waiting: no callback gets a   *)
(* state that http_request has freed, or that a later upload has reused,     *)
(* although `complete' is set before the callbacks are removed.              *)
CallbacksAreOurs ==
    \A p \in Pcb : stage[p] \in Active =>
        /\ phase = "wait" /\ arg[p] = state
        /\ state \in live /\ tls[state].pcb = p

(* An upload that came to its end has cost the heap its two texts, which     *)
(* nothing frees, and nothing more: whatever callback ended it and whatever  *)
(* earlier uploads have leaked, its state and its configuration are back.    *)
UploadCostsItsTexts ==
    [][phase = "wait" /\ phase' = "idle"
         => before = [live |-> live', configs |-> configs', texts |-> texts' - 2]]_vars

(* Every upload ends: the loop of main goes on to the next measurement.      *)
UploadEnds == phase = "wait" ~> phase = "idle"

(* Unless lwIP reports an error, an upload ends: with an unknown host, a     *)
(* refused write, a server that closes or one that keeps silent.             *)
UploadEndsUnlessLost == phase = "wait" ~> phase = "idle" \/ lost
=============================================================================
