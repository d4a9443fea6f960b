---------------------------- MODULE AccessPoint ----------------------------
(* The access point that serves the configuration form (main.cpp,           *)
(* initConfigServer): the handlers of its DHCP and DNS sockets, which lwIP  *)
(* calls on behalf of the main thread's stack frame, the walk of the DNS    *)
(* handler over a question, and the pool of packet buffers that whatever    *)
(* the radio hears passes through.  What a lease is worth is in DhcpServer, *)
(* what a form does in ConfigServer.                                        *)
EXTENDS Integers, SequencesExt

CONSTANTS
    Client,     \* phones that look for the form
    PoolSize,   \* PBUF_POOL_SIZE
    Query,      \* messages to port 53
    Header,     \* sizeof(dns_header_t)
    MaxLabel,   \* 63
    MaxName,    \* 255
    BufferSize, \* MAX_DNS_MSG_SIZE
    Refusals    \* what may fail to start: "dhcp", "dns", "open" (TCP)

\* A query: its length, QR, opcode, number of questions, and the bytes the
\* walk finds where it expects the length of a label.
QueryType == [len : Nat, qr : 0 .. 1, opcode : 0 .. 15, questions : Nat, labels : Seq(Nat)]

ASSUME AccessPointAssumption ==
    /\ PoolSize \in Nat \ {0}
    /\ \A q \in Query : q \in QueryType
    /\ Header \in Nat /\ MaxLabel \in Nat /\ MaxName \in Nat
    /\ BufferSize \in Nat /\ BufferSize >= Header + MaxName + 4 + 16
    /\ Refusals \subseteq {"dhcp", "dns", "open"}

NoReply == [at |-> 0, end |-> 0, to |-> { }]

VARIABLES
    stage,   \* where initConfigServer is
    sockets, \* udp_pcbs that are bound, with a callback
    ip,      \* whether d->ip has been copied
    pool,    \* free buffers of PBUF_POOL
    got,     \* what a client has got so far
    reply,   \* the last one: where its answer begins and ends, to what query
    answers, \* history: datagrams answered
    wild     \* history: a callback got a frame that is gone

main == << stage, sockets, ip >>
vars == << stage, sockets, ip, pool, got, reply, answers, wild >>

Init ==
    /\ stage = "ap"
    /\ sockets = {}
    /\ ip = FALSE
    /\ pool = PoolSize
    /\ got = [c \in Client |-> "link"]
    /\ reply = NoReply
    /\ answers = 0
    /\ wild = FALSE
-----------------------------------------------------------------------------
(* Main thread.                                                             *)

Advance(from, to) == stage = from /\ stage' = to /\ UNCHANGED << pool, got, reply, answers, wild >>

DhcpInit == Advance("ap", "dhcp") /\ sockets' = {"dhcp"} /\ UNCHANGED ip

\* udp_new or udp_bind fails: the server goes on without DHCP, and does not know.
DhcpRefused == "dhcp" \in Refusals /\ Advance("ap", "dhcp") /\ UNCHANGED << sockets, ip >>

\* The callback works from udp_bind on, the address is copied last.
DnsBind == Advance("dhcp", "bound") /\ sockets' = sockets \cup {"dns"} /\ UNCHANGED ip
DnsCopyIp == Advance("bound", "dns") /\ ip' = TRUE /\ UNCHANGED sockets

\* Without DNS likewise (a failed bind asserts, in a build with assertions).
DnsRefused == "dns" \in Refusals /\ Advance("dhcp", "dns") /\ UNCHANGED << sockets, ip >>

OpenTcp == Advance("dns", "serving") /\ UNCHANGED << sockets, ip >>

\* The early return: the sockets stay, the frame they point to does not.
OpenRefused == "open" \in Refusals /\ Advance("dns", "abandoned") /\ UNCHANGED << sockets, ip >>

\* complete is set, the form is saved and the server closed.
CloseTcp ==
    /\ \E c \in Client : got[c] = "form"
    /\ Advance("serving", "closed")
    /\ UNCHANGED << sockets, ip >>

\* Mutant of DnsDeinit: udp_remove is left out.
DnsKeep == Advance("closed", "nodns") /\ UNCHANGED << sockets, ip >>
DnsDeinit == Advance("closed", "nodns") /\ sockets' = sockets \ {"dns"} /\ UNCHANGED ip
DhcpDeinit == Advance("nodns", "nodhcp") /\ sockets' = sockets \ {"dhcp"} /\ UNCHANGED ip

\* The radio goes down and comes up again, in station mode.
Return == Advance("nodhcp", "returned") /\ UNCHANGED << sockets, ip >>
-----------------------------------------------------------------------------
(* DNS.                                                                     *)

\* pbuf_copy_partial
Filled(q) == IF q.len < BufferSize THEN q.len ELSE BufferSize

Foreign == {q \in Query : Filled(q) < Header \/ q.qr # 0 \/ q.opcode # 0 \/ q.questions < 1}

\* One turn of the walk, which reads the length of a label.
Label(q, walk, l) ==
    IF walk.over \/ walk.at >= Filled(q) THEN [walk EXCEPT !.over = TRUE]
    ELSE [at |-> walk.at + 1 + IF l > MaxLabel THEN 0 ELSE l,
          over |-> l = 0 \/ l > MaxLabel,
          bad |-> l > MaxLabel]

Walk == [q \in Query |->
    LET walk[n \in 0 .. Len(q.labels)] ==
          IF n = 0 THEN [at |-> Header, over |-> FALSE, bad |-> FALSE]
          ELSE Label(q, walk[n - 1], q.labels[n])
    IN  walk[Len(q.labels)]]

\* Mutant of TooLong: no check.
TooLongNever == {}
\* More than 255 bytes behind the place where the walk began.
TooLong == {q \in Query : Walk[q].at \notin Header .. Header + MaxName}

Ignored == Foreign \cup {q \in Query : Walk[q].bad} \cup TooLong

\* Mutant of AnswerAt: QTYPE is skipped, QCLASS is not.
AnswerAtClass(q) == Walk[q].at + 2
\* QNAME, QTYPE and QCLASS are skipped, the answer has 16 bytes.
AnswerAt(q) == Walk[q].at + 4
Answer(q) == [at |-> AnswerAt(q), end |-> AnswerAt(q) + 16, to |-> {q}]
-----------------------------------------------------------------------------
(* Handlers.  A datagram needs a buffer to be heard at all.                 *)

Heard(socket) ==
    /\ socket \in sockets
    /\ pool > 0
    /\ wild' = (wild \/ stage \in {"returned", "abandoned"})
    /\ UNCHANGED main

\* An ignored datagram gives its buffer back; an answered one does not.
Free == pool' = pool /\ UNCHANGED << got, answers >>
Keep == pool' = pool - 1 /\ answers' = answers + 1

\* The client gets the answer unless pbuf_alloc, udp_sendto or the air fails.
SendTo(c, what, arrives) == got' = IF arrives THEN [got EXCEPT ![c] = what] ELSE got

DnsIgnore(q) == Heard("dns") /\ q \in Ignored /\ Free /\ UNCHANGED reply

DnsAnswer(c, q, arrives) ==
    /\ Heard("dns") /\ got[c] \notin {"link", "offer"} /\ q \notin Ignored
    /\ Keep
    /\ SendTo(c, "name", arrives /\ ip /\ got[c] = "lease")
    /\ reply' = Answer(q)

\* Short, without a type, of another type, for another address: ignored.
DhcpIgnore == Heard("dhcp") /\ Free /\ UNCHANGED reply

DhcpDiscover(c, arrives) ==
    /\ Heard("dhcp") /\ got[c] = "link"
    /\ Keep /\ SendTo(c, "offer", arrives) /\ UNCHANGED reply

\* Mutant of DhcpRequest: addresses of the own subnet are taken for others.
DhcpRequestElsewhere(c, arrives) == Heard("dhcp") /\ got[c] = "offer" /\ Free /\ UNCHANGED reply
DhcpRequest(c, arrives) ==
    /\ Heard("dhcp") /\ got[c] = "offer"
    /\ Keep /\ SendTo(c, "lease", arrives) /\ UNCHANGED reply

\* tcpServerRecv takes a form, or a request for the page, and then frees the
\* packet; when it cannot answer (a result or header too long, a failed write)
\* it does not, and lwIP takes the packet back unless the close has aborted.
TcpRecv(c, what) ==
    /\ stage = "serving" /\ pool > 0 /\ got[c] = "name"
    /\ got' = [got EXCEPT ![c] = what]
    /\ pool' \in {pool, pool - 1}
    /\ UNCHANGED << main, reply, answers, wild >>
-----------------------------------------------------------------------------
MainNext ==
    \/ DhcpInit \/ DhcpRefused \/ DnsBind \/ DnsCopyIp \/ DnsRefused
    \/ OpenTcp \/ OpenRefused
    \/ CloseTcp \/ DnsDeinit \/ DhcpDeinit \/ Return

Next ==
    \/ MainNext
    \/ DhcpIgnore
    \/ \E q \in Query : DnsIgnore(q)
    \/ \E c \in Client :
         \/ \E what \in {"name", "form"} : TcpRecv(c, what)
         \/ \E arrives \in BOOLEAN :
              \/ DhcpDiscover(c, arrives)
              \/ DhcpRequest(c, arrives)
              \/ \E q \in Query : DnsAnswer(c, q, arrives)

\* The main thread runs; a client repeats what was not answered.
Fairness ==
    /\ WF_vars(MainNext)
    /\ \A c \in Client :
         /\ SF_vars(DhcpDiscover(c, TRUE)) /\ SF_vars(DhcpRequest(c, TRUE))
         /\ SF_vars(\E q \in Query : DnsAnswer(c, q, TRUE))
         /\ WF_vars(TcpRecv(c, "form"))

Spec == Init /\ [][Next]_vars
FairSpec == Spec /\ Fairness
-----------------------------------------------------------------------------
(* Types.                                                                   *)
TypeOK ==
    /\ stage \in {"ap", "dhcp", "bound", "dns", "serving", "closed", "nodns", "nodhcp", "returned",
                 "abandoned"}
    /\ sockets \subseteq {"dhcp", "dns"}
    /\ ip \in BOOLEAN
    /\ pool \in 0 .. PoolSize
    /\ got \in [Client -> {"link", "offer", "lease", "name", "form"}]
    /\ reply \in [at : Nat, end : Nat, to : SUBSET Query]
    /\ answers \in Nat
    /\ wild \in BOOLEAN

(* However the labels of a question lead the walk, behind the end of the    *)
(* message included, the answer ends within dns_msg.                        *)
AnswerFits == reply.end <= BufferSize

\* What RFC 1035 calls a question: labels, an empty one at the end.
Proper(q) ==
    /\ q.qr = 0 /\ q.opcode = 0 /\ q.questions = 1
    /\ q.labels # << >> /\ Last(q.labels) = 0
    /\ \A l \in Range(Front(q.labels)) : l \in 1 .. MaxLabel
QuestionEnd(q) ==
    LET length[n \in 0 .. Len(q.labels)] ==
          IF n = 0 THEN 0 ELSE length[n - 1] + 1 + q.labels[n]
    IN  Header + length[Len(q.labels)] + 4

(* The answer to a proper question follows its last byte: the reply is a    *)
(* message that a resolver can parse.                                       *)
AnswerFramed ==
    \A q \in reply.to : Proper(q) /\ q.len >= QuestionEnd(q) => reply.at = QuestionEnd(q)

(* lwIP calls the handlers with pointers into the frame of initConfigServer *)
(* only while that frame exists, unless the server's socket was refused.    *)
HandlersAlive == wild => stage = "abandoned"

\* initConfigServer serves on without a server that failed to start.
Crippled == stage = "serving" /\ sockets # {"dhcp", "dns"}

(* A client that keeps asking gets to the form, whatever is lost on the way, *)
(* whoever else asks and whatever request cannot be answered, while there is *)
(* a buffer to hear it and all three servers have started.                  *)
ServedUnlessDeaf ==
    <>(pool = 0 \/ stage = "abandoned" \/ Crippled \/ \E c \in Client : got[c] = "form")

(* The display invites to the network of the form until one has come in.    *)
FormGetsThrough == <>(stage = "abandoned" \/ \E c \in Client : got[c] = "form")
=============================================================================
