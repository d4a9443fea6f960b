--------------------------- MODULE TlsClientProofs --------------------------
(* Proofs about TlsClient, for every number of states, control blocks,       *)
(* configurations and texts.                                                 *)
EXTENDS TlsClient, TLAPS

USE ClientAssumption

\* While http_request waits, the heap is what it was, with its own state, its
\* configuration and its texts on top; a complete state has no callback left.
Waiting ==
    phase = "wait" =>
        /\ state \in live
        /\ before = [live |-> live \ {state}, configs |-> configs - 1, texts |-> texts - 2]

CompleteIsClosed ==
    \A p \in Pcb : stage[p] \in Active => ~tls[state].complete

IInv == TypeOK /\ CallbacksAreOurs /\ Waiting /\ CompleteIsClosed

LEMMA Initially == Init => IInv
  <1> SUFFICES ASSUME Init PROVE IInv
    OBVIOUS
  <1>1. lost \in BOOLEAN
    BY Zenon DEF Init
  <1>2. TypeOK
    BY <1>1 DEF Init, TypeOK, Phases
  <1> QED
    BY <1>2 DEF Init, IInv, CallbacksAreOurs, Waiting, CompleteIsClosed, Active

-----------------------------------------------------------------------------
\* A close of the state that waits leaves no callback, and nothing of main.
LEMMA CloseStep ==
  ASSUME IInv, NEW p \in Pcb, stage[p] \in Active, Close(arg[p]), UNCHANGED << main, lost >>
  PROVE  IInv'
  <1> USE DEF IInv
  <1>1. arg[p] = state /\ state \in Block /\ tls[state].pcb = p
    BY DEF CallbacksAreOurs, TypeOK
  <1>2. /\ tls' = [tls EXCEPT ![state] = [pcb |-> None, complete |-> TRUE]]
        /\ stage' = [q \in Pcb |-> IF q = p THEN "free" ELSE stage[q]]
        /\ arg' = [q \in Pcb |-> IF q = p THEN None ELSE arg[q]]
    BY <1>1 DEF Close
  <1>3. UNCHANGED << phase, state, live, configs, texts, before, lost >>
    BY DEF main
  <1>4. TypeOK'
    BY <1>1, <1>2, <1>3 DEF TypeOK
  <1>5. \A q \in Pcb : stage'[q] \notin Active
    BY <1>1, <1>2 DEF CallbacksAreOurs, Active
  <1> QED
    BY <1>3, <1>4, <1>5 DEF CallbacksAreOurs, Waiting, CompleteIsClosed

\* A connection that gets further keeps its state.
LEMMA ReachStep ==
  ASSUME IInv, NEW p \in Pcb, stage[p] \in Active,
         NEW to \in Active, Reach(p, to), UNCHANGED << main, lost >>
  PROVE  IInv'
  <1> USE DEF IInv
  <1>1. /\ stage' = [stage EXCEPT ![p] = to]
        /\ UNCHANGED << arg, tls, phase, state, live, configs, texts, before, lost >>
    BY DEF Reach, main
  <1>2. TypeOK'
    BY <1>1 DEF TypeOK
  <1>3. \A q \in Pcb : stage'[q] \in Active => stage[q] \in Active
    BY <1>1 DEF TypeOK
  <1> QED
    BY <1>1, <1>2, <1>3 DEF CallbacksAreOurs, Waiting, CompleteIsClosed

LEMMA ErrStep ==
  ASSUME IInv, NEW p \in Pcb, Err(p)
  PROVE  IInv'
  <1> USE DEF IInv
  <1>1. stage[p] \in Active
    BY DEF Err, Active
  <1>2. arg[p] = state /\ state \in Block /\ tls[state].pcb = p
    BY <1>1 DEF CallbacksAreOurs, TypeOK
  <1>3. /\ tls' = [tls EXCEPT ![state] = [@ EXCEPT !.pcb = None]]
        /\ stage' = [stage EXCEPT ![p] = "free"]
        /\ arg' = [arg EXCEPT ![p] = None]
        /\ lost' = TRUE
        /\ UNCHANGED << phase, state, live, configs, texts, before >>
    BY <1>2 DEF Err, main
  <1>4. TypeOK'
    BY <1>2, <1>3 DEF TypeOK
  <1>5. \A q \in Pcb : stage'[q] \notin Active
    BY <1>2, <1>3 DEF CallbacksAreOurs, Active, TypeOK
  <1> QED
    BY <1>3, <1>4, <1>5 DEF CallbacksAreOurs, Waiting, CompleteIsClosed

\* While nothing waits, no callback is active: a new upload finds none.
LEMMA OpenStep ==
  ASSUME IInv, NEW b \in Block, NEW p \in Pcb, Open(b, p) \/ OpenRefused(b, p)
  PROVE  IInv'
  <1> USE DEF IInv
  <1>1. /\ phase = "idle" /\ b \in Block \ live /\ configs < MaxConfigs
        /\ state' = b /\ live' = live \cup {b} /\ configs' = configs + 1
        /\ texts + 2 <= MaxTexts /\ texts' = texts + 2 /\ lost' = FALSE
        /\ before' = [live |-> live, configs |-> configs, texts |-> texts]
    BY DEF Open, OpenRefused, Opened, Texts
  <1>2. \A q \in Pcb : stage[q] \notin Active
    BY <1>1 DEF CallbacksAreOurs
  <1>3. Waiting'
    <2>1. live = live' \ {state'} /\ configs = configs' - 1 /\ texts = texts' - 2
      BY <1>1 DEF TypeOK
    <2> QED
      BY <1>1, <2>1 DEF Waiting
  <1>4. /\ configs' \in 0 .. MaxConfigs /\ state' \in Block /\ live' \subseteq Block
        /\ before' \in [live : SUBSET Block, configs : 0 .. MaxConfigs, texts : 0 .. MaxTexts]
        /\ texts' \in 0 .. MaxTexts /\ lost' \in BOOLEAN
    <2>1. lost' \in BOOLEAN
      BY <1>1, Zenon
    <2> QED
      BY <1>1, <2>1 DEF TypeOK
  <1>5. ASSUME NEW to \in Active, OpenedAs(b, p, to), phase' = "wait" PROVE IInv'
    <2>1. \A q \in Pcb : stage'[q] \in Active => q = p
      BY <1>2, <1>5 DEF OpenedAs, TypeOK
    <2>2. arg'[p] = b /\ tls'[b] = [pcb |-> p, complete |-> FALSE]
      BY <1>5 DEF OpenedAs, TypeOK
    <2>3. TypeOK'
      BY <1>4, <1>5 DEF OpenedAs, TypeOK, Phases
    <2> QED
      BY <1>1, <1>3, <1>5, <2>1, <2>2, <2>3 DEF CallbacksAreOurs, CompleteIsClosed
  <1>6. ASSUME \A q \in Pcb : stage'[q] \notin Active, TypeOK' PROVE IInv'
    BY <1>3, <1>6 DEF CallbacksAreOurs, CompleteIsClosed
  <1>7. CASE OpenRefused(b, p)
    <2>1. OpenedAs(b, p, "idle") /\ phase' \in {"idle", "halted"}
      BY <1>7 DEF OpenRefused
    <2>2. \A q \in Pcb : stage'[q] \notin Active
      BY <1>2, <2>1 DEF OpenedAs, TypeOK, Active
    <2>3. TypeOK'
      BY <1>4, <2>1 DEF OpenedAs, TypeOK, Phases
    <2> QED
      BY <1>6, <2>2, <2>3
  <1>8. CASE Open(b, p)
    <2>1. CASE OpenedAs(b, p, "dns") \/ OpenedAs(b, p, "connecting")
      BY <1>5, <1>8, <2>1 DEF Open, Active
    <2>2. CASE /\ tls' = [tls EXCEPT ![b] = [pcb |-> None, complete |-> TRUE]]
               /\ UNCHANGED lwip
      <3>1. \A q \in Pcb : stage'[q] \notin Active
        BY <1>2, <2>2 DEF lwip
      <3>2. TypeOK'
        BY <1>4, <1>8, <2>2 DEF Open, lwip, TypeOK, Phases
      <3> QED
        BY <1>6, <3>1, <3>2
    <2> QED
      BY <1>8, <2>1, <2>2 DEF Open
  <1> QED
    BY <1>7, <1>8

\* The wait ends when no callback is left, and gives back all but the texts.
LEMMA FinishStep ==
  ASSUME IInv, Finish
  PROVE  /\ IInv'
         /\ before = [live |-> live', configs |-> configs', texts |-> texts' - 2]
  <1> USE DEF IInv
  <1>1. /\ phase = "wait" /\ tls[state].complete
        /\ live' = live \ {state} /\ configs' = configs - 1 /\ phase' = "idle"
        /\ UNCHANGED << state, texts, before, tls, stage, arg, lost >>
    BY DEF Finish, lwip
  <1>2. before = [live |-> live', configs |-> configs', texts |-> texts' - 2]
    BY <1>1 DEF Waiting
  <1>3. configs' \in 0 .. MaxConfigs
    BY <1>1, <1>2 DEF TypeOK
  <1>4. TypeOK'
    BY <1>1, <1>3 DEF TypeOK, Phases
  <1>5. \A q \in Pcb : stage'[q] \notin Active
    BY <1>1 DEF CompleteIsClosed
  <1> QED
    BY <1>1, <1>2, <1>4, <1>5 DEF CallbacksAreOurs, Waiting, CompleteIsClosed

\* A failed upload can only leak.
LEMMA OpenFailedStep ==
  ASSUME IInv, OpenFailed
  PROVE  IInv'
  <1> USE DEF IInv
  <1>1. /\ phase = "idle" /\ live' \subseteq Block /\ configs' \in 0 .. MaxConfigs
        /\ texts' \in 0 .. MaxTexts
        /\ UNCHANGED << phase, state, before, tls, stage, arg, lost >>
    BY DEF OpenFailed, Texts, TypeOK, lwip
  <1>2. TypeOK'
    BY <1>1 DEF TypeOK
  <1> QED
    BY <1>1, <1>2 DEF CallbacksAreOurs, Waiting, CompleteIsClosed

LEMMA HeapSpentStep ==
  ASSUME IInv, HeapSpent
  PROVE  IInv'
  BY DEF IInv, HeapSpent, TypeOK, Phases, CallbacksAreOurs, Waiting, CompleteIsClosed, lwip

LEMMA Inductive == IInv /\ [Next]_vars => IInv'
  <1> SUFFICES ASSUME IInv, [Next]_vars PROVE IInv'
    OBVIOUS
  <1>1. ASSUME NEW b \in Block, NEW p \in Pcb, Open(b, p) \/ OpenRefused(b, p) PROVE IInv'
    BY <1>1, OpenStep
  <1>2. CASE OpenFailed
    BY <1>2, OpenFailedStep
  <1>7. CASE HeapSpent
    BY <1>7, HeapSpentStep
  <1>3. CASE Finish
    BY <1>3, FinishStep
  <1>4. ASSUME NEW p \in Pcb, DnsFound(p) \/ Connected(p) \/ ReceivedEnd(p) \/ Poll(p) PROVE IInv'
    <2>1. stage[p] \in Active /\ UNCHANGED << main, lost >>
      BY <1>4 DEF DnsFound, Connected, ReceivedEnd, Poll, Active
    <2>2. \/ Close(arg[p])
          \/ Reach(p, "connecting") \/ Reach(p, "established")
      BY <1>4 DEF DnsFound, Connected, ReceivedEnd, Poll
    <2> QED
      BY <2>1, <2>2, CloseStep, ReachStep DEF Active
  <1>5. ASSUME NEW p \in Pcb, Err(p) PROVE IInv'
    BY <1>5, ErrStep
  <1>6. CASE UNCHANGED vars
    BY <1>6 DEF vars, main, lwip, IInv, TypeOK, CallbacksAreOurs, Waiting, CompleteIsClosed
  <1> QED
    BY <1>1, <1>2, <1>3, <1>4, <1>5, <1>6, <1>7 DEF Next, Callbacks

LEMMA Invariance == Spec => []IInv
  BY Initially, Inductive, PTL DEF Spec

-----------------------------------------------------------------------------
(* Types of the client's state.                                              *)
THEOREM TypeCorrect == Spec => []TypeOK
  BY Invariance, PTL DEF IInv

(* lwIP calls back only for the upload that is waiting, with its own state.  *)
THEOREM CallbacksGetOurState == Spec => []CallbacksAreOurs
  BY Invariance, PTL DEF IInv

(* An upload that came to its end has freed its state and its configuration, *)
(* and has left its two texts, every time: the heap pays for each cycle.     *)
THEOREM UploadsLeaveTheirTexts == Spec => UploadCostsItsTexts
  <1>1. IInv /\ [Next]_vars =>
          [phase = "wait" /\ phase' = "idle"
             => before = [live |-> live', configs |-> configs', texts |-> texts' - 2]]_vars
    <2> SUFFICES ASSUME IInv, Next, phase = "wait", phase' = "idle"
                 PROVE  before = [live |-> live', configs |-> configs', texts |-> texts' - 2]
      OBVIOUS
    <2>1. Finish
      BY DEF Next, Open, OpenRefused, Opened, OpenFailed, HeapSpent, Callbacks,
             DnsFound, Connected, ReceivedEnd, Poll, Err, main
    <2> QED
      BY <2>1, FinishStep
  <1> QED
    BY <1>1, Invariance, PTL DEF Spec, UploadCostsItsTexts

-----------------------------------------------------------------------------
\* After an error nobody is left who could set complete.
LostIsSilent ==
    phase = "wait" /\ lost => ~tls[state].complete /\ tls[state].pcb = None

LEMMA LostPreserved == ASSUME IInv, LostIsSilent, [Next]_vars PROVE LostIsSilent'
  <1> USE DEF IInv
  <1>1. ASSUME NEW b \in Block, NEW p \in Pcb, Open(b, p) \/ OpenRefused(b, p) PROVE LostIsSilent'
    BY <1>1 DEF Open, OpenRefused, Opened, LostIsSilent
  <1>2. CASE OpenFailed \/ HeapSpent \/ Finish
    BY <1>2 DEF OpenFailed, HeapSpent, Finish, LostIsSilent
  <1>3. ASSUME NEW p \in Pcb, DnsFound(p) \/ Connected(p) \/ ReceivedEnd(p) \/ Poll(p)
        PROVE  LostIsSilent'
    <2>1. stage[p] \in Active /\ UNCHANGED << phase, lost >>
      BY <1>3 DEF DnsFound, Connected, ReceivedEnd, Poll, Active, main
    <2>2. phase = "wait" /\ tls[state].pcb # None
      BY <2>1 DEF CallbacksAreOurs
    <2> QED
      BY <2>1, <2>2 DEF LostIsSilent
  <1>4. ASSUME NEW p \in Pcb, Err(p) PROVE LostIsSilent'
    <2>1. stage[p] \in Active /\ state' = state
      BY <1>4 DEF Err, Active, main
    <2>2. arg[p] = state /\ state \in Block /\ ~tls[state].complete
      BY <2>1 DEF CallbacksAreOurs, CompleteIsClosed, TypeOK
    <2>3. tls' = [tls EXCEPT ![state] = [@ EXCEPT !.pcb = None]]
      BY <1>4, <2>2 DEF Err
    <2>4. tls'[state].pcb = None /\ tls'[state].complete = tls[state].complete
      BY <2>2, <2>3 DEF TypeOK
    <2> QED
      BY <2>1, <2>2, <2>4 DEF LostIsSilent
  <1>5. CASE UNCHANGED vars
    BY <1>5 DEF vars, main, LostIsSilent
  <1> QED
    BY <1>1, <1>2, <1>3, <1>4, <1>5 DEF Next, Callbacks

(* An upload of which lwIP has reported an error waits for ever: no callback *)
(* is left that could set complete, and http_request looks at nothing else.  *)
THEOREM LostUploadsHang ==
  Spec => [][phase = "wait" /\ lost => phase' = "wait" /\ lost']_vars
  <1>1. Init => LostIsSilent
    BY DEF Init, LostIsSilent
  <1>2. IInv /\ LostIsSilent /\ [Next]_vars => (IInv /\ LostIsSilent)'
    BY Inductive, LostPreserved
  <1>3. IInv /\ LostIsSilent /\ [Next]_vars =>
          [phase = "wait" /\ lost => phase' = "wait" /\ lost']_vars
    <2> SUFFICES ASSUME IInv, LostIsSilent, Next, phase = "wait", lost
                 PROVE  phase' = "wait" /\ lost'
      OBVIOUS
    <2>1. \A p \in Pcb : stage[p] \notin Active
      BY DEF IInv, CallbacksAreOurs, LostIsSilent
    <2>2. ~Callbacks
      BY <2>1 DEF Callbacks, DnsFound, Connected, ReceivedEnd, Poll, Err, Active
    <2>3. ~Finish
      BY DEF Finish, LostIsSilent
    <2>4. FALSE
      BY <2>2, <2>3 DEF Next, Open, OpenRefused, Opened, OpenFailed, HeapSpent
    <2> QED
      BY <2>4
  <1> QED
    BY <1>1, <1>2, <1>3, Initially, PTL DEF Spec
=============================================================================
