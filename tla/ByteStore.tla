----------------------------- MODULE ByteStore -----------------------------
(* What eeprom/eeprom.h promises its callers: a store of bytes that answers *)
(* one call at a time.  A write puts its bytes in ascending order and       *)
(* returns when all of them are stored; a read returns what is stored.      *)
EXTENDS EepromInterface

VARIABLES
    store,   \* the bytes
    call,    \* the call in progress, or the last one answered
    busy,    \* a call is in progress
    reply    \* what the last answered read returned

vars == << store, call, busy, reply >>

Init ==
    /\ store \in [Cells -> Byte]
    /\ call = NoCall
    /\ busy = FALSE
    /\ reply = << >>

Invoke(c) ==
    /\ ~busy
    /\ call' = c
    /\ busy' = TRUE
    /\ UNCHANGED << store, reply >>

\* A byte may be stored again (the driver retries), never ahead of those
\* before it.
Store(i) ==
    /\ busy /\ call.op = "write"
    /\ i \in 1 .. Len(call.data)
    /\ \A j \in 1 .. i - 1 : store[At(call, j)] = call.data[j]
    /\ store' = [store EXCEPT ![At(call, i)] = call.data[i]]
    /\ UNCHANGED << call, busy, reply >>

\* r answers call c.
Answers(c, r) ==
    CASE c.op = "write" ->
            /\ r = << >>
            /\ \A i \in 1 .. Len(c.data) : store[At(c, i)] = c.data[i]
      [] c.op = "read" -> r = << store[Cell(c.addr)] >> /\ r # << BLANK >>
      [] c.op = "readBoolean" -> r = << store[Cell(c.addr)] >> /\ r[1] \in {0, 1}
      [] c.op = "readString" -> StringFrom(store, c, r)
      [] OTHER -> FALSE

Return ==
    /\ busy
    /\ busy' = FALSE
    /\ Answers(call, reply')
    /\ UNCHANGED << store, call >>

\* The supply fails: the call is lost, what is stored stays.
PowerLoss ==
    /\ call' = NoCall
    /\ busy' = FALSE
    /\ reply' = << >>
    /\ UNCHANGED store

Next ==
    \/ \E c \in Calls : Invoke(c)
    \/ \E i \in 1 .. Len(call.data) : Store(i)
    \/ Return
    \/ PowerLoss

Spec == Init /\ [][Next]_vars
=============================================================================
