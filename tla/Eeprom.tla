------------------------------- MODULE Eeprom -------------------------------
(* The EEPROM driver, eeprom/eeprom.cpp, with the chip behind the I2C bus.  *)
(* One step is one bus transaction, because the driver looks at nothing in  *)
(* between and because any of them can fail.  A transaction that fails is   *)
(* logged and otherwise ignored: the driver goes on to its next one.        *)
EXTENDS EepromInterface

CONSTANTS
    Faults,      \* transactions that may fail: "send", "address", "data"
    HeapLimit    \* bytes a stringstream can hold before the heap is spent

ASSUME DriverAssumption ==
    /\ Faults \subseteq {"send", "address", "data"}
    /\ HeapLimit \in Nat \ {0}

VARIABLES
    memory,   \* the cells of the chip
    cursor,   \* the chip's own address counter
    pc,       \* next transaction of the driver
    call,     \* API call in progress, or the last one that returned
    index,    \* which byte of the call is being handled
    got,      \* the stringstream of readString
    reply     \* what the last call returned

vars == << memory, cursor, pc, call, index, got, reply >>
callVars == << call, index, got, reply >>

Init ==
    /\ memory \in [Cells -> Byte]
    /\ cursor = 0
    /\ pc = "idle"
    /\ call = NoCall
    /\ index = 1
    /\ got = << >>
    /\ reply = << >>

\* readString has met the NUL and makes the read of line 100.
Closing == Len(got) > 0 /\ got[Len(got)] = NUL

\* Mutant of Target: writeString goes down from the last byte.
TargetDescending ==
    IF Closing THEN At(call, 1)
    ELSE IF call.op = "write" THEN At(call, Len(call.data) + 1 - index)
    ELSE At(call, index)

\* The cell the driver means to access.
Target == IF Closing THEN At(call, 1) ELSE At(call, index)

Following(cell) == (cell + 1) % MemSize

-----------------------------------------------------------------------------
Invoke(c) ==
    /\ pc = "idle"
    /\ call' = c
    /\ index' = 1
    /\ got' = << >>
    /\ pc' = IF c.op = "write" THEN "send" ELSE "address"
    /\ UNCHANGED << memory, cursor, reply >>

\* write(): address and data byte in one transaction.
SendByte ==
    /\ pc = "send"
    /\ memory' = [memory EXCEPT ![Target] = call.data[index]]
    /\ cursor' = Following(Target)
    /\ pc' = "address"
    /\ UNCHANGED callVars

SendFault ==
    /\ "send" \in Faults
    /\ pc = "send"
    /\ pc' = "address"
    /\ UNCHANGED << memory, cursor, callVars >>

\* Mutant of SetAddress: the address is not cut to a byte.
SetAddressUncast ==
    /\ pc = "address"
    /\ cursor' = call.addr + index - 1
    /\ pc' = "data"
    /\ UNCHANGED << memory, callVars >>

\* read(): the address byte, then a one-byte read at the chip's counter.  If
\* the first fails, counter stays where it was.
SetAddress ==
    /\ pc = "address"
    /\ cursor' \in {Target} \cup (IF "address" \in Faults THEN {cursor} ELSE {})
    /\ pc' = "data"
    /\ UNCHANGED << memory, callVars >>

\* readData keeps its 0xFF, so the loop of read() turns.
DataFault ==
    /\ "data" \in Faults
    /\ pc = "data"
    /\ pc' = "address"
    /\ UNCHANGED << memory, cursor, callVars >>

\* Mutant of ReadBlank: 0xFF is returned like any byte.
ReadBlankReturned ==
    /\ pc = "data"
    /\ memory[cursor] = BLANK
    /\ cursor' = Following(cursor)
    /\ pc' = IF call.op = "read" THEN "idle" ELSE "address"
    /\ reply' = IF call.op = "read" THEN << BLANK >> ELSE reply
    /\ UNCHANGED << memory, call, index, got >>

\* 0xFF in the cell is taken for "no answer" and read again, for ever.
ReadBlank ==
    /\ pc = "data"
    /\ memory[cursor] = BLANK
    /\ cursor' = Following(cursor)
    /\ pc' = "address"
    /\ UNCHANGED << memory, callVars >>

Return(r) ==
    /\ pc' = "idle"
    /\ reply' = r
    /\ UNCHANGED << call, index, got >>

\* Mutant of Verified: the byte read back is not compared.
VerifiedBlindly(v) ==
    /\ call.op = "write"
    /\ \/ /\ index < Len(call.data)
          /\ index' = index + 1
          /\ pc' = "send"
          /\ UNCHANGED << call, got, reply >>
       \/ /\ index = Len(call.data)
          /\ Return(<< >>)

\* write(): the verifying read came back with v.
Verified(v) ==
    /\ call.op = "write"
    /\ \/ /\ v # call.data[index]
          /\ pc' = "send"
          /\ UNCHANGED callVars
       \/ /\ v = call.data[index]
          /\ index < Len(call.data)
          /\ index' = index + 1
          /\ pc' = "send"
          /\ UNCHANGED << call, got, reply >>
       \/ /\ v = call.data[index]
          /\ index = Len(call.data)
          /\ Return(<< >>)

\* Mutant of GotBoolean: only 0x01 ends the loop.
GotTrue(v) ==
    /\ call.op = "readBoolean"
    /\ \/ v = 1 /\ Return(<< v >>)
       \/ v # 1 /\ pc' = "address" /\ UNCHANGED callVars

\* readBoolean(): anything but 0x00 and 0x01 is read again.
GotBoolean(v) ==
    /\ call.op = "readBoolean"
    /\ \/ v \in {0, 1} /\ Return(<< v >>)
       \/ v \notin {0, 1} /\ pc' = "address" /\ UNCHANGED callVars

\* readString(): collect up to the NUL, then read the first byte once more.
\* Without a NUL the stream grows until the heap is spent.
GotChar(v) ==
    /\ call.op = "readString"
    /\ \/ Closing /\ Return(got)
       \/ /\ ~Closing
          /\ Len(got) < HeapLimit
          /\ got' = Append(got, v)
          /\ index' = index + 1
          /\ pc' = "address"
          /\ UNCHANGED << call, reply >>
       \/ /\ ~Closing
          /\ Len(got) = HeapLimit
          /\ pc' = "panic"
          /\ UNCHANGED callVars

ReadByte ==
    /\ pc = "data"
    /\ memory[cursor] # BLANK
    /\ cursor' = Following(cursor)
    /\ LET v == memory[cursor]
       IN  \/ Verified(v)
           \/ call.op = "read" /\ Return(<< v >>)
           \/ GotBoolean(v)
           \/ GotChar(v)
    /\ UNCHANGED memory

\* The board loses power, or its watchdog resets the processor alone.
PowerLoss ==
    /\ pc' = "idle"
    /\ cursor' \in {0, cursor}
    /\ call' = NoCall
    /\ index' = 1
    /\ got' = << >>
    /\ reply' = << >>
    /\ UNCHANGED memory

Driver ==
    \/ SendByte \/ SendFault
    \/ SetAddress
    \/ DataFault \/ ReadBlank \/ ReadByte

Next ==
    \/ \E c \in Calls : Invoke(c)
    \/ Driver
    \/ PowerLoss

\* The processor keeps executing the driver, and bus faults are transient: a
\* transaction tried again and again gets through, also right after the
\* address did.
Fairness ==
    /\ WF_vars(Driver)
    /\ SF_vars(SendByte)
    /\ SF_vars(SetAddress /\ cursor' = Target)
    /\ SF_vars((ReadByte \/ ReadBlank) /\ cursor = Target)

Spec == Init /\ [][Next]_vars
FairSpec == Spec /\ Fairness
-----------------------------------------------------------------------------
(* Types: no transaction leaves the chip, whatever address a caller gives and *)
(* however far a string read runs.                                            *)
TypeOK ==
    /\ memory \in [Cells -> Byte]
    /\ cursor \in Cells
    /\ pc \in {"idle", "send", "address", "data", "panic"}
    /\ call \in Calls \cup {NoCall}
    /\ index \in Nat \ {0}
    /\ got \in Seq(Byte)
    /\ reply \in Seq(Byte)

(* A write that has returned is in the chip: every byte of it, in its cell,   *)
(* whatever transactions failed and were retried on the way (the "Verify"     *)
(* loop of write()).                                                          *)
WriteVerified ==
    pc = "idle" /\ call.op = "write" =>
        \A i \in 1 .. Len(call.data) : memory[At(call, i)] = call.data[i]

(* Faults and retries included, a write changes only cells of its own, and    *)
(* in ascending order: no cell changes before all the earlier ones hold their *)
(* byte.  The erase relies on it, since it must clear the flag first.         *)
WritesInOrder ==
    [][\A m \in Cells : memory'[m] # memory[m] =>
          \E i \in 1 .. Len(call.data) :
             /\ m = At(call, i)
             /\ \A j \in 1 .. i - 1 : memory[At(call, j)] = call.data[j]]_vars

(* The driver implements the abstract store: no interleaving of failed and    *)
(* successful transactions makes a call return what the store does not hold.  *)
Abstract == INSTANCE ByteStore WITH store <- memory, busy <- (pc # "idle")
ImplementsByteStore == Abstract!Spec

\* The chip holds an answer to c that the driver's loops accept.  For a write:
\* nothing of it reads as blank, neither the bytes nor the cells they go to.
Answerable(c) ==
    CASE c.op = "write" ->
            \A i \in 1 .. Len(c.data) : BLANK \notin {c.data[i], memory[At(c, i)]}
      [] c.op = "read" -> memory[At(c, 1)] # BLANK
      [] c.op = "readBoolean" -> memory[At(c, 1)] \in {0, 1}
      [] c.op = "readString" ->
            \E n \in 1 .. HeapLimit :
                /\ memory[At(c, n)] = NUL
                /\ \A i \in 1 .. n - 1 : memory[At(c, i)] # BLANK
      [] OTHER -> FALSE

(* If bus faults are transient, a call the chip can answer returns: neither   *)
(* the verify loop of write() nor the read loops spin for ever.               *)
EveryCallReturns == pc # "idle" /\ Answerable(call) ~> pc = "idle"
=============================================================================
