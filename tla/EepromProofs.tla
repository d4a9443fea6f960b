---------------------------- MODULE EepromProofs ----------------------------
(* What holds of the EEPROM driver for every chip size, every set of calls   *)
(* and every bus fault; what needs the address transaction of read() not to  *)
(* fail (the driver ignores that failure and reads another cell) says so.    *)
EXTENDS Eeprom, TLAPS

(* Whatever address a call uses, the cell it reaches exists: read() and       *)
(* write() cannot leave the chip.                                             *)
LEMMA CellInChip == \A a \in Int : Cell(a) \in Cells
  BY GeometryAssumption DEF Cell, Cells

LEMMA FollowingInChip == \A m \in Cells : Following(m) \in Cells
  BY GeometryAssumption DEF Following, Cells

(* The target of a transaction of a call from Calls is a cell of the chip.    *)
LEMMA TargetInChip ==
  ASSUME call \in Calls, index \in Nat
  PROVE  Target \in Cells
  <1>1. call.addr \in Nat
    BY CallsAssumption DEF CallType
  <1>2. \A i \in Nat : At(call, i) \in Cells
    BY <1>1, CellInChip DEF At
  <1> QED
    BY <1>2 DEF Target

(* The state of the driver is that of a call from Calls, unless it is idle.   *)
InCall ==
    /\ pc # "idle" => call \in Calls
    /\ pc = "send" => call.op = "write"
    /\ call.op = "write" => index \in 1 .. Len(call.data)

TypeInv == TypeOK /\ InCall

(* Every step of the driver, and a loss of power, keeps the variables typed:  *)
(* no address leaves the chip, no transaction runs without a call.            *)
LEMMA TypeStep == TypeInv /\ [Next]_vars => TypeInv'
  <1> SUFFICES ASSUME TypeInv, [Next]_vars PROVE TypeInv'
    OBVIOUS
  <1> USE DEF TypeInv, TypeOK, InCall
  <1>0. Calls \subseteq CallType
    BY CallsAssumption
  <1>1. ASSUME NEW c \in Calls, Invoke(c) PROVE TypeInv'
    <2>1. c.op = "write" => Len(c.data) > 0 /\ Len(c.data) \in Nat
      BY <1>0, CallsAssumption DEF CallType
    <2> QED
      BY <1>1, <2>1 DEF Invoke
  <1>2. CASE SendByte
    <2>1. Target \in Cells /\ call \in Calls /\ call.op = "write"
      BY <1>2, TargetInChip DEF SendByte
    <2>2. call.data[index] \in Byte
      BY <1>0, <2>1 DEF CallType
    <2>3. memory' \in [Cells -> Byte]
      BY <1>2, <2>1, <2>2 DEF SendByte
    <2>4. cursor' \in Cells
      BY <1>2, <2>1, FollowingInChip DEF SendByte
    <2> QED
      BY <1>2, <2>3, <2>4 DEF SendByte, callVars
  <1>3. CASE SetAddress
    <2>1. Target \in Cells
      BY <1>3, TargetInChip DEF SetAddress
    <2>2. cursor' \in Cells
      BY <1>3, <2>1 DEF SetAddress
    <2> QED
      BY <1>3, <2>2 DEF SetAddress, callVars
  <1>4. CASE SendFault \/ DataFault
    BY <1>4 DEF SendFault, DataFault, callVars
  <1>5. CASE ReadBlank
    BY <1>5, FollowingInChip DEF ReadBlank, callVars
  <1>6. CASE ReadByte
    <2> DEFINE v == memory[cursor]
    <2>1. v \in Byte /\ cursor' \in Cells /\ memory' = memory /\ call \in Calls
      BY <1>6, FollowingInChip DEF ReadByte
    <2>2. << v >> \in Seq(Byte) /\ Append(got, v) \in Seq(Byte) /\ << >> \in Seq(Byte)
      BY <2>1
    <2> HIDE DEF v
    <2>3. CASE Verified(v)
      <3>1. Len(call.data) \in Nat
        BY <1>0, <2>1 DEF CallType
      <3>2. CASE pc' = "send" /\ UNCHANGED callVars
        BY <2>1, <2>2, <2>3, <3>2 DEF Verified, callVars
      <3>3. CASE /\ index < Len(call.data) /\ index' = index + 1
                 /\ pc' = "send" /\ UNCHANGED << call, got, reply >>
        <4>1. index' \in 1 .. Len(call.data)
          BY <3>1, <3>3
        <4> QED
          BY <2>1, <2>2, <2>3, <3>3, <4>1 DEF Verified
      <3>4. CASE Return(<< >>)
        BY <2>1, <2>2, <3>4 DEF Return
      <3> QED
        BY <2>3, <3>2, <3>3, <3>4 DEF Verified
    <2>4. CASE call.op = "read" /\ Return(<< v >>)
      BY <2>1, <2>2, <2>4 DEF Return
    <2>5. CASE GotBoolean(v)
      BY <2>1, <2>2, <2>5 DEF GotBoolean, Return, callVars
    <2>6. CASE GotChar(v)
      <3>1. call.op = "readString"
        BY <2>6 DEF GotChar
      <3>2. CASE Return(got)
        BY <2>1, <3>1, <3>2 DEF Return
      <3>3. CASE /\ got' = Append(got, v) /\ index' = index + 1
                 /\ pc' = "address" /\ UNCHANGED << call, reply >>
        BY <2>1, <2>2, <3>1, <3>3
      <3>4. CASE pc' = "panic" /\ UNCHANGED callVars
        BY <2>1, <3>1, <3>4 DEF callVars
      <3> QED
        BY <2>6, <3>2, <3>3, <3>4 DEF GotChar
    <2> QED
      BY <1>6, <2>3, <2>4, <2>5, <2>6 DEF ReadByte, v
  <1>7. CASE PowerLoss
    <2>1. 0 \in Cells
      BY GeometryAssumption DEF Cells
    <2> QED
      BY <1>7, <2>1 DEF PowerLoss, NoCall
  <1>8. CASE UNCHANGED vars
    BY <1>8 DEF vars
  <1> QED
    BY <1>1, <1>2, <1>3, <1>4, <1>5, <1>6, <1>7, <1>8 DEF Next, Driver

LEMMA TypeInit == Init => TypeInv
  BY GeometryAssumption DEF Init, TypeInv, TypeOK, InCall, NoCall, Cells

(* The variables keep their types in every behaviour, under every fault.      *)
THEOREM TypeCorrect == Spec => []TypeOK
  <1>1. Spec => []TypeInv
    BY TypeInit, TypeStep, PTL DEF Spec
  <1>2. TypeInv => TypeOK
    BY DEF TypeInv
  <1> QED
    BY <1>1, <1>2, PTL

-----------------------------------------------------------------------------
(* A write collects nothing, so its target is its byte.                       *)
Collects == call.op = "write" => got = << >>

LEMMA CollectsStep == ASSUME TypeInv, Collects, [Next]_vars PROVE Collects'
  <1> USE DEF Collects
  <1>1. ASSUME NEW c \in Calls, Invoke(c) PROVE Collects'
    BY <1>1 DEF Invoke
  <1>2. CASE SendByte \/ SendFault \/ SetAddress \/ DataFault \/ ReadBlank
    BY <1>2 DEF SendByte, SendFault, SetAddress, DataFault, ReadBlank, callVars
  <1>3. CASE ReadByte
    <2>1. call' = call /\ (call.op = "write" => got' = got)
      BY <1>3 DEF ReadByte, Verified, GotBoolean, GotChar, Return, callVars
    <2> QED
      BY <2>1
  <1>4. CASE PowerLoss \/ UNCHANGED vars
    BY <1>4 DEF PowerLoss, NoCall, vars
  <1> QED
    BY <1>1, <1>2, <1>3, <1>4 DEF Next, Driver

(* Whatever transactions fail, the address transaction included: a cell      *)
(* changes only to the byte that the write in progress has for it.  A fault  *)
(* can lose a byte, as LostWrites says in Settings; it damages no other.     *)
THEOREM FaultsOnlyLoseBytes ==
  Spec => [][\A m \in Cells : memory'[m] # memory[m] =>
               /\ pc = "send" /\ call.op = "write"
               /\ \E i \in 1 .. Len(call.data) : m = At(call, i) /\ memory'[m] = call.data[i]]_vars
  <1> DEFINE P == \A m \in Cells : memory'[m] # memory[m] =>
               /\ pc = "send" /\ call.op = "write"
               /\ \E i \in 1 .. Len(call.data) : m = At(call, i) /\ memory'[m] = call.data[i]
  <1>1. Init => TypeInv /\ Collects
    BY TypeInit DEF Init, Collects
  <1>2. TypeInv /\ Collects /\ [Next]_vars => (TypeInv /\ Collects)'
    BY TypeStep, CollectsStep
  <1>3. TypeInv /\ Collects /\ [Next]_vars => [P]_vars
    <2> SUFFICES ASSUME TypeInv, Collects, Next, NEW m \in Cells, memory'[m] # memory[m]
                 PROVE  /\ pc = "send" /\ call.op = "write"
                        /\ \E i \in 1 .. Len(call.data) : m = At(call, i) /\ memory'[m] = call.data[i]
      OBVIOUS
    <2>1. SendByte
      BY DEF Next, Driver, Invoke, SendFault, SetAddress, DataFault, ReadBlank, ReadByte, PowerLoss
    <2>2. /\ pc = "send" /\ call \in Calls /\ call.op = "write" /\ got = << >>
          /\ index \in 1 .. Len(call.data) /\ memory \in [Cells -> Byte]
          /\ memory' = [memory EXCEPT ![Target] = call.data[index]]
      BY <2>1 DEF SendByte, TypeInv, TypeOK, InCall, Collects
    <2>3. Target = At(call, index)
      BY <2>2 DEF Target, Closing
    <2>4. m = At(call, index) /\ memory'[m] = call.data[index]
      BY <2>2, <2>3
    <2> QED
      BY <2>2, <2>4
  <1> QED
    BY <1>1, <1>2, <1>3, PTL DEF Spec

-----------------------------------------------------------------------------
(* A read looks at the cell it was meant for.                                 *)
Aimed == pc = "data" => cursor = Target

(* The bytes of a write before the current one are in the chip; all of them   *)
(* once it has returned.                                                      *)
Written ==
    call.op = "write" =>
        /\ got = << >>
        /\ \A i \in 1 .. index - 1 : memory[At(call, i)] = call.data[i]
        /\ pc = "idle" => /\ index = Len(call.data)
                          /\ memory[At(call, index)] = call.data[index]

Scalar ==
    pc # "idle" /\ call.op \in {"read", "readBoolean"} => got = << >> /\ index = 1

(* What readString has collected is what the chip holds, with no NUL but at   *)
(* its end.                                                                   *)
Collected ==
    pc # "idle" /\ call.op = "readString" =>
        /\ ~Closing => index = Len(got) + 1
        /\ \A i \in 1 .. Len(got) :
              /\ got[i] = memory[At(call, i)]
              /\ got[i] # BLANK
              /\ i < Len(got) => got[i] # NUL

DataInv == Aimed /\ Written /\ Scalar /\ Collected

LEMMA CallShape ==
  ASSUME call \in Calls
  PROVE  /\ call.data \in Seq(Byte) /\ Len(call.data) \in Nat /\ call.addr \in Nat
         /\ call.op \in {"write"} \cup ReadOps
         /\ call.op = "write" =>
               \A i, j \in 1 .. Len(call.data) : i # j => At(call, i) # At(call, j)
         /\ \A i \in Nat : At(call, i) \in Cells
  BY CallsAssumption, CellInChip DEF CallType, At

LEMMA DataInit == Init => DataInv
  BY DEF Init, DataInv, Aimed, Written, Scalar, Collected, NoCall

(* Without a fault of the address transaction, every step keeps what was      *)
(* written in the chip and what was read equal to what the chip holds.        *)
LEMMA DataStep ==
  ASSUME "address" \notin Faults, TypeInv, DataInv, [Next]_vars
  PROVE  DataInv'
  <1> USE DEF DataInv
  <1>0. /\ memory \in [Cells -> Byte] /\ index \in Nat \ {0} /\ got \in Seq(Byte)
        /\ call \in Calls \cup {NoCall}
        /\ pc # "idle" => call \in Calls
        /\ pc = "send" => call.op = "write"
        /\ call.op = "write" => index \in 1 .. Len(call.data)
    BY DEF TypeInv, TypeOK, InCall
  <1>1. ASSUME NEW c \in Calls, Invoke(c) PROVE DataInv'
    BY <1>1 DEF Invoke, Aimed, Written, Scalar, Collected, Closing
  <1>2. CASE SendByte
    <2>1. /\ call \in Calls /\ call.op = "write" /\ got = << >>
          /\ memory' = [memory EXCEPT ![Target] = call.data[index]]
          /\ pc' = "address" /\ call' = call /\ index' = index /\ got' = got
      BY <1>0, <1>2 DEF SendByte, callVars, Written
    <2>2. Target = At(call, index)
      BY <2>1 DEF Target, Closing
    <2>3. \A i \in 1 .. index - 1 :
            At(call, i) # At(call, index) /\ At(call, i) \in Cells
      BY <1>0, <2>1, CallShape
    <2>4. \A i \in 1 .. index - 1 : memory'[At(call, i)] = call.data[i]
      BY <1>0, <2>1, <2>2, <2>3 DEF Written
    <2>5. Written'
      BY <2>1, <2>4 DEF Written, At
    <2> QED
      BY <2>1, <2>5 DEF Aimed, Scalar, Collected
  <1>3. CASE SendFault \/ DataFault \/ ReadBlank
    <2>1. pc # "idle" /\ pc' = "address" /\ UNCHANGED << memory, call, index, got >>
      BY <1>3 DEF SendFault, DataFault, ReadBlank, callVars
    <2> QED
      BY <2>1 DEF Aimed, Written, Scalar, Collected, Closing, At
  <1>4. CASE SetAddress
    <2>1. /\ pc # "idle" /\ pc' = "data" /\ cursor' = Target
          /\ UNCHANGED << memory, call, index, got >>
      BY <1>4 DEF SetAddress, callVars
    <2>2. Target' = Target
      BY <2>1 DEF Target, Closing, At
    <2> QED
      BY <2>1, <2>2 DEF Aimed, Written, Scalar, Collected, Closing, At
  <1>5. CASE ReadByte
    <2> DEFINE v == memory[cursor]
    <2>1. /\ call \in Calls /\ cursor = Target /\ v # BLANK /\ memory' = memory
          /\ pc = "data"
      BY <1>0, <1>5 DEF ReadByte, Aimed
    <2>2. CASE Verified(v)
      <3>1. call.op = "write" /\ got = << >> /\ call' = call /\ got' = got
        BY <2>2 DEF Verified, Return, callVars, Written
      <3>2. v = memory[At(call, index)]
        BY <2>1, <3>1 DEF Target, Closing
      <3>3. pc' # "data"
        BY <2>2 DEF Verified, Return
      <3>4. Written'
        <4>1. CASE pc' = "send" /\ UNCHANGED callVars
          BY <2>1, <3>1, <4>1 DEF Written, callVars, At
        <4>2. CASE /\ v = call.data[index] /\ index' = index + 1 /\ pc' = "send"
          <5>1. \A i \in 1 .. index' - 1 : i = index \/ i \in 1 .. index - 1
            BY <1>0, <4>2
          <5>2. \A i \in 1 .. index' - 1 : memory[At(call, i)] = call.data[i]
            BY <3>1, <3>2, <4>2, <5>1 DEF Written
          <5> QED
            BY <2>1, <3>1, <4>2, <5>2 DEF Written, At
        <4>3. CASE v = call.data[index] /\ index = Len(call.data) /\ Return(<< >>)
          BY <2>1, <3>1, <3>2, <4>3 DEF Written, Return, At
        <4> QED
          BY <2>2, <4>1, <4>2, <4>3 DEF Verified
      <3> QED
        BY <3>1, <3>3, <3>4 DEF Aimed, Scalar, Collected
    <2>3. CASE call.op = "read" /\ Return(<< v >>)
      BY <2>3 DEF Return, Aimed, Written, Scalar, Collected
    <2>4. CASE GotBoolean(v)
      <3>1. call.op = "readBoolean" /\ UNCHANGED << call, index, got >>
            /\ pc' \in {"idle", "address"}
        BY <2>4 DEF GotBoolean, Return, callVars
      <3> QED
        BY <2>1, <3>1 DEF Aimed, Written, Scalar, Collected
    <2>5. CASE GotChar(v)
      <3>1. call.op = "readString" /\ call' = call /\ pc' # "data"
        BY <2>5 DEF GotChar, Return, callVars
      <3>2. CASE Return(got)
        BY <3>1, <3>2 DEF Return, Aimed, Written, Scalar, Collected
      <3>3. CASE pc' = "panic" /\ UNCHANGED callVars
        BY <2>1, <3>1, <3>3 DEF Aimed, Written, Scalar, Collected, Closing, callVars, At
      <3>4. CASE ~Closing /\ got' = Append(got, v) /\ index' = index + 1
        <4>1. index = Len(got) + 1 /\ v = memory[At(call, index)]
          BY <2>1, <3>1, <3>4 DEF Collected, Target
        <4>2. Len(got') = Len(got) + 1 /\ Len(got) \in Nat
          BY <1>0, <3>4
        <4>3. \A i \in 1 .. Len(got) : got'[i] = got[i]
          BY <1>0, <3>4
        <4>4. got'[Len(got) + 1] = v
          BY <1>0, <3>4
        <4>5. Len(got) > 0 => got[Len(got)] # NUL
          BY <3>4 DEF Closing
        <4>6. \A i \in 1 .. Len(got') :
                /\ got'[i] = memory[At(call, i)]
                /\ got'[i] # BLANK
                /\ i < Len(got') => got'[i] # NUL
          <5> SUFFICES ASSUME NEW i \in 1 .. Len(got')
                       PROVE  /\ got'[i] = memory[At(call, i)]
                              /\ got'[i] # BLANK
                              /\ i < Len(got') => got'[i] # NUL
            OBVIOUS
          <5>1. CASE i \in 1 .. Len(got)
            <6>1. got'[i] = got[i] /\ i \in Nat
              BY <4>2, <4>3, <5>1
            <6>2. got[i] = memory[At(call, i)] /\ got[i] # BLANK
              BY <2>1, <3>1, <5>1 DEF Collected
            <6>3. i < Len(got) => got[i] # NUL
              BY <2>1, <3>1, <5>1 DEF Collected
            <6>4. i = Len(got) => got[i] # NUL
              BY <4>2, <4>5, <5>1
            <6> QED
              BY <4>2, <5>1, <6>1, <6>2, <6>3, <6>4
          <5>2. CASE i = Len(got) + 1
            BY <2>1, <4>1, <4>2, <4>4, <5>2
          <5> QED
            BY <4>2, <5>1, <5>2
        <4>7. Collected'
          BY <2>1, <3>1, <3>4, <4>1, <4>2, <4>6 DEF Collected, At
        <4> QED
          BY <3>1, <4>7 DEF Aimed, Written, Scalar
      <3> QED
        BY <2>5, <3>2, <3>3, <3>4 DEF GotChar
    <2> QED
      BY <1>5, <2>2, <2>3, <2>4, <2>5 DEF ReadByte
  <1>6. CASE PowerLoss
    BY <1>6 DEF PowerLoss, NoCall, Aimed, Written, Scalar, Collected
  <1>7. CASE UNCHANGED vars
    BY <1>7 DEF vars, Aimed, Written, Scalar, Collected, Closing, Target, At
  <1> QED
    BY <1>1, <1>2, <1>3, <1>4, <1>5, <1>6, <1>7 DEF Next, Driver

-----------------------------------------------------------------------------
IInv == TypeInv /\ DataInv

LEMMA Inductive ==
  ASSUME "address" \notin Faults
  PROVE  Spec => []IInv
  <1>1. Init => IInv
    BY TypeInit, DataInit DEF IInv
  <1>2. IInv /\ [Next]_vars => IInv'
    BY TypeStep, DataStep DEF IInv
  <1> QED
    BY <1>1, <1>2, PTL DEF Spec

(* If address transactions do not fail, a write that returned is in the chip, *)
(* for every call, chip size and pattern of lost sends and failed reads.      *)
THEOREM WritesAreVerified ==
  ASSUME "address" \notin Faults
  PROVE  Spec => []WriteVerified
  <1>1. IInv => WriteVerified
    <2> SUFFICES ASSUME IInv, pc = "idle", call.op = "write",
                        NEW i \in 1 .. Len(call.data)
                 PROVE  memory[At(call, i)] = call.data[i]
      BY DEF WriteVerified
    <2>1. call \in Calls
      BY DEF IInv, TypeInv, TypeOK, NoCall
    <2>2. Len(call.data) \in Nat
      BY <2>1, CallShape
    <2>3. i \in 1 .. index - 1 \/ i = index
      BY <2>2 DEF IInv, DataInv, Written
    <2> QED
      BY <2>3 DEF IInv, DataInv, Written
  <1> QED
    BY <1>1, Inductive, PTL

(* The only step that changes a cell is a transaction that sends the current  *)
(* byte of a write.                                                           *)
LEMMA OnlySendsStore ==
  ASSUME IInv, [Next]_vars, memory' # memory
  PROVE  /\ SendByte /\ call \in Calls /\ call.op = "write" /\ got = << >>
         /\ index \in 1 .. Len(call.data) /\ Target = At(call, index)
         /\ memory' = [memory EXCEPT ![At(call, index)] = call.data[index]]
         /\ \A i \in 1 .. index - 1 : memory[At(call, i)] = call.data[i]
  <1>1. SendByte
    BY DEF Next, Driver, Invoke, SendFault, SetAddress, DataFault,
           ReadBlank, ReadByte, PowerLoss, vars
  <1>2. call \in Calls /\ call.op = "write" /\ index \in 1 .. Len(call.data)
    BY <1>1 DEF SendByte, IInv, TypeInv, InCall
  <1>3. got = << >> /\ \A i \in 1 .. index - 1 : memory[At(call, i)] = call.data[i]
    BY <1>2 DEF IInv, DataInv, Written
  <1>4. Target = At(call, index)
    BY <1>3 DEF Target, Closing
  <1> QED
    BY <1>1, <1>2, <1>3, <1>4 DEF SendByte

(* A write changes its own cells only, in ascending order, for every chip.    *)
THEOREM WritesAreOrdered ==
  ASSUME "address" \notin Faults
  PROVE  Spec => WritesInOrder
  <1> DEFINE Ordered == \A m \in Cells : memory'[m] # memory[m] =>
                \E i \in 1 .. Len(call.data) :
                   /\ m = At(call, i)
                   /\ \A j \in 1 .. i - 1 : memory[At(call, j)] = call.data[j]
  <1>1. IInv /\ [Next]_vars => [Ordered]_vars
    <2> SUFFICES ASSUME IInv, [Next]_vars PROVE Ordered
      OBVIOUS
    <2>1. CASE memory' = memory
      BY <2>1
    <2>2. CASE memory' # memory
      <3>1. memory \in [Cells -> Byte]
        BY DEF IInv, TypeInv, TypeOK
      <3> QED
        BY <2>2, <3>1, OnlySendsStore
    <2> QED
      BY <2>1, <2>2
  <1>2. Spec => [][Ordered]_vars
    BY <1>1, Inductive, PTL DEF Spec
  <1> QED
    BY <1>2 DEF WritesInOrder

-----------------------------------------------------------------------------
(* A return of the driver is a return of the abstract store: what it answers  *)
(* is what the chip holds.                                                    *)
LEMMA ReturnRefines ==
  ASSUME "address" \notin Faults, IInv, ReadByte, pc' = "idle"
  PROVE  Abstract!Return
  <1> DEFINE v == memory[cursor]
  <1>1. /\ call \in Calls /\ pc = "data" /\ memory' = memory
        /\ v = memory[Target] /\ v # BLANK
    BY DEF ReadByte, IInv, TypeInv, InCall, DataInv, Aimed
  <1>2. Abstract!Answers(call, reply') /\ call' = call
    <2> USE DEF Abstract!Answers, Return
    <2>1. CASE Verified(v)
      <3>1. /\ call.op = "write" /\ got = << >>
            /\ \A i \in 1 .. index - 1 : memory[At(call, i)] = call.data[i]
        BY <2>1 DEF Verified, IInv, DataInv, Written
      <3>2. /\ v = call.data[index] /\ index = Len(call.data) /\ reply' = << >>
            /\ call' = call
        BY <2>1 DEF Verified
      <3>3. v = memory[At(call, index)]
        BY <1>1, <3>1 DEF Target, Closing
      <3>4. Len(call.data) \in Nat
        BY <1>1, CallShape
      <3>5. \A i \in 1 .. Len(call.data) : memory[At(call, i)] = call.data[i]
        BY <3>1, <3>2, <3>3, <3>4
      <3> QED
        BY <3>1, <3>2, <3>5 DEF Abstract!At, Abstract!Cell, At, Cell
    <2>2. CASE call.op = "read" /\ Return(<< v >>)
      <3>1. v = memory[At(call, 1)]
        BY <1>1, <2>2 DEF Target, Closing, IInv, DataInv, Scalar
      <3>2. At(call, 1) = Cell(call.addr)
        BY <1>1, CallShape DEF At
      <3> QED
        BY <1>1, <2>2, <3>1, <3>2 DEF Abstract!Cell, Cell, Abstract!BLANK, BLANK
    <2>3. CASE GotBoolean(v)
      <3>1. call.op = "readBoolean" /\ v \in {0, 1} /\ Return(<< v >>)
        BY <2>3 DEF GotBoolean
      <3>2. v = memory[At(call, 1)]
        BY <1>1, <3>1 DEF Target, Closing, IInv, DataInv, Scalar
      <3>3. At(call, 1) = Cell(call.addr)
        BY <1>1, CallShape DEF At
      <3> QED
        BY <3>1, <3>2, <3>3 DEF Abstract!Cell, Cell
    <2>4. CASE GotChar(v)
      <3>1. call.op = "readString" /\ Closing /\ Return(got)
        BY <2>4 DEF GotChar
      <3>2. \A i \in 1 .. Len(got) :
               /\ got[i] = memory[At(call, i)]
               /\ got[i] # BLANK
               /\ i < Len(got) => got[i] # NUL
        BY <1>1, <3>1 DEF IInv, DataInv, Collected
      <3>3. Len(got) > 0 /\ got[Len(got)] = NUL /\ Len(got) \in Nat
        BY <3>1 DEF Closing, IInv, TypeInv, TypeOK
      <3>4. \A i \in 1 .. Len(got) - 1 : i \in 1 .. Len(got) /\ i < Len(got)
        BY <3>3
      <3>5. StringFrom(memory, call, got)
        BY <3>2, <3>3, <3>4 DEF StringFrom
      <3>6. Abstract!StringFrom(memory, call, got)
        BY <3>5 DEF StringFrom, Abstract!StringFrom, Abstract!At, At, Abstract!Cell,
                    Cell, Abstract!NUL, Abstract!BLANK, NUL, BLANK
      <3> QED
        BY <3>1, <3>6
    <2> QED
      BY <2>1, <2>2, <2>3, <2>4 DEF ReadByte
  <1> QED
    BY <1>1, <1>2 DEF Abstract!Return

(* Every step of the driver is a step of the abstract store, or none of it.   *)
LEMMA StepRefines ==
  ASSUME "address" \notin Faults, IInv, [Next]_vars
  PROVE  [Abstract!Next]_(Abstract!vars)
  <1> USE DEF Abstract!Next, Abstract!vars
  <1>1. ASSUME NEW c \in Calls, Invoke(c) PROVE Abstract!Invoke(c)
    BY <1>1 DEF Invoke, Abstract!Invoke
  <1>2. CASE SendByte
    <2>1. CASE memory' = memory
      BY <1>2, <2>1 DEF SendByte, callVars
    <2>2. CASE memory' # memory
      <3>1. Abstract!Store(index)
        BY <1>2, <2>2, OnlySendsStore
           DEF SendByte, callVars, Abstract!Store, Abstract!At, At, Abstract!Cell, Cell
      <3> QED
        BY <2>2, <3>1, OnlySendsStore
    <2> QED
      BY <2>1, <2>2
  <1>3. CASE SendFault \/ SetAddress \/ DataFault \/ ReadBlank
    BY <1>3 DEF SendFault, SetAddress, DataFault, ReadBlank, callVars
  <1>4. CASE ReadByte
    <2>1. CASE pc' = "idle"
      BY <1>4, <2>1, ReturnRefines
    <2>2. CASE pc' # "idle"
      BY <1>4, <2>2
         DEF ReadByte, Verified, GotBoolean, GotChar, Return, callVars
    <2> QED
      BY <2>1, <2>2
  <1>5. CASE PowerLoss
    BY <1>5 DEF PowerLoss, Abstract!PowerLoss, NoCall, Abstract!NoCall
  <1>6. CASE UNCHANGED vars
    BY <1>6 DEF vars
  <1> QED
    BY <1>1, <1>2, <1>3, <1>4, <1>5, <1>6 DEF Next, Driver

(* The driver implements the store its header promises, for every chip, every *)
(* set of calls and every fault but that of the address transaction.          *)
THEOREM DriverImplementsStore ==
  ASSUME "address" \notin Faults
  PROVE  Spec => ImplementsByteStore
  <1>1. Init => Abstract!Init
    BY DEF Init, Abstract!Init, NoCall, Abstract!NoCall, Cells, Abstract!Cells
  <1>2. IInv /\ [Next]_vars => [Abstract!Next]_(Abstract!vars)
    BY StepRefines
  <1> QED
    BY <1>1, <1>2, Inductive, PTL DEF Spec, ImplementsByteStore, Abstract!Spec
=============================================================================
