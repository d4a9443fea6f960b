--------------------------- MODULE SettingsProofs ---------------------------
(* What holds of the settings for every layout, chip size, set of forms and  *)
(* pattern of power losses.  Where it matters, verified writes are not lost  *)
(* (theorem WritesAreVerified of EepromProofs) and forms fit their fields.   *)
EXTENDS Settings, NatFacts, TLAPS

\* Numbers as text.

Digit == 48 .. 57

(* The recursive definition of Decimal has a solution, so that Decimal is one. *)
LEMMA DecimalUnfolds ==
  \A n \in Nat : Decimal[n] = IF n < 10 THEN << 48 + n >>
                              ELSE Append(Decimal[n \div 10], 48 + (n % 10))
  <1> DEFINE V == Seq(Digit)
             value == [n \in Nat |-> IF n < 10 THEN << 48 + n >> ELSE << >>]
             below == [n \in Nat |-> n \div 10]
             step == [x \in Nat \X V |-> Append(x[2], 48 + (x[1] % 10))]
             Is(g) == g = [n \in Nat |-> IF n < 10 THEN << 48 + n >>
                                         ELSE Append(g[n \div 10], 48 + (n % 10))]
  <1>1. Descends(V, 0 .. 9, value, below, step)
    <2>1. value \in [Nat -> V]
      <3>1. \A n \in Nat : n < 10 => << 48 + n >> \in V
        BY DEF Digit
      <3>2. << >> \in V
        OBVIOUS
      <3> HIDE DEF V
      <3> QED
        BY <3>1, <3>2
    <2>2. step \in [Nat \X V -> V]
      BY DEF Digit
    <2> QED
      BY <2>1, <2>2 DEF Descends
  <1>2. \A n \in Nat : below[n] = n \div 10 /\ (n \in 0 .. 9 <=> n < 10)
                       /\ (n < 10 => value[n] = << 48 + n >>)
    OBVIOUS
  <1>3. \A n \in Nat, s \in V : step[<< n, s >>] = Append(s, 48 + (n % 10))
    OBVIOUS
  <1> HIDE DEF V, value, below, step
  <1>4. PICK f \in [Nat -> V] : Solves(f, 0 .. 9, value, below, step)
    BY <1>1, RecursionExists
  <1>5. \A n \in Nat : f[n] = IF n < 10 THEN << 48 + n >>
                              ELSE Append(f[n \div 10], 48 + (n % 10))
    BY <1>1, <1>2, <1>3, <1>4 DEF Solves, Descends
  <1>6. Is(f)
    BY <1>4, <1>5
  <1>7. Is(Decimal)
    BY <1>6 DEF Decimal
  <1> HIDE DEF Is
  <1> QED
    <2> SUFFICES ASSUME NEW n \in Nat
                 PROVE  Decimal[n] = IF n < 10 THEN << 48 + n >>
                                     ELSE Append(Decimal[n \div 10], 48 + (n % 10))
      OBVIOUS
    <2> QED
      BY <1>7 DEF Is

(* Digits only, and at least one.                                            *)
LEMMA DecimalDigits == \A n \in Nat : Decimal[n] \in Seq(Digit) /\ Len(Decimal[n]) >= 1
  <1> DEFINE S == {n \in Nat : Decimal[n] \in Seq(Digit) /\ Len(Decimal[n]) >= 1}
  <1>1. ASSUME NEW n \in Nat, \A m \in Nat : m < n => m \in S PROVE n \in S
    <2>1. CASE n < 10
      <3>1. Decimal[n] = << 48 + n >>
        BY <2>1, DecimalUnfolds
      <3>2. 48 + n \in Digit
        BY <2>1 DEF Digit
      <3>3. << 48 + n >> \in Seq(Digit) /\ Len(<< 48 + n >>) >= 1
        BY <3>2
      <3> QED
        BY <3>1, <3>3
    <2>2. CASE ~(n < 10)
      <3>1. n \div 10 \in S
        <4>1. n \div 10 \in Nat /\ n \div 10 < n
          BY <2>2
        <4> QED
          BY <1>1, <4>1
      <3>2. 48 + (n % 10) \in Digit
        BY DEF Digit
      <3>3. Decimal[n] = Append(Decimal[n \div 10], 48 + (n % 10))
        BY <2>2, DecimalUnfolds
      <3>4. Decimal[n \div 10] \in Seq(Digit)
        BY <3>1
      <3>5. Append(Decimal[n \div 10], 48 + (n % 10)) \in Seq(Digit)
            /\ Len(Append(Decimal[n \div 10], 48 + (n % 10))) >= 1
        BY <3>2, <3>4
      <3> QED
        BY <3>3, <3>5
    <2> QED
      BY <2>1, <2>2
  <1> HIDE DEF S
  <1>2. Nat \subseteq S
    BY <1>1, StrongInduction
  <1> QED
    BY <1>2 DEF S

\* What atoi sums up over the digits of s.
Sums(v, s) == v[0] = 0 /\ \A i \in 1 .. Len(s) : v[i] = 10 * v[i - 1] + (s[i] - 48)

(* Reading the digits of a number back gives the number.                     *)
LEMMA DecimalSum ==
  \A n \in Nat : \A v : Sums(v, Decimal[n]) => v[Len(Decimal[n])] = n
  <1> DEFINE S == {n \in Nat : \A v : Sums(v, Decimal[n]) => v[Len(Decimal[n])] = n}
  <1>1. ASSUME NEW n \in Nat, \A m \in Nat : m < n => m \in S PROVE n \in S
    <2> SUFFICES ASSUME NEW v, Sums(v, Decimal[n]) PROVE v[Len(Decimal[n])] = n
      OBVIOUS
    <2>1. CASE n < 10
      <3>1. Decimal[n] = << 48 + n >>
        BY <2>1, DecimalUnfolds
      <3>2. v[0] = 0 /\ v[1] = 10 * v[1 - 1] + ((48 + n) - 48) /\ Len(Decimal[n]) = 1
        BY <3>1 DEF Sums
      <3> QED
        BY <3>2
    <2>2. CASE ~(n < 10)
      <3> DEFINE m == n \div 10
                 d == n % 10
                 t == Decimal[m]
      <3>1. m \in Nat /\ m < n /\ d \in Nat /\ n = 10 * m + d
        BY <2>2
      <3>2. m \in S
        BY <1>1, <3>1
      <3>3. Decimal[n] = Append(t, 48 + d)
        BY <2>2, DecimalUnfolds
      <3>4. t \in Seq(Digit)
        BY <3>1, DecimalDigits
      <3> HIDE DEF m, d, t
      <3>5. /\ Len(Append(t, 48 + d)) = Len(t) + 1 /\ Len(t) \in Nat
            /\ \A i \in 1 .. Len(t) : Append(t, 48 + d)[i] = t[i]
            /\ Append(t, 48 + d)[Len(t) + 1] = 48 + d
        BY <3>4
      <3>6. Sums(v, t)
        BY <3>3, <3>5 DEF Sums
      <3>7. v[Len(t)] = m
        BY <3>2, <3>6 DEF t
      <3>8. Len(t) + 1 \in 1 .. Len(Decimal[n]) /\ Decimal[n][Len(t) + 1] = 48 + d
        BY <3>3, <3>5
      <3>9. v[Len(t) + 1] = 10 * v[Len(t) + 1 - 1] + (Decimal[n][Len(t) + 1] - 48)
        BY <3>8 DEF Sums
      <3>10. Len(t) + 1 - 1 = Len(t)
        BY <3>5
      <3> QED
        BY <3>1, <3>3, <3>5, <3>7, <3>8, <3>9, <3>10
    <2> QED
      BY <2>1, <2>2
  <1> HIDE DEF S
  <1>2. Nat \subseteq S
    BY <1>1, StrongInduction
  <1> QED
    BY <1>2 DEF S

(* atoi undoes to_string, whatever the number.                               *)
LEMMA AtoiOfDecimal == \A n \in Nat : Atoi(Append(Decimal[n], NUL)) = n
  <1> TAKE n \in Nat
  <1> DEFINE t == Decimal[n]
             s == Append(t, NUL)
             IsEnd(k) == /\ \A i \in 1 .. k : s[i] \in 48 .. 57
                         /\ k < Len(s) => s[k + 1] \notin 48 .. 57
             digits == CHOOSE k \in 0 .. Len(s) : IsEnd(k)
             Is(v) == v = [i \in 0 .. digits |->
                             IF i = 0 THEN 0 ELSE 10 * v[i - 1] + (s[i] - 48)]
  <1>1. t \in Seq(Digit)
    BY DecimalDigits
  <1> HIDE DEF t
  <1>2. /\ Len(s) = Len(t) + 1 /\ Len(t) \in Nat /\ s[Len(t) + 1] = 0
        /\ \A i \in 1 .. Len(t) : s[i] = t[i] /\ t[i] \in 48 .. 57
    BY <1>1 DEF NUL, Digit
  <1> HIDE DEF s
  <1>3. digits = Len(t)
    <2>1. Len(t) \in 0 .. Len(s) /\ IsEnd(Len(t))
      BY <1>2
    <2>2. ASSUME NEW k \in 0 .. Len(s), IsEnd(k) PROVE k = Len(t)
      <3>1. ~(k < Len(t))
        BY <1>2, <2>2
      <3>2. k # Len(t) + 1
        BY <1>2, <2>2
      <3> QED
        BY <1>2, <3>1, <3>2
    <2> HIDE DEF IsEnd
    <2> QED
      BY <2>1, <2>2
  <1> HIDE DEF digits
  <1>4. \E v : Is(v)
    <2> DEFINE value == [i \in Nat |-> 0]
               below == [i \in Nat |-> IF i = 0 THEN 0 ELSE i - 1]
               digit == [i \in Nat |-> IF i \in 1 .. Len(t) THEN s[i] - 48 ELSE 0]
               step == [x \in Nat \X Int |-> 10 * x[2] + digit[x[1]]]
    <2>1. digit \in [Nat -> Int] /\ \A i \in 1 .. Len(t) : digit[i] = s[i] - 48
      BY <1>2
    <2> HIDE DEF digit
    <2>2. Descends(Int, {0}, value, below, step)
      <3>1. step \in [Nat \X Int -> Int]
        BY <2>1
      <3> HIDE DEF step
      <3> QED
        BY <3>1 DEF Descends
    <2>3. /\ value[0] = 0
          /\ \A i \in Nat \ {0} : below[i] = i - 1
      OBVIOUS
    <2>4. \A i \in Nat, x \in Int : step[<< i, x >>] = 10 * x + digit[i]
      OBVIOUS
    <2> HIDE DEF value, below, step
    <2>5. PICK f \in [Nat -> Int] : Solves(f, {0}, value, below, step)
      BY <2>2, RecursionExists
    <2> DEFINE v == [i \in 0 .. Len(t) |-> f[i]]
    <2>6. f[0] = 0
      BY <2>3, <2>5 DEF Solves
    <2>7. \A i \in 1 .. Len(t) : f[i] = 10 * f[i - 1] + (s[i] - 48)
      <3> TAKE i \in 1 .. Len(t)
      <3>1. i \in Nat /\ i # 0 /\ i - 1 \in Nat /\ below[i] = i - 1
        BY <1>2, <2>3
      <3>2. f[i] = step[<< i, f[i - 1] >>]
        BY <2>5, <3>1 DEF Solves
      <3> QED
        BY <2>1, <2>4, <3>1, <3>2
    <2>8. \A i \in 0 .. Len(t) : f[i] = IF i = 0 THEN 0 ELSE 10 * v[i - 1] + (s[i] - 48)
      BY <1>2, <2>6, <2>7
    <2>9. Is(v)
      BY <1>3, <2>8
    <2> QED
      BY <2>9
  <1> DEFINE value == CHOOSE v : Is(v)
  <1>5. Is(value)
    BY <1>4
  <1>6. Atoi(s) = value[digits]
    BY DEF Atoi, digits
  <1> HIDE DEF value
  <1>7. Sums(value, t)
    BY <1>2, <1>3, <1>5 DEF Sums
  <1>8. value[Len(t)] = n
    BY <1>7, DecimalSum DEF t
  <1> QED
    BY <1>3, <1>6, <1>8 DEF s, t

-----------------------------------------------------------------------------
\* Forms on the chip.

AllFormsFit == \A c \in Forms : Fits(c)

LEMMA PlaceInChip == \A f \in Fields, i \in Nat : Place(f, i) \in Cells
  BY SettingsAssumption DEF Place, Cells, Fields

(* A string on its way to the chip ends with the only NUL it has.            *)
LEMMA Terminated ==
  ASSUME NEW s \in Seq(Char)
  PROVE  /\ Append(s, NUL) \in Seq(Byte) /\ Len(Append(s, NUL)) = Len(s) + 1
         /\ \A i \in 1 .. Len(s) + 1 :
               /\ Append(s, NUL)[i] \in Byte \ {BLANK}
               /\ Append(s, NUL)[i] = NUL <=> i = Len(s) + 1
  <1>1. \A i \in 1 .. Len(s) : s[i] \in Char /\ s[i] \in Byte \ {NUL, BLANK}
    BY SettingsAssumption DEF Byte, NUL, BLANK
  <1>2. s \in Seq(Byte) /\ NUL \in Byte \ {BLANK}
    BY DEF Byte, NUL, BLANK
  <1>3. /\ Append(s, NUL) \in Seq(Byte) /\ Len(Append(s, NUL)) = Len(s) + 1
        /\ Append(s, NUL)[Len(s) + 1] = NUL
        /\ \A i \in 1 .. Len(s) : Append(s, NUL)[i] = s[i]
    BY <1>2
  <1>4. \A i \in 1 .. Len(s) + 1 : i \in 1 .. Len(s) \/ i = Len(s) + 1
    OBVIOUS
  <1> QED
    BY <1>1, <1>2, <1>3, <1>4

LEMMA StringData ==
  \A c \in Forms, f \in Strings : \E s \in Seq(Char) : Data(c, f) = Append(s, NUL)
  <1> SUFFICES ASSUME NEW c \in Forms, NEW f \in Strings
               PROVE  \E s \in Seq(Char) : Data(c, f) = Append(s, NUL)
    OBVIOUS
  <1>1. CASE f \in 1 .. 3
    <2>1. c.text[f] \in Seq(Char)
      BY <1>1, FormsAssumption
    <2>2. Data(c, f) = Append(c.text[f], NUL)
      BY <1>1 DEF Data
    <2> QED
      BY <2>1, <2>2
  <1>2. CASE f = 4
    <2>1. Decimal[c.port] \in Seq(Digit)
      BY DecimalDigits, FormsAssumption
    <2>2. Decimal[c.port] \in Seq(Char)
      BY <2>1, SettingsAssumption DEF Digit
    <2>3. Data(c, f) = Append(Decimal[c.port], NUL)
      BY <1>2 DEF Data
    <2> QED
      BY <2>2, <2>3
  <1> QED
    BY <1>1, <1>2 DEF Strings

(* What the save loop writes.                                                *)
LEMMA DataShape ==
  \A c \in Forms, f \in Fields :
     /\ Len(Data(c, f)) \in Nat \ {0}
     /\ \A i \in 1 .. Len(Data(c, f)) :
           /\ Data(c, f)[i] \in Byte \ {BLANK}
           /\ f \in Strings => (Data(c, f)[i] = NUL <=> i = Len(Data(c, f)))
  <1> SUFFICES ASSUME NEW c \in Forms, NEW f \in Fields
               PROVE  /\ Len(Data(c, f)) \in Nat \ {0}
                      /\ \A i \in 1 .. Len(Data(c, f)) :
                            /\ Data(c, f)[i] \in Byte \ {BLANK}
                            /\ f \in Strings => (Data(c, f)[i] = NUL <=> i = Len(Data(c, f)))
    OBVIOUS
  <1>1. CASE f = 0
    BY <1>1 DEF Data, Strings, Byte, BLANK
  <1>2. CASE f \in Strings
    <2>1. PICK s \in Seq(Char) : Data(c, f) = Append(s, NUL)
      BY <1>2, StringData
    <2>2. Len(s) \in Nat
      OBVIOUS
    <2> QED
      BY <2>1, <2>2, Terminated
  <1> QED
    BY <1>1, <1>2 DEF Fields, Strings

-----------------------------------------------------------------------------
\* Types.

(* The save loop always saves a form, and stands at one of its bytes.         *)
SavesForm ==
    /\ phase \in {"save", "verify"} => creds \in Forms
    /\ phase = "save" => idx \in 1 .. Len(Data(creds, field))
    /\ phase = "verify" => field = 0 /\ idx = 1

TypeInv == TypeOK /\ SavesForm

LEMMA TypeInit == Init => TypeInv
  BY SettingsAssumption
     DEF Init, TypeInv, TypeOK, SavesForm, Byte, Phases, Fields, NUL, BLANK

LEMMA TypeStep == TypeInv /\ [Next]_vars => TypeInv'
  <1> SUFFICES ASSUME TypeInv, [Next]_vars PROVE TypeInv'
    OBVIOUS
  <1> USE DEF TypeInv, TypeOK, SavesForm, Phases
  <1>1. CASE NoButton \/ HoldButton \/ CheckFlag
    BY <1>1 DEF NoButton, HoldButton, CheckFlag, ram
  <1>2. CASE EraseByte
    <2>1. memory' \in [Cells -> Byte]
      BY <1>2 DEF EraseByte, EraseStep, Unwritten, Byte, NUL
    <2> QED
      BY <1>2, <2>1 DEF EraseByte, EraseStep, Unwritten
  <1>3. CASE Load
    BY <1>3 DEF Load
  <1>4. ASSUME NEW c \in Forms, Submit(c) PROVE TypeInv'
    <2>1. 1 \in 1 .. Len(Data(c, 0))
      BY DataShape DEF Fields
    <2> QED
      BY <1>4, <2>1, SettingsAssumption DEF Submit, Fields
  <1>5. CASE SaveByte
    <2>1. creds \in Forms /\ field \in Fields /\ idx \in 1 .. Len(Data(creds, field))
      BY <1>5 DEF SaveByte, SaveStep, Advance, Unwritten
    <2>2. memory' \in [Cells -> Byte]
      BY <1>5, <2>1, DataShape DEF SaveByte, SaveStep, Advance, Unwritten, Written
    <2>3. creds' = creds /\ record' = creds /\ epoch' = "saving"
          /\ pos' = pos /\ trys' = trys
      BY <1>5 DEF SaveByte, SaveStep, Advance, Unwritten
    <2>4. CASE idx < Len(Data(creds, field))
      <3>1. idx' = idx + 1 /\ field' = field /\ phase' = "save"
        BY <1>5, <2>4 DEF SaveByte, SaveStep, Advance, Unwritten
      <3>2. idx' \in 1 .. Len(Data(creds, field))
        BY <2>1, <2>4, <3>1, DataShape
      <3> QED
        BY <2>1, <2>2, <2>3, <3>1, <3>2
    <2>5. CASE ~(idx < Len(Data(creds, field))) /\ field < 4
      <3>1. idx' = 1 /\ field' = field + 1 /\ phase' = "save"
        BY <1>5, <2>5 DEF SaveByte, SaveStep, Advance, Unwritten
      <3>2. field' \in Fields
        BY <2>1, <2>5, <3>1 DEF Fields
      <3>3. idx' \in 1 .. Len(Data(creds, field'))
        BY <2>1, <3>1, <3>2, DataShape
      <3> QED
        BY <2>1, <2>2, <2>3, <3>1, <3>2, <3>3
    <2>6. CASE ~(idx < Len(Data(creds, field))) /\ ~(field < 4)
      <3>1. idx' = 1 /\ field' = 0 /\ phase' = "verify"
        BY <1>5, <2>6 DEF SaveByte, SaveStep, Advance, Unwritten
      <3> QED
        BY <2>1, <2>2, <2>3, <3>1 DEF Fields
    <2> QED
      BY <2>4, <2>5, <2>6
  <1>6. CASE Verify
    <2>1. CASE phase' = "save"
      <3>1. trys' \in 0 .. MaxTrys
        BY <1>6, <2>1, SettingsAssumption DEF Verify
      <3>2. /\ creds \in Forms /\ field = 0 /\ idx = 1
            /\ UNCHANGED << memory, pos, field, idx, creds, record, epoch >>
        BY <1>6, <2>1 DEF Verify
      <3>3. idx \in 1 .. Len(Data(creds, field))
        BY <3>2, DataShape DEF Fields
      <3> QED
        BY <2>1, <3>1, <3>2, <3>3
    <2>2. CASE phase' # "save"
      BY <1>6, <2>2 DEF Verify
    <2> QED
      BY <2>1, <2>2
  <1>7. CASE WatchdogReset \/ PowerLoss
    BY <1>7, SettingsAssumption DEF WatchdogReset, PowerLoss, Reboot, Fields
  <1>8. CASE UNCHANGED vars
    BY <1>8 DEF vars
  <1> QED
    BY <1>1, <1>2, <1>3, <1>4, <1>5, <1>6, <1>7, <1>8 DEF Next, Firmware

(* The types of the state hold for every chip, layout and set of forms.      *)
THEOREM TypeCorrect == Spec => []TypeOK
  <1>1. TypeInv => TypeOK
    BY DEF TypeInv
  <1> QED
    BY <1>1, TypeInit, TypeStep, PTL DEF Spec

-----------------------------------------------------------------------------
\* Byte i of field f comes before byte j of field g in the save loop.
Before(f, i, g, j) == f < g \/ (f = g /\ i < j)

(* Every byte the save loop has passed in this attempt is in the chip.        *)
SavedSoFar ==
    phase = "save" =>
        \A f \in Fields : \A i \in 1 .. Len(Data(creds, f)) :
            Before(f, i, field, idx) => memory[Place(f, i)] = Data(creds, f)[i]

(* A completed attempt has stored the form, and a reported success means that *)
(* it is still there.                                                         *)
SaveInv ==
    /\ SavedSoFar
    /\ phase = "verify" => Stored(creds) /\ record = creds
    /\ epoch = "saved" => record \in Forms /\ Stored(record)

LEMMA SaveInit == Init => SaveInv
  BY DEF Init, SaveInv, SavedSoFar

(* One byte of a form that fits goes in without disturbing the others.        *)
LEMMA WriteKeepsOthers ==
  ASSUME AllFormsFit, TypeInv, ~LostWrites, SaveByte
  PROVE  \A f \in Fields : \A i \in 1 .. Len(Data(creds, f)) :
            memory'[Place(f, i)] = IF f = field /\ i = idx
                                   THEN Data(creds, f)[i]
                                   ELSE memory[Place(f, i)]
  <1>1. /\ creds \in Forms /\ field \in Fields
        /\ idx \in 1 .. Len(Data(creds, field))
        /\ memory \in [Cells -> Byte]
    BY DEF SaveByte, SaveStep, Advance, Unwritten, TypeInv, TypeOK, SavesForm
  <1>2. memory' = [memory EXCEPT ![Place(field, idx)] = Data(creds, field)[idx]]
    BY DEF SaveByte, SaveStep, Advance, Unwritten, Written
  <1> SUFFICES ASSUME NEW f \in Fields, NEW i \in 1 .. Len(Data(creds, f))
               PROVE  memory'[Place(f, i)] = IF f = field /\ i = idx
                                             THEN Data(creds, f)[i]
                                             ELSE memory[Place(f, i)]
    OBVIOUS
  <1>3. Place(f, i) \in Cells
    BY <1>1, DataShape, PlaceInChip
  <1>4. Place(f, i) = Place(field, idx) => f = field /\ i = idx
    BY <1>1 DEF AllFormsFit, Fits
  <1> QED
    BY <1>1, <1>2, <1>3, <1>4

LEMMA SavePreserved ==
  ASSUME AllFormsFit, ~LostWrites, TypeInv, SaveInv, [Next]_vars
  PROVE  SaveInv'
  <1> USE DEF SaveInv
  <1>1. CASE NoButton \/ HoldButton \/ CheckFlag \/ Load
    BY <1>1 DEF NoButton, HoldButton, CheckFlag, Load, ram, SavedSoFar, Stored, Place
  <1>2. CASE EraseByte
    BY <1>2 DEF EraseByte, EraseStep, Unwritten, SavedSoFar
  <1>3. ASSUME NEW c \in Forms, Submit(c) PROVE SaveInv'
    <2>1. ~ \E f \in Fields : \E i \in 1 .. Len(Data(c, f)) : Before(f, i, 0, 1)
      BY <1>3, DataShape DEF Before, Fields
    <2> QED
      BY <1>3, <2>1 DEF Submit, SavedSoFar, Stored, Place
  <1>4. CASE SaveByte
    <2>1. /\ phase = "save" /\ creds \in Forms /\ field \in Fields
          /\ idx \in 1 .. Len(Data(creds, field))
          /\ creds' = creds /\ record' = creds /\ epoch' = "saving"
      BY <1>4 DEF SaveByte, SaveStep, Advance, Unwritten, TypeInv, TypeOK, SavesForm
    <2>2. \A f \in Fields : \A i \in 1 .. Len(Data(creds, f)) :
            Before(f, i, field, idx) \/ (f = field /\ i = idx)
              => memory'[Place(f, i)] = Data(creds, f)[i]
      BY <1>4, <2>1, WriteKeepsOthers DEF SavedSoFar
    <2>3. CASE phase' = "save"
      <3>1. \A f \in Fields : \A i \in 1 .. Len(Data(creds, f)) :
              Before(f, i, field', idx') =>
                 Before(f, i, field, idx) \/ (f = field /\ i = idx)
        <4> SUFFICES ASSUME NEW f \in Fields, NEW i \in 1 .. Len(Data(creds, f)),
                            Before(f, i, field', idx')
                     PROVE  Before(f, i, field, idx) \/ (f = field /\ i = idx)
          OBVIOUS
        <4>1. i \in Nat /\ idx \in Nat /\ Len(Data(creds, f)) \in Nat
              /\ Len(Data(creds, field)) \in Nat /\ f \in Nat /\ field \in Nat
          BY <2>1, DataShape DEF Fields
        <4>2. CASE idx < Len(Data(creds, field))
          BY <1>4, <4>1, <4>2 DEF SaveByte, SaveStep, Advance, Unwritten, Before
        <4>3. CASE ~(idx < Len(Data(creds, field)))
          <5>1. field' = field + 1 /\ idx' = 1
            BY <1>4, <2>3, <4>3 DEF SaveByte, SaveStep, Advance, Unwritten
          <5>2. f < field \/ f = field
            BY <4>1, <5>1 DEF Before
          <5>3. f = field => i <= idx
            BY <2>1, <4>1, <4>3
          <5> QED
            BY <4>1, <5>2, <5>3 DEF Before
        <4> QED
          BY <4>2, <4>3
      <3>2. SavedSoFar'
        BY <2>1, <2>2, <3>1 DEF SavedSoFar, Place
      <3> QED
        BY <2>1, <2>3, <3>2
    <2>4. CASE phase' # "save"
      <3>1. field = 4 /\ idx = Len(Data(creds, field)) /\ phase' = "verify"
        BY <1>4, <2>1, <2>4, DataShape DEF SaveByte, SaveStep, Advance, Unwritten, Fields
      <3>2. \A f \in Fields : \A i \in 1 .. Len(Data(creds, f)) :
              Before(f, i, field, idx) \/ (f = field /\ i = idx)
        BY <2>1, <3>1, DataShape DEF Before, Fields
      <3>3. Stored(creds)'
        BY <2>1, <2>2, <3>2 DEF Stored, Place
      <3> QED
        BY <2>1, <3>1, <3>3 DEF SavedSoFar
    <2> QED
      BY <2>3, <2>4
  <1>5. CASE Verify
    <2>1. /\ creds \in Forms /\ Stored(creds) /\ record = creds /\ field = 0 /\ idx = 1
          /\ phase' \in {"reset", "running", "save"}
          /\ UNCHANGED << memory, field, idx, creds, record >>
      BY <1>5 DEF Verify, TypeInv, SavesForm
    <2>2. ~ \E f \in Fields : \E i \in 1 .. Len(Data(creds, f)) : Before(f, i, 0, 1)
      BY <2>1, DataShape DEF Before, Fields
    <2> QED
      BY <2>1, <2>2 DEF SavedSoFar, Stored, Place
  <1>6. CASE WatchdogReset \/ PowerLoss
    BY <1>6 DEF WatchdogReset, PowerLoss, Reboot, SavedSoFar, Stored, Place
  <1>7. CASE UNCHANGED vars
    BY <1>7 DEF vars, SavedSoFar, Stored, Place
  <1> QED
    BY <1>1, <1>2, <1>3, <1>4, <1>5, <1>6, <1>7 DEF Next, Firmware

(* If verified writes are not lost and the forms fit their fields, what the   *)
(* save loop reports as saved is in the chip, byte for byte, and stays there  *)
(* until the next save or erase, wherever the supply fails.                   *)
THEOREM SavedStaysStored ==
  ASSUME AllFormsFit, ~LostWrites
  PROVE  Spec => []SavedIsStored
  <1>1. Init => TypeInv /\ SaveInv
    BY TypeInit, SaveInit
  <1>2. (TypeInv /\ SaveInv) /\ [Next]_vars => (TypeInv /\ SaveInv)'
    BY TypeStep, SavePreserved
  <1>3. TypeInv /\ SaveInv => SavedIsStored
    BY DEF SaveInv, SavedIsStored
  <1> QED
    BY <1>1, <1>2, <1>3, PTL DEF Spec

-----------------------------------------------------------------------------
(* From the first byte of an erase on, the flag does not say "configured".    *)
EraseInv ==
    /\ epoch = "erased" => memory[0] # 1 /\ phase \notin {"load", "running"}
    /\ phase = "verify" => epoch = "saving"
    /\ phase = "erase" => pos = 0 \/ epoch = "erased"

LEMMA ErasePreserved ==
  ASSUME ~LostWrites, TypeInv, EraseInv, [Next]_vars
  PROVE  EraseInv'
  <1> USE DEF EraseInv
  <1>1. CASE NoButton \/ HoldButton \/ CheckFlag \/ Load
    BY <1>1 DEF NoButton, HoldButton, CheckFlag, Load, ram
  <1>2. CASE EraseByte
    <2>1. memory' = [memory EXCEPT ![pos % MemSize] = NUL] /\ epoch' = "erased"
          /\ phase' \in {"check", "erase"}
      BY <1>2 DEF EraseByte, EraseStep, Unwritten
    <2>2. memory \in [Cells -> Byte] /\ 0 \in Cells
      BY SettingsAssumption DEF TypeInv, TypeOK, Cells
    <2>3. CASE pos = 0
      <3>1. pos % MemSize = 0
        BY <2>3, SettingsAssumption
      <3> QED
        BY <2>1, <2>2, <3>1 DEF NUL
    <2>4. CASE pos # 0
      <3>1. memory[0] # 1
        BY <1>2, <2>4 DEF EraseByte, EraseStep, Unwritten
      <3>2. memory'[0] \in {NUL, memory[0]}
        BY <2>1, <2>2
      <3> QED
        BY <2>1, <3>1, <3>2 DEF NUL
    <2> QED
      BY <2>3, <2>4
  <1>3. ASSUME NEW c \in Forms, Submit(c) PROVE EraseInv'
    BY <1>3 DEF Submit
  <1>4. CASE SaveByte
    <2>1. epoch' = "saving" /\ phase' \in {"save", "verify"}
      BY <1>4 DEF SaveByte, SaveStep, Advance, Unwritten
    <2> QED
      BY <2>1
  <1>5. CASE Verify
    <2>1. epoch' # "erased" /\ phase' \in {"reset", "running", "save"}
      BY <1>5 DEF Verify
    <2> QED
      BY <2>1
  <1>6. CASE WatchdogReset \/ PowerLoss
    BY <1>6 DEF WatchdogReset, PowerLoss, Reboot
  <1>7. CASE UNCHANGED vars
    BY <1>7 DEF vars
  <1> QED
    BY <1>1, <1>2, <1>3, <1>4, <1>5, <1>6, <1>7 DEF Next, Firmware

(* The remains of an erase, complete or interrupted, are never loaded: the    *)
(* first write of the ascending erase clears the flag.                        *)
THEOREM EraseIsFinal ==
  ASSUME ~LostWrites
  PROVE  Spec => []ErasedIsNotLoaded
  <1>1. Init => TypeInv /\ EraseInv
    <2>1. Init => EraseInv
      BY SettingsAssumption DEF Init, EraseInv, Cells, NUL, BLANK
    <2> QED
      BY <2>1, TypeInit
  <1>2. (TypeInv /\ EraseInv) /\ [Next]_vars => (TypeInv /\ EraseInv)'
    BY TypeStep, ErasePreserved
  <1>3. TypeInv /\ EraseInv => ErasedIsNotLoaded
    BY DEF EraseInv, ErasedIsNotLoaded
  <1> QED
    BY <1>1, <1>2, <1>3, PTL DEF Spec

-----------------------------------------------------------------------------
\* Reading ends.

\* Cells to which no form writes anything but a NUL.
Spare == {m \in Cells :
    \A c \in Forms, g \in Fields : \A j \in 1 .. Len(Data(c, g)) :
        Place(g, j) = m => Data(c, g)[j] = NUL}

(* Places that coincide, coincide the same distance further on or back.      *)
LEMMA PlaceShift ==
  ASSUME NEW f \in Fields, NEW g \in Fields, NEW i \in Nat \ {0}, NEW j \in Nat \ {0},
         Place(f, i) = Place(g, j),
         NEW k \in Nat \ {0}, NEW l \in Nat \ {0}, k - i = l - j
  PROVE  Place(f, k) = Place(g, l)
  <1> DEFINE P(h, n) == Base[h] + (n - 1)
  <1>1. /\ P(f, i) \in Nat /\ P(g, j) \in Nat /\ P(f, k) \in Nat /\ P(g, l) \in Nat
        /\ P(f, k) - P(f, i) = P(g, l) - P(g, j)
        /\ MemSize \in Nat \ {0}
    BY SettingsAssumption
  <1>2. Congruent(P(f, i), P(g, j), MemSize)
    BY DEF Place, Congruent
  <1> HIDE DEF P
  <1>3. Congruent(P(f, k), P(g, l), MemSize)
    BY <1>1, <1>2, RemainderShift
  <1> QED
    BY <1>3 DEF Place, P, Congruent

(* The field behind a string, or the flag of the next turn of the chip, limits*)
(* it: the cell before it takes nothing but a terminator.                    *)
LEMMA EveryStringEnds ==
  ASSUME AllFormsFit, NEW f \in Strings
  PROVE  \E n \in 1 .. MemSize : Place(f, n) \in Spare
  <1> DEFINE T == {n \in 1 .. MemSize : \E g \in Fields : Place(g, 1) = Place(f, n + 1)}
  <1>0. f \in Fields
    BY DEF Fields, Strings
  <1>1. T # {}
    <2> DEFINE r == Base[f] % MemSize
               n == MemSize - r
    <2>1. MemSize \in Nat \ {0} /\ Base[f] \in Nat
      BY <1>0, SettingsAssumption
    <2>2. r \in 0 .. MemSize - 1 /\ n \in 1 .. MemSize
      BY <2>1, Remainder
    <2>3. r + n = MemSize /\ Congruent(r, Base[f], MemSize)
      BY <2>1, <2>2 DEF Congruent
    <2>4. Base[f] + ((n + 1) - 1) = Base[f] + n
      BY <2>1, <2>2
    <2> HIDE DEF r, n
    <2>5. Place(f, n + 1) = 0
      <3>1. r + n \in Nat /\ Base[f] + n \in Nat /\ r \in Nat /\ (r + n) - r = (Base[f] + n) - Base[f]
        BY <2>1, <2>2
      <3>2. Congruent(r + n, Base[f] + n, MemSize)
        BY <2>1, <2>3, <3>1, RemainderShift
      <3> QED
        BY <2>1, <2>3, <2>4, <3>2 DEF Place, Congruent
    <2>6. Place(0, 1) = 0 /\ 0 \in Fields
      BY SettingsAssumption DEF Place, Fields
    <2> QED
      BY <2>2, <2>5, <2>6
  <1>2. T \subseteq Nat
    BY SettingsAssumption
  <1>3. PICK n \in T : \A m \in T : n <= m
    BY <1>1, <1>2, LeastNatural
  <1>4. PICK h \in Fields : Place(h, 1) = Place(f, n + 1)
    BY <1>3
  <1>5. n \in 1 .. MemSize /\ MemSize \in Nat
    BY <1>3, SettingsAssumption
  <1>6. ASSUME NEW c \in Forms, NEW g \in Fields, NEW j \in 1 .. Len(Data(c, g)),
               Place(g, j) = Place(f, n)
        PROVE  Data(c, g)[j] = NUL
    <2>1. /\ Len(Data(c, g)) \in Nat \ {0} /\ Len(Data(c, f)) \in Nat \ {0}
          /\ Len(Data(c, h)) \in Nat \ {0}
      BY <1>0, <1>4, DataShape
    <2>2. /\ j \in Nat \ {0} /\ n \in Nat \ {0}
          /\ 1 \in 1 .. Len(Data(c, f)) /\ 1 \in 1 .. Len(Data(c, h))
      BY <1>5, <2>1
    <2>3. ASSUME j < n PROVE FALSE
      <3>1. /\ (n - j) + 1 \in Nat \ {0} /\ 1 - j = ((n - j) + 1) - n
            /\ n - j \in 1 .. MemSize /\ ~(n <= n - j)
        BY <1>5, <2>2, <2>3
      <3>2. Place(g, 1) = Place(f, (n - j) + 1)
        BY <1>0, <1>6, <2>2, <3>1, PlaceShift
      <3> QED
        BY <1>3, <3>1, <3>2
    <2>4. ASSUME j > n PROVE FALSE
      <3>1. /\ (j - n) + 1 \in Nat \ {0} /\ ((j - n) + 1) - j = 1 - n
            /\ (j - n) + 1 \in 1 .. Len(Data(c, g)) /\ (j - n) + 1 # 1
        BY <1>5, <2>1, <2>2, <2>4
      <3>2. Place(g, (j - n) + 1) = Place(f, 1)
        BY <1>0, <1>6, <2>2, <3>1, PlaceShift
      <3> QED
        BY <1>0, <2>2, <3>1, <3>2 DEF AllFormsFit, Fits
    <2>5. j = n
      BY <2>2, <2>3, <2>4
    <2>6. g = f
      <3>1. 1 - j = 1 - n /\ 1 \in 1 .. Len(Data(c, g))
        BY <2>1, <2>2, <2>5
      <3>2. Place(g, 1) = Place(f, 1)
        BY <1>0, <1>6, <2>2, <3>1, PlaceShift
      <3> QED
        BY <1>0, <2>2, <3>1, <3>2 DEF AllFormsFit, Fits
    <2>7. ~(n + 1 <= Len(Data(c, f)))
      <3> SUFFICES ASSUME n + 1 <= Len(Data(c, f)) PROVE FALSE
        OBVIOUS
      <3>1. n + 1 \in 1 .. Len(Data(c, f)) /\ n + 1 # 1
        BY <2>1, <2>2
      <3> QED
        BY <1>0, <1>4, <2>2, <3>1 DEF AllFormsFit, Fits
    <2>8. j = Len(Data(c, f))
      BY <2>1, <2>2, <2>5, <2>6, <2>7
    <2> QED
      BY <1>0, <2>6, <2>8, DataShape
  <1>7. Place(f, n) \in Cells
    BY <1>0, <1>5, PlaceInChip
  <1> QED
    BY <1>5, <1>6, <1>7 DEF Spare

\* Whatever is lost or interrupted, cell 0 holds a boolean, no cell is blank,
\* and the spare cells hold the NUL that ends a string.
ReadInv ==
    /\ memory[0] \in {0, 1}
    /\ \A m \in Cells : memory[m] # BLANK
    /\ \A m \in Spare : memory[m] = NUL

LEMMA ReadPreserved ==
  ASSUME AllFormsFit, TypeInv, ReadInv, [Next]_vars
  PROVE  ReadInv'
  <1> USE DEF ReadInv
  <1>0. memory \in [Cells -> Byte] /\ Spare \subseteq Cells /\ Spare' = Spare /\ 0 \in Cells
    BY SettingsAssumption DEF TypeInv, TypeOK, Spare, Cells, Place
  <1>1. ASSUME NEW m \in Cells, NEW b \in Byte \ {BLANK}, memory' = [memory EXCEPT ![m] = b],
               m = 0 => b \in {0, 1}, m \in Spare => b = NUL
        PROVE  ReadInv'
    BY <1>0, <1>1
  <1>2. CASE UNCHANGED memory
    BY <1>0, <1>2
  <1>3. CASE EraseByte
    <2>1. pos % MemSize \in Cells
      BY SettingsAssumption DEF TypeInv, TypeOK, Cells
    <2>2. memory' = memory \/ memory' = [memory EXCEPT ![pos % MemSize] = NUL]
      BY <1>3 DEF EraseByte, EraseStep, Unwritten
    <2>3. NUL \in Byte \ {BLANK} /\ NUL \in {0, 1}
      BY DEF NUL, Byte, BLANK
    <2> QED
      BY <1>1, <1>2, <2>1, <2>2, <2>3
  <1>4. CASE SaveByte
    <2> DEFINE b == Data(creds, field)[idx]
    <2>1. creds \in Forms /\ field \in Fields /\ idx \in 1 .. Len(Data(creds, field))
      BY <1>4 DEF SaveByte, SaveStep, TypeInv, TypeOK, SavesForm
    <2>2. memory' = memory \/ memory' = [memory EXCEPT ![Place(field, idx)] = b]
      BY <1>4 DEF SaveByte, Unwritten, Written
    <2>3. Place(field, idx) \in Cells /\ b \in Byte \ {BLANK}
      BY <2>1, DataShape, PlaceInChip
    <2>4. Place(field, idx) \in Spare => b = NUL
      BY <2>1 DEF Spare
    <2>5. Place(field, idx) = 0 => b \in {0, 1}
      <3>1. Place(0, 1) = 0 /\ 0 \in Fields
        BY SettingsAssumption DEF Place, Fields
      <3>2. 1 \in 1 .. Len(Data(creds, 0))
        BY DEF Data
      <3>3. Place(field, idx) = 0 => field = 0 /\ idx = 1
        BY <2>1, <3>1, <3>2 DEF AllFormsFit, Fits
      <3>4. Data(creds, 0)[1] = 1
        BY DEF Data
      <3> QED
        BY <3>3, <3>4
    <2> HIDE DEF b
    <2> QED
      BY <1>1, <1>2, <2>2, <2>3, <2>4, <2>5
  <1>5. CASE ~ UNCHANGED memory
    <2>1. EraseByte \/ SaveByte
      BY <1>5 DEF Next, Firmware, NoButton, HoldButton, CheckFlag, Load, Submit, Verify,
                  WatchdogReset, PowerLoss, Reboot, vars
    <2> QED
      BY <1>3, <1>4, <2>1
  <1> QED
    BY <1>2, <1>5

(* A NUL ahead, and no blank cell before the first of them.                  *)
LEMMA ReadEnds ==
  ASSUME AllFormsFit, TypeInv, ReadInv, NEW f \in Strings
  PROVE  Readable(f)
  <1> DEFINE T == {n \in 1 .. MemSize : memory[Place(f, n)] = NUL}
  <1>1. T # {}
    BY EveryStringEnds DEF ReadInv
  <1>2. T \subseteq Nat /\ MemSize \in Nat
    BY SettingsAssumption
  <1>3. PICK n \in T : \A m \in T : n <= m
    BY <1>1, <1>2, LeastNatural
  <1>4. ASSUME NEW i \in 1 .. n - 1 PROVE memory[Place(f, i)] \notin {NUL, BLANK}
    <2>1. i \in 1 .. MemSize /\ ~(n <= i)
      BY <1>2, <1>3
    <2>2. Place(f, i) \in Cells
      BY <1>2, <2>1, PlaceInChip DEF Strings, Fields
    <2> QED
      BY <1>3, <2>1, <2>2 DEF ReadInv
  <1> QED
    BY <1>3, <1>4 DEF Readable

(* On a chip that was initialised once, no read of boot or of the save loop  *)
(* spins, wherever power fails and whatever writes are lost, as long as the  *)
(* forms fit: cell 0 is only ever a boolean, and before each next field is a *)
(* cell that keeps the NUL of the erase.                                     *)
THEOREM ReadsEnd ==
  ASSUME AllFormsFit, ~FactoryBlank
  PROVE  Spec => []NoReadBlocks
  <1>1. Init => TypeInv /\ ReadInv
    <2>1. Init => ReadInv
      BY SettingsAssumption DEF Init, ReadInv, Cells, Spare, NUL, BLANK
    <2> QED
      BY <2>1, TypeInit
  <1>2. (TypeInv /\ ReadInv) /\ [Next]_vars => (TypeInv /\ ReadInv)'
    BY TypeStep, ReadPreserved
  <1>3. TypeInv /\ ReadInv => NoReadBlocks
    BY ReadEnds DEF ReadInv, NoReadBlocks
  <1> QED
    BY <1>1, <1>2, <1>3, PTL DEF Spec

-----------------------------------------------------------------------------
(* readString returns what comes up to the first NUL, and the NUL.           *)
LEMMA StoredStringIs ==
  ASSUME NEW f \in Strings, NEW n \in 1 .. MemSize, memory[Place(f, n)] = NUL,
         \A i \in 1 .. n - 1 : memory[Place(f, i)] # NUL
  PROVE  StoredString(f) = [i \in 1 .. n |-> memory[Place(f, i)]]
  <1> DEFINE Ends(k) == /\ memory[Place(f, k)] = NUL
                        /\ \A i \in 1 .. k - 1 : memory[Place(f, i)] # NUL
             m == CHOOSE k \in 1 .. MemSize : Ends(k)
  <1>1. Ends(n)
    OBVIOUS
  <1>2. ASSUME NEW k \in 1 .. MemSize, Ends(k) PROVE k = n
    <2>1. n \in Nat /\ k \in Nat
      BY SettingsAssumption
    <2>2. ~(k < n) /\ ~(n < k)
      BY <1>1, <1>2, <2>1
    <2> QED
      BY <2>1, <2>2
  <1>3. StoredString(f) = [i \in 1 .. m |-> memory[Place(f, i)]]
    BY DEF StoredString
  <1> HIDE DEF Ends
  <1>4. m = n
    BY <1>1, <1>2
  <1> HIDE DEF m
  <1> QED
    BY <1>3, <1>4

(* No string that was read equals one that was entered: the NUL is part of   *)
(* the one and not of the other.                                             *)
LEMMA StringsNeverMatch ==
  ASSUME NEW f \in Strings, Readable(f), NEW s \in Seq(Char)
  PROVE  StoredString(f) # s
  <1>1. PICK n \in 1 .. MemSize :
          /\ memory[Place(f, n)] = NUL
          /\ \A i \in 1 .. n - 1 : memory[Place(f, i)] \notin {NUL, BLANK}
    BY DEF Readable
  <1>2. StoredString(f) = [i \in 1 .. n |-> memory[Place(f, i)]]
    BY <1>1, StoredStringIs
  <1>3. n \in 1 .. n
    BY SettingsAssumption
  <1>4. StoredString(f)[n] = NUL /\ DOMAIN StoredString(f) = 1 .. n
    BY <1>1, <1>2, <1>3
  <1>5. \A i \in DOMAIN s : s[i] # NUL
    BY SettingsAssumption DEF NUL
  <1> QED
    BY <1>3, <1>4, <1>5

LEMMA PortInit == Init => PortVerified
  BY DEF Init, PortVerified

LEMMA PortPreserved == ASSUME TypeInv, PortVerified, [Next]_vars PROVE PortVerified'
  <1>1. CASE Load
    <2>1. creds' = StoredCreds /\ record' = record /\ memory' = memory
      BY <1>1 DEF Load
    <2>2. creds'.port = Atoi(StoredString(4))
      BY <2>1 DEF StoredCreds
    <2>3. StoredString(4)' = StoredString(4)
      BY <2>1 DEF StoredString, Place
    <2> QED
      BY <2>2, <2>3 DEF PortVerified
  <1>2. CASE Verify
    <2> SUFFICES ASSUME phase' = "running", creds' = record'
                 PROVE  Atoi(StoredString(4)') = record'.port
      BY DEF PortVerified
    <2>1. Matches /\ memory' = memory /\ creds' = creds /\ \A f \in Strings : Readable(f)
      BY <1>2 DEF Verify
    <2>2. creds \in Forms
      BY <1>2 DEF Verify, TypeInv, SavesForm
    <2>3. \A f \in 1 .. 3 : StoredString(f) # creds.text[f]
      BY <2>1, <2>2, FormsAssumption, StringsNeverMatch DEF Strings
    <2>4. Atoi(StoredString(4)) = creds.port
      BY <2>1, <2>3 DEF Matches
    <2>5. StoredString(4)' = StoredString(4)
      BY <2>1 DEF StoredString, Place
    <2> QED
      BY <2>1, <2>4, <2>5
  <1>3. CASE UNCHANGED vars
    <2>1. StoredString(4)' = StoredString(4)
      BY <1>3 DEF vars, StoredString, Place
    <2> QED
      BY <1>3, <2>1 DEF vars, PortVerified
  <1>4. CASE phase' # "running"
    BY <1>4 DEF PortVerified
  <1>5. CASE ~(Load \/ Verify \/ UNCHANGED vars)
    <2>1. phase' # "running"
      BY <1>5 DEF Next, Firmware, NoButton, HoldButton, CheckFlag, Submit, WatchdogReset, PowerLoss,
                  Reboot, EraseByte, EraseStep, SaveByte, SaveStep, Advance
    <2> QED
      BY <1>4, <2>1
  <1> QED
    BY <1>1, <1>2, <1>3, <1>5

(* Although any writes may be lost and only one field has to match, a         *)
(* reported success means that the port in the chip is the one entered: the  *)
(* strings cannot match, so that the port has to.                            *)
THEOREM ReportedPortIsStored == Spec => []PortVerified
  <1>1. TypeInv /\ PortVerified /\ [Next]_vars => (TypeInv /\ PortVerified)'
    BY TypeStep, PortPreserved
  <1> QED
    BY <1>1, TypeInit, PortInit, PTL DEF Spec

-----------------------------------------------------------------------------
(* No form that fits is longer than the chip.                                *)
LEMMA FieldIsShort ==
  ASSUME AllFormsFit, NEW c \in Forms, NEW f \in Fields
  PROVE  Len(Data(c, f)) <= MemSize
  <1> DEFINE n == MemSize + 1
  <1> SUFFICES ASSUME ~(Len(Data(c, f)) <= MemSize) PROVE FALSE
    OBVIOUS
  <1>1. MemSize \in Nat \ {0} /\ Len(Data(c, f)) \in Nat \ {0} /\ Base[f] \in Nat
    BY SettingsAssumption, DataShape
  <1>2. n \in 1 .. Len(Data(c, f)) /\ 1 \in 1 .. Len(Data(c, f)) /\ n # 1
    BY <1>1
  <1>3. Place(f, n) = Place(f, 1)
    <2>1. Base[f] + (n - 1) = Base[f] + MemSize /\ Base[f] + (1 - 1) = Base[f]
      BY <1>1
    <2>2. (Base[f] + MemSize) % MemSize = Base[f] % MemSize
      BY <1>1, RemainderPeriod
    <2> QED
      BY <2>1, <2>2 DEF Place
  <1> QED
    BY <1>2, <1>3 DEF AllFormsFit, Fits

(* A form that is stored is read back as it was written.                     *)
LEMMA StoredIsRead ==
  ASSUME AllFormsFit, NEW c \in Forms, Stored(c)
  PROVE  StoredCreds = LoadedFrom(c)
  <1>1. ASSUME NEW f \in Strings PROVE StoredString(f) = Data(c, f)
    <2> DEFINE n == Len(Data(c, f))
    <2>1. f \in Fields /\ MemSize \in Nat
      BY SettingsAssumption DEF Fields, Strings
    <2>2. n \in Nat \ {0} /\ n <= MemSize
      BY <2>1, DataShape, FieldIsShort
    <2>3. \A i \in 1 .. n : memory[Place(f, i)] = Data(c, f)[i]
      BY <2>1 DEF Stored
    <2>4. \A i \in 1 .. n : Data(c, f)[i] = NUL <=> i = n
      BY <2>1, DataShape
    <2>5. Data(c, f) = [i \in 1 .. n |-> Data(c, f)[i]]
      <3>1. PICK s \in Seq(Char) : Data(c, f) = Append(s, NUL)
        BY StringData
      <3>2. Append(s, NUL) \in Seq(Byte)
        BY Terminated
      <3>3. \A t \in Seq(Byte) : t = [i \in 1 .. Len(t) |-> t[i]]
        OBVIOUS
      <3> QED
        BY <3>1, <3>2, <3>3
    <2> HIDE DEF n
    <2>6. n \in 1 .. MemSize /\ n \in 1 .. n /\ \A i \in 1 .. n - 1 : i \in 1 .. n /\ i # n
      BY <2>1, <2>2
    <2>7. memory[Place(f, n)] = NUL /\ \A i \in 1 .. n - 1 : memory[Place(f, i)] # NUL
      BY <2>3, <2>4, <2>6
    <2>8. StoredString(f) = [i \in 1 .. n |-> memory[Place(f, i)]]
      BY <2>6, <2>7, StoredStringIs
    <2> QED
      BY <2>3, <2>5, <2>8
  <1>2. [f \in 1 .. 3 |-> StoredString(f)] = [f \in 1 .. 3 |-> Data(c, f)]
    BY <1>1 DEF Strings
  <1>3. Atoi(StoredString(4)) = c.port
    <2>1. Data(c, 4) = Append(Decimal[c.port], NUL)
      BY DEF Data
    <2>2. Atoi(Data(c, 4)) = c.port
      BY <2>1, AtoiOfDecimal, FormsAssumption
    <2> QED
      BY <1>1, <2>2 DEF Strings
  <1> QED
    BY <1>2, <1>3 DEF StoredCreds, LoadedFrom

(* Every step of the firmware is a step of the store of settings, or none of *)
(* it: a byte of the form begins a save, the comparison completes it.        *)
LEMMA StepRefines ==
  ASSUME AllFormsFit, ~LostWrites, TypeInv, SaveInv, EraseInv, [Next]_vars
  PROVE  [Abstract!Next]_(Abstract!vars)
  <1> DEFINE Waiting == phase # "running" /\ phase' # "running"
  <1> USE DEF Abstract!Next, Abstract!vars, Abstract!Waits
  <1>1. CASE NoButton \/ HoldButton \/ CheckFlag
    <2>1. Waiting /\ UNCHANGED << epoch, record >>
      BY <1>1 DEF NoButton, HoldButton, CheckFlag
    <2> QED
      BY <2>1
  <1>2. ASSUME NEW c \in Forms, Submit(c) PROVE UNCHANGED Abstract!vars
    BY <1>2 DEF Submit
  <1>3. CASE EraseByte
    <2>1. Waiting /\ epoch' = "erased" /\ record' = record
      BY <1>3 DEF EraseByte, EraseStep
    <2> QED
      BY <2>1 DEF Abstract!Erase
  <1>4. CASE Load
    <2>1. /\ phase = "load" /\ phase' = "running" /\ creds' = StoredCreds
          /\ UNCHANGED << epoch, record >>
      BY <1>4 DEF Load
    <2>2. epoch \in {"saved", "saving"}
      BY <2>1 DEF EraseInv, TypeInv, TypeOK
    <2>3. CASE epoch = "saved"
      <3>1. record \in Forms /\ Stored(record)
        BY <2>3 DEF SaveInv
      <3>2. creds' = LoadedFrom(record)
        BY <2>1, <3>1, StoredIsRead
      <3> QED
        BY <2>1, <2>3, <3>1, <3>2 DEF Abstract!Load
    <2>4. CASE epoch = "saving"
      BY <2>1, <2>4 DEF Abstract!Load
    <2> QED
      BY <2>2, <2>3, <2>4
  <1>5. CASE SaveByte
    <2>1. Waiting /\ epoch' = "saving" /\ record' = creds /\ creds \in Forms
      BY <1>5 DEF SaveByte, SaveStep, Advance, TypeInv, SavesForm
    <2> QED
      BY <2>1 DEF Abstract!Begin
  <1>6. CASE Verify
    <2>1. /\ phase = "verify" /\ epoch = "saving" /\ record = creds
          /\ UNCHANGED << creds, record >>
      BY <1>6 DEF Verify, SaveInv, EraseInv
    <2>2. CASE phase' = "running"
      <3>1. epoch' = "saved"
        BY <1>6, <2>2 DEF Verify
      <3> QED
        BY <2>1, <2>2, <3>1 DEF Abstract!Complete
    <2>3. CASE phase' # "running"
      <3>1. epoch' = epoch
        BY <1>6, <2>3 DEF Verify
      <3> QED
        BY <2>1, <2>3, <3>1
    <2> QED
      BY <2>2, <2>3
  <1>7. CASE WatchdogReset \/ PowerLoss
    <2>1. phase' # "running" /\ UNCHANGED << epoch, record >>
      BY <1>7 DEF WatchdogReset, PowerLoss, Reboot
    <2> QED
      BY <2>1 DEF Abstract!Stop
  <1>8. CASE UNCHANGED vars
    BY <1>8 DEF vars
  <1> QED
    BY <1>1, <1>2, <1>3, <1>4, <1>5, <1>6, <1>7, <1>8 DEF Next, Firmware

(* If verified writes are not lost and the forms fit, the firmware keeps its  *)
(* settings as the store does, wherever the supply fails: a boot after a     *)
(* completed save runs on exactly the form that was entered, the port        *)
(* included, and a boot after an erase on none.                              *)
THEOREM FirmwareKeepsSettings ==
  ASSUME AllFormsFit, ~LostWrites
  PROVE  Spec => ImplementsSettingsStore
  <1> DEFINE I == TypeInv /\ SaveInv /\ EraseInv
  <1>1. Init => I
    <2>1. Init => EraseInv
      BY SettingsAssumption DEF Init, EraseInv, Cells, NUL, BLANK
    <2> QED
      BY <2>1, TypeInit, SaveInit
  <1>2. I /\ [Next]_vars => I'
    BY TypeStep, SavePreserved, ErasePreserved
  <1>3. Init => Abstract!Init
    BY DEF Init, Abstract!Init
  <1>4. I /\ [Next]_vars => [Abstract!Next]_(Abstract!vars)
    BY StepRefines
  <1> QED
    BY <1>1, <1>2, <1>3, <1>4, PTL DEF Spec, ImplementsSettingsStore, Abstract!Spec

-----------------------------------------------------------------------------
\* A save that is not interrupted.

(* Its first attempt is its last, and only while it runs is a form half in.  *)
WholeInv ==
    /\ phase \in {"save", "verify"} => trys = 0
    /\ epoch = "saving" => phase \in {"save", "verify"}

LEMMA WholePreserved ==
  ASSUME AllFormsFit, ~LostWrites, PowerFails \cap {"save", "verify"} = {}, MaxTrys > 0,
         TypeInv, SaveInv, WholeInv, [Next]_vars
  PROVE  WholeInv'
  <1> USE DEF WholeInv
  <1>1. CASE NoButton \/ HoldButton \/ CheckFlag \/ Load
    BY <1>1 DEF NoButton, HoldButton, CheckFlag, Load, ram
  <1>2. CASE EraseByte
    BY <1>2 DEF EraseByte, EraseStep
  <1>3. ASSUME NEW c \in Forms, Submit(c) PROVE WholeInv'
    BY <1>3 DEF Submit
  <1>4. CASE SaveByte
    <2>1. phase = "save" /\ phase' \in {"save", "verify"} /\ trys' = trys
      BY <1>4 DEF SaveByte, SaveStep, Advance
    <2> QED
      BY <2>1
  <1>5. CASE Verify
    <2>1. trys = 0 /\ Stored(creds) /\ creds \in Forms
      BY <1>5 DEF Verify, SaveInv, TypeInv, SavesForm
    <2>2. StoredCreds.port = creds.port
      BY <2>1, StoredIsRead DEF LoadedFrom
    <2>3. Matches
      BY <2>2 DEF StoredCreds, Matches
    <2>4. trys < MaxTrys
      BY <2>1, SettingsAssumption
    <2>5. phase' = "running" /\ epoch' = "saved"
      BY <1>5, <2>3, <2>4, SettingsAssumption, <2>1 DEF Verify
    <2> QED
      BY <2>5
  <1>6. CASE WatchdogReset \/ PowerLoss
    <2>1. phase \notin {"save", "verify"} /\ epoch' = epoch /\ phase' = "boot"
      BY <1>6 DEF WatchdogReset, PowerLoss, Reboot
    <2> QED
      BY <2>1
  <1>7. CASE UNCHANGED vars
    BY <1>7 DEF vars
  <1> QED
    BY <1>1, <1>2, <1>3, <1>4, <1>5, <1>6, <1>7 DEF Next, Firmware

(* If the supply holds while a form is saved, no write is lost and the forms *)
(* fit, then no boot loads anything but a form saved in full, whenever else  *)
(* the supply fails: the flag, which is written before the form, is the only *)
(* thing that needs the supply.                                              *)
THEOREM LoadsOnlySavedIfUncut ==
  ASSUME AllFormsFit, ~LostWrites, PowerFails \cap {"save", "verify"} = {}, MaxTrys > 0
  PROVE  Spec => []LoadsOnlySaved
  <1> DEFINE I == TypeInv /\ SaveInv /\ EraseInv /\ WholeInv
  <1>1. Init => I
    <2>1. Init => EraseInv /\ WholeInv
      BY SettingsAssumption DEF Init, EraseInv, WholeInv, Cells, NUL, BLANK
    <2> QED
      BY <2>1, TypeInit, SaveInit
  <1>2. I /\ [Next]_vars => I'
    BY TypeStep, SavePreserved, ErasePreserved, WholePreserved
  <1>3. I => LoadsOnlySaved
    BY DEF TypeInv, TypeOK, EraseInv, WholeInv, LoadsOnlySaved
  <1> QED
    BY <1>1, <1>2, <1>3, PTL DEF Spec
=============================================================================
