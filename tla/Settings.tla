------------------------------ MODULE Settings ------------------------------
(* The life of the Wi-Fi settings in main.cpp: boot (setupEEpromSettings),   *)
(* erase, configuration over the web form and the save loop (end of          *)
(* initConfigServer), one EEPROM byte write per step.  The byte operations   *)
(* are those of ByteStore, which module Eeprom implements; reads write       *)
(* nothing, so the reads of one phase are a single step, which blocks on a   *)
(* string the driver never stops reading.                                    *)
EXTENDS Integers, Sequences

CONSTANTS
    MemSize,        \* cells erased, addresses wrap here: 128 on the board
    Base,           \* first address of each field: flag, ssid, password, hostname, port
    Char,           \* the bytes strings are made of, the digits among them
    Forms,          \* what the web form can deliver
    MaxTrys,        \* attempts of the save loop before the reset: 10
    PowerFails,     \* phases during which the supply may fail
    LostWrites,     \* a verified write may leave its cell unchanged (Eeprom, address faults)
    FactoryBlank    \* the chip has never been written

NUL   == 0
BLANK == 255
Byte  == Char \cup {0, 1, BLANK}

Cells  == 0 .. MemSize - 1
Fields == 0 .. 4                       \* 0 is the "configured" flag
Strings == 1 .. 4

Phases == {"boot", "erase", "check", "config", "save", "verify", "load",
           "running", "reset"}

ASSUME SettingsAssumption ==
    /\ MemSize \in Nat \ {0}
    /\ Base \in [Fields -> Nat]
    /\ Base[0] = 0
    /\ Char \subseteq 2 .. 254 /\ 48 .. 57 \subseteq Char
    /\ MaxTrys \in Nat
    /\ PowerFails \subseteq Phases
    /\ LostWrites \in BOOLEAN /\ FactoryBlank \in BOOLEAN

\* Mutant of Place: no room for the NUL of the password.
PlaceTight(f, i) == (Base[f] + (i - 1) - (IF f = 3 THEN 1 ELSE 0)) % MemSize

\* The address wraps: (uint8_t) in the driver, then the size of the chip.
Place(f, i) == (Base[f] + (i - 1)) % MemSize

-----------------------------------------------------------------------------
\* to_string and atoi on the port; '0' is byte 48.
Decimal[n \in Nat] ==
    IF n < 10 THEN << 48 + n >> ELSE Append(Decimal[n \div 10], 48 + (n % 10))

Atoi(s) ==
    LET digits == CHOOSE k \in 0 .. Len(s) :
                    /\ \A i \in 1 .. k : s[i] \in 48 .. 57
                    /\ k < Len(s) => s[k + 1] \notin 48 .. 57
        value[i \in 0 .. digits] ==
            IF i = 0 THEN 0 ELSE 10 * value[i - 1] + (s[i] - 48)
    IN  value[digits]

\* Credentials: ssid, password and hostname in text[1 .. 3], and the port.
NoCreds == [text |-> [f \in 1 .. 3 |-> << >>], port |-> 0]

\* The bytes the save loop writes for a field: writeBoolean(0, true), then
\* strings with their NUL.
Data(c, f) ==
    CASE f = 0 -> << 1 >>
      [] f \in 1 .. 3 -> Append(c.text[f], NUL)
      [] f = 4 -> Append(Decimal[c.port], NUL)

\* C strings, which hold no NUL, and a number.
ASSUME FormsAssumption ==
    \A c \in Forms : c.text \in [1 .. 3 -> Seq(Char)] /\ c.port \in Nat

\* No two bytes of the form share a cell.
Fits(c) ==
    \A f, g \in Fields :
        \A i \in 1 .. Len(Data(c, f)), j \in 1 .. Len(Data(c, g)) :
            Place(f, i) = Place(g, j) => f = g /\ i = j
-----------------------------------------------------------------------------
VARIABLES
    memory,   \* the cells of the chip
    phase,
    pos,      \* erase: bytes written so far, over three passes
    field,    \* save: the field
    idx,      \*       and the byte of it to be written next
    trys,     \* failed attempts of the save loop
    creds,    \* simpleWifiCredentials
    epoch,    \* history: last thing begun or completed on the chip
    record    \* history: the form of the last save begun

vars == << memory, phase, pos, field, idx, trys, creds, epoch, record >>
ram  == << pos, field, idx, trys, creds >>

Init ==
    /\ memory = [m \in Cells |-> IF FactoryBlank THEN BLANK ELSE NUL]
    /\ phase = "boot"
    /\ pos = 0 /\ field = 0 /\ idx = 1 /\ trys = 0
    /\ creds = NoCreds
    /\ epoch = "erased"
    /\ record = NoCreds

\* What a write leaves behind that was lost.
Unwritten == IF LostWrites THEN {memory} ELSE {}

Written(f, i, b) == [memory EXCEPT ![Place(f, i)] = b]

\* A string can be read: a NUL comes before any blank cell.
Readable(f) ==
    \E n \in 1 .. MemSize :
        /\ memory[Place(f, n)] = NUL
        /\ \A i \in 1 .. n - 1 : memory[Place(f, i)] \notin {NUL, BLANK}

\* Mutant of StoredString: the NUL is left out of the string.
StoredStringTrimmed(f) ==
    LET n == CHOOSE k \in 1 .. MemSize :
                /\ memory[Place(f, k)] = NUL
                /\ \A i \in 1 .. k - 1 : memory[Place(f, i)] # NUL
    IN  [i \in 1 .. n - 1 |-> memory[Place(f, i)]]

\* readString: the NUL is part of the std::string.
StoredString(f) ==
    LET n == CHOOSE k \in 1 .. MemSize :
                /\ memory[Place(f, k)] = NUL
                /\ \A i \in 1 .. k - 1 : memory[Place(f, i)] # NUL
    IN  [i \in 1 .. n |-> memory[Place(f, i)]]

StoredCreds == [text |-> [f \in 1 .. 3 |-> StoredString(f)],
                port |-> Atoi(StoredString(4))]

-----------------------------------------------------------------------------
\* Boot with the button held for 10 ms, or not.
HoldButton ==
    /\ phase = "boot"
    /\ phase' = "erase"
    /\ pos' = 0
    /\ UNCHANGED << memory, field, idx, trys, creds, epoch, record >>

NoButton ==
    /\ phase = "boot"
    /\ phase' = "check"
    /\ UNCHANGED << memory, ram, epoch, record >>

EraseStep(cell, byte) ==
    /\ phase = "erase"
    /\ memory' \in {[memory EXCEPT ![cell] = byte]} \cup Unwritten
    /\ pos' = pos + 1
    /\ phase' = IF pos + 1 = 3 * MemSize THEN "check" ELSE "erase"
    /\ epoch' = "erased"
    /\ UNCHANGED << field, idx, trys, creds, record >>

\* Mutants of EraseByte: from the top down; with the 0xFF of an erased chip.
EraseByteDescending == EraseStep(MemSize - 1 - (pos % MemSize), NUL)
EraseByteBlank == EraseStep(pos % MemSize, BLANK)

\* Three passes over the chip, from cell 0 up.
EraseByte == EraseStep(pos % MemSize, NUL)

\* Mutant of CheckFlag: readBoolean(0) waits for 1.
CheckFlagSet ==
    /\ phase = "check"
    /\ memory[0] = 1
    /\ phase' = "load"
    /\ UNCHANGED << memory, ram, epoch, record >>

\* readBoolean(0) returns on 0 and 1 only.
CheckFlag ==
    /\ phase = "check"
    /\ \/ memory[0] = 0 /\ phase' = "config"
       \/ memory[0] = 1 /\ phase' = "load"
    /\ UNCHANGED << memory, ram, epoch, record >>

Load ==
    /\ phase = "load"
    /\ \A f \in Strings : Readable(f)
    /\ creds' = StoredCreds
    /\ phase' = "running"
    /\ UNCHANGED << memory, pos, field, idx, trys, epoch, record >>

\* The configuration server is done and its globals are copied.
Submit(c) ==
    /\ phase = "config"
    /\ creds' = c
    /\ trys' = 0 /\ field' = 0 /\ idx' = 1
    /\ phase' = "save"
    /\ UNCHANGED << memory, pos, epoch, record >>

\* The write loop goes on to the next byte, field or phase.
Advance(lastField) ==
    IF idx < Len(Data(creds, field))
    THEN idx' = idx + 1 /\ UNCHANGED << field, phase >>
    ELSE /\ idx' = 1
         /\ IF field < lastField THEN field' = field + 1 /\ UNCHANGED phase
                                 ELSE field' = 0 /\ phase' = "verify"

SaveStep(lastField) ==
    /\ phase = "save"
    /\ Advance(lastField)
    /\ epoch' = "saving"
    /\ record' = creds
    /\ UNCHANGED << pos, trys, creds >>

\* Mutants of SaveByte: strings without their NUL; one field too many.
SaveByteUnterminated ==
    /\ SaveStep(4)
    /\ LET b == Data(creds, field)[idx]
       IN  memory' = IF field > 0 /\ b = NUL THEN memory ELSE Written(field, idx, b)

SaveByteOverrun ==
    /\ SaveStep(5)
    /\ memory' = Written(field, idx, Data(creds, field)[idx])

SaveByte ==
    /\ SaveStep(4)
    /\ memory' \in {Written(field, idx, Data(creds, field)[idx])} \cup Unwritten

\* One equal field is enough.  The strings read back carry their NUL and so
\* never equal the std::strings written; the port is compared as a number.
Matches ==
    \/ \E f \in 1 .. 3 : StoredString(f) = creds.text[f]
    \/ Atoi(StoredString(4)) = creds.port

\* Mutant of Verify: the attempts are not counted.
VerifyUncounted ==
    /\ phase = "verify"
    /\ \A f \in Strings : Readable(f)
    /\ IF Matches THEN phase' = "running" /\ epoch' = "saved"
                  ELSE phase' = "save" /\ UNCHANGED epoch
    /\ UNCHANGED << memory, pos, field, idx, trys, creds, record >>

\* After the readback: give up first, compare second.
Verify ==
    /\ phase = "verify"
    /\ \A f \in Strings : Readable(f)
    /\ \/ /\ trys >= MaxTrys
          /\ phase' = "reset"
          /\ UNCHANGED << trys, epoch >>
       \/ /\ trys < MaxTrys /\ Matches
          /\ phase' = "running"
          /\ epoch' = "saved"
          /\ UNCHANGED trys
       \/ /\ trys < MaxTrys /\ ~Matches
          /\ trys' = trys + 1
          /\ phase' = "save"
          /\ UNCHANGED epoch
    /\ UNCHANGED << memory, pos, field, idx, creds, record >>

Reboot ==
    /\ phase' = "boot"
    /\ pos' = 0 /\ field' = 0 /\ idx' = 1 /\ trys' = 0
    /\ creds' = NoCreds
    /\ UNCHANGED << memory, epoch, record >>

\* watchdog_enable(1, false), then spin.
WatchdogReset == phase = "reset" /\ Reboot

PowerLoss == phase \in PowerFails /\ Reboot

Firmware ==
    \/ NoButton \/ EraseByte \/ CheckFlag \/ Load
    \/ SaveByte \/ Verify \/ WatchdogReset

Next ==
    \/ Firmware
    \/ HoldButton
    \/ \E c \in Forms : Submit(c)
    \/ PowerLoss

\* The firmware runs; buttons, forms and the supply owe it nothing.
Spec == Init /\ [][Next]_vars
FairSpec == Spec /\ WF_vars(Firmware)
-----------------------------------------------------------------------------
(* Types: the save loop stands at a byte of one of the five fields, and makes *)
(* no more than MaxTrys attempts.                                            *)
TypeOK ==
    /\ memory \in [Cells -> Byte]
    /\ phase \in Phases
    /\ pos \in Nat
    /\ field \in Fields
    /\ idx \in Nat \ {0}
    /\ trys \in 0 .. MaxTrys
    /\ epoch \in {"erased", "saving", "saved"}
    /\ record \in Forms \cup {NoCreds}

\* Every byte of form c is in its cell.
Stored(c) ==
    \A f \in Fields : \A i \in 1 .. Len(Data(c, f)) :
        memory[Place(f, i)] = Data(c, f)[i]

(* Once the save loop has reported success, every byte of the form stays in  *)
(* the chip, through resets and power losses at any point, until the next    *)
(* save or erase begins: although the loop's comparison checks the port only.*)
SavedIsStored == epoch = "saved" => Stored(record)

(* The settings the firmware runs on are the last form saved in full: no     *)
(* boot loads what an interrupted save or erase left behind.                 *)
LoadsOnlySaved ==
    phase \in {"load", "running"} => epoch = "saved"

(* An erase is final from its first byte on: a boot after it, complete or    *)
(* interrupted, asks for a configuration and never loads the remains.        *)
ErasedIsNotLoaded ==
    epoch = "erased" => phase \notin {"load", "running"}

\* What a boot makes of form c.
LoadedFrom(c) == [text |-> [f \in 1 .. 3 |-> Data(c, f)], port |-> c.port]

(* The flag, the strings and the loops around them are a store of settings:  *)
(* a boot that finds a completed save runs on exactly its form (neighbouring *)
(* fields do not run into one another), one after an erase on none.          *)
Abstract == INSTANCE SettingsStore
    WITH content <- epoch, form <- record,
         running <- IF phase = "running" THEN << creds >> ELSE << >>,
         Loaded <- [c \in Forms |-> LoadedFrom(c)]
ImplementsSettingsStore == Abstract!Spec

(* No read of boot or of the save loop spins for ever on what the chip holds,*)
(* wherever the saves and erases before it were interrupted.                 *)
NoReadBlocks ==
    /\ phase = "check" => memory[0] \in {0, 1}
    /\ phase \in {"load", "verify"} => \A f \in Strings : Readable(f)

(* Even if writes are lost, the loop does not report success on a wrong port.*)
PortVerified ==
    epoch = "saved" /\ phase = "running" /\ creds = record =>
        Atoi(StoredString(4)) = record.port

\* From some time on the supply holds.
SteadySupply == <>[][~PowerLoss]_vars

(* A boot ends, once the supply holds: the firmware runs, or it waits for a  *)
(* configuration.  No erase, load or save before it leaves the chip in a     *)
(* state that keeps boot in a read for ever.                                 *)
BootDecides ==
    SteadySupply => (phase = "boot" ~> phase \in {"config", "running"})

(* The save loop ends: with success, or with the reset after MaxTrys failed  *)
(* attempts, even if every write is lost.                                    *)
SaveEnds == phase = "save" ~> phase \in {"running", "boot"}
=============================================================================
