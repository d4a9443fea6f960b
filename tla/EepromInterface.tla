-------------------------- MODULE EepromInterface --------------------------
(* The calls the firmware makes on its I2C EEPROM (eeprom/eeprom.h) and the *)
(* way an address selects a cell.  Shared by the driver (Eeprom) and by the *)
(* store it promises (ByteStore).                                           *)
EXTENDS Integers, Sequences

CONSTANTS
    AddressRange,   \* addresses a (uint8_t) can name: 256 on the board
    MemSize,        \* cells of the chip: 128 on the board
    Byte,           \* the bytes told apart
    Calls           \* the calls the rest of the firmware makes

NUL   == 0          \* end of string, and "false"
BLANK == 255        \* what an erased cell reads as; also "no answer yet"

ASSUME GeometryAssumption ==
    /\ MemSize \in Nat \ {0}
    /\ AddressRange \in Nat \ {0}
    /\ Byte \subseteq 0 .. 255
    /\ {NUL, BLANK} \subseteq Byte

Cells == 0 .. MemSize - 1

\* The driver sends the address as one byte; the chip ignores the bits above
\* its size.
Cell(address) == (address % AddressRange) % MemSize

ReadOps == {"read", "readBoolean", "readString"}

\* One API call.  write, writeBoolean and writeString are all "write": the
\* bytes of data go to consecutive addresses (a string ends with its NUL).
CallType == [op : {"write"} \cup ReadOps, addr : Nat, data : Seq(Byte)]

NoCall == [op |-> "none", addr |-> 0, data |-> << >>]

\* The cell of the i-th byte of a call.
At(c, i) == Cell(c.addr + (i - 1))

\* No caller writes a string longer than the chip, so the bytes of one call
\* fall in distinct cells; and every write has at least one byte.
ASSUME CallsAssumption ==
    /\ Calls \subseteq CallType
    /\ \A c \in Calls : c.op = "write" =>
          /\ Len(c.data) > 0
          /\ \A i, j \in 1 .. Len(c.data) : i # j => At(c, i) # At(c, j)

\* s is the NUL-terminated string (NUL included) found from the address of c.
StringFrom(store, c, s) ==
    /\ Len(s) > 0
    /\ s[Len(s)] = NUL
    /\ \A i \in 1 .. Len(s) - 1 : s[i] \notin {NUL, BLANK}
    /\ \A i \in 1 .. Len(s) : s[i] = store[At(c, i)]
=============================================================================
