------------------------------ MODULE MCEeprom ------------------------------
(* A small chip for TLC: three cells behind a six-address window, so that    *)
(* addresses 3..5 alias cells 0..2 and a string from cell 2 wraps.           *)
EXTENDS Eeprom

MCByte == {NUL, 1, 2, BLANK}

Write(a, s) == [op |-> "write", addr |-> a, data |-> s]
Read(o, a)  == [op |-> o, addr |-> a, data |-> << >>]

MCCalls ==
    { Write(1, << 1 >>),            \* writeBoolean
      Write(0, << BLANK >>),        \* a byte that cannot be verified
      Write(2, << 1, 2, NUL >>),    \* writeString, wrapping
      Write(3, << 2, NUL >>),       \* writeString in the aliased half
      Read("read", 0), Read("readBoolean", 4),
      Read("readString", 1), Read("readString", 2) }
=============================================================================
