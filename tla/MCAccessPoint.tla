--------------------------- MODULE MCAccessPoint ---------------------------
(* Two phones and seven buffers: one phone needs three answers and a buffer *)
(* for its form, so that the pool can also run dry on either's repetitions. *)
EXTENDS AccessPoint

CONSTANTS a, b

MCClient == {a, b}

Message(len, labels) == [len |-> len, qr |-> 0, opcode |-> 0, questions |-> 1, labels |-> labels]

\* "google.com", a name of the greatest length, one byte more, labels that
\* run out of the message or of its buffer, and what is not a question.
MCQuery == {
    Message(28, << 6, 3, 0 >>),
    Message(271, << 63, 63, 63, 61, 0 >>),
    Message(272, << 63, 63, 63, 62, 0 >>),
    Message(20, << 6, 63 >>),
    Message(300, << 63, 63, 63, 63, 63, 63 >>),
    Message(40, << 6, 192 >>),
    Message(11, << >>),
    [Message(28, << 6, 3, 0 >>) EXCEPT !.qr = 1] }
=============================================================================
