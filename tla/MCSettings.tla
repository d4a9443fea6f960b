----------------------------- MODULE MCSettings -----------------------------
(* A chip of ten cells in which two forms of different lengths fit.          *)
EXTENDS Settings, TLC

MCBase == (0 :> 0) @@ (1 :> 1) @@ (2 :> 4) @@ (3 :> 6) @@ (4 :> 8)
A == 97
B == 98
MCChar == {A, B} \cup 48 .. 57

Form(ssid, password, hostname, port) ==
    [text |-> << ssid, password, hostname >>, port |-> port]

FormA == Form(<< A >>, << A >>, << A >>, 1)
FormB == Form(<< B, B >>, << >>, << B >>, 2)
MCForms == {FormA, FormB}

=============================================================================
