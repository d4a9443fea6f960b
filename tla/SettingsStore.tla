--------------------------- MODULE SettingsStore ---------------------------
(* What main.cpp makes of the EEPROM for the rest of the firmware: a form   *)
(* of settings that survives the board.  The firmware runs on the form that *)
(* was saved in full last; after an erase it does not run before another    *)
(* has been saved.  What a save leaves behind that does not come to its end *)
(* is left open.                                                            *)
CONSTANTS
    Forms,      \* what a user can enter
    Loaded      \* what a boot makes of each of them

VARIABLES
    content,    \* "erased", "saving" or "saved"
    form,       \* the last form that a save has begun with
    running     \* the settings the firmware runs on, in a sequence; << >> before

vars == << content, form, running >>

Init ==
    /\ content = "erased"
    /\ running = << >>

Waits == running = << >>

\* By the button, while nothing runs.
Erase == Waits /\ content' = "erased" /\ UNCHANGED << form, running >>

\* A form came in and begins to replace what was there.
Begin(c) == Waits /\ content' = "saving" /\ form' = c /\ UNCHANGED running

\* It is stored as a whole, and used.
Complete ==
    /\ Waits /\ content = "saving"
    /\ content' = "saved" /\ running' = << form >>
    /\ UNCHANGED form

\* A boot finds settings: the saved ones, unless a save was cut.
Load ==
    /\ Waits /\ running' # << >>
    /\ \/ content = "saved" /\ running' = << Loaded[form] >>
       \/ content = "saving"
    /\ UNCHANGED << content, form >>

\* The supply fails, or the watchdog resets the board.
Stop == running' = << >> /\ UNCHANGED << content, form >>

Next ==
    \/ Erase
    \/ \E c \in Forms : Begin(c)
    \/ Complete \/ Load \/ Stop

Spec == Init /\ [][Next]_vars
=============================================================================
