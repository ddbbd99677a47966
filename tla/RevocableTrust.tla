--------------------------- MODULE RevocableTrust ---------------------------
(***************************************************************************)
(* What one dimension of trust promises, whatever tables and processes     *)
(* implement it: a class becomes trusted by Threshold correct outcomes in  *)
(* a row, one wrong outcome takes trust and progress away, a global reset  *)
(* takes trust away from any number of classes at once, and an operator    *)
(* may overwrite a class by hand.  Nothing else changes trust.             *)
(***************************************************************************)
EXTENDS Naturals

CONSTANTS Class, Threshold

VARIABLES
    trusted,    \* [Class -> BOOLEAN]
    streak,     \* [Class -> Nat], correct outcomes in a row
    overrides   \* how many times an operator has stepped in

vars == <<trusted, streak, overrides>>

Init ==
    /\ trusted = [c \in Class |-> FALSE]
    /\ streak = [c \in Class |-> 0]
    /\ overrides = 0

Correct(c) ==
    /\ streak' = [streak EXCEPT ![c] = @ + 1]
    /\ trusted' = [trusted EXCEPT ![c] = @ \/ streak[c] + 1 >= Threshold]
    /\ UNCHANGED overrides

Wrong(c) ==
    /\ streak' = [streak EXCEPT ![c] = 0]
    /\ trusted' = [trusted EXCEPT ![c] = FALSE]
    /\ UNCHANGED overrides

\* Every class either keeps what it has or is back at nothing.
Reset ==
    /\ trusted' \in [Class -> BOOLEAN]
    /\ streak' \in [Class -> Nat]
    /\ \A c \in Class :
          \/ trusted'[c] = trusted[c] /\ streak'[c] = streak[c]
          \/ trusted'[c] = FALSE /\ streak'[c] = 0
    /\ UNCHANGED overrides

\* The only step that may set a class to anything, and it is counted.  An
\* override may also set the row to what it was (or touch another dimension).
Override(c) ==
    /\ trusted'[c] \in BOOLEAN
    /\ streak'[c] \in Nat
    /\ trusted' = [trusted EXCEPT ![c] = trusted'[c]]
    /\ streak' = [streak EXCEPT ![c] = streak'[c]]
    /\ overrides' = overrides + 1

Next ==
    \/ \E c \in Class : Correct(c) \/ Wrong(c) \/ Override(c)
    \/ Reset

Spec == Init /\ [][Next]_vars
=============================================================================
