----------------------------- MODULE MCKeyboard -----------------------------
(* Keyboard for TLC: one printable key, and one of each kind of special key *)
(* the shell's loop tells apart; a ring of three indices, which two codes   *)
(* fill, and a line of two characters.                                      *)
EXTENDS Keyboard
CONSTANTS A
Letters == {A}
EditingKeys == {A, "EnterDown", "BackspaceDown", "LeftShiftDown",
                "NextIsExtended", "F1Down"}
=============================================================================
