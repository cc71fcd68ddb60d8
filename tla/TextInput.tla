----------------------------- MODULE TextInput -----------------------------
(***************************************************************************)
(* What the keyboard path promises its user: every character that was      *)
(* meant is shown, once, in the order it was typed, and in the end all of  *)
(* them are, unless the keyboard goes deaf before it has shown anything.   *)
(* Interrupts implements this specification.                               *)
(***************************************************************************)
EXTENDS Naturals, Sequences

CONSTANT Chars           \* the characters that can be typed

VARIABLES
  wanted, shown,  \* what the user meant, what the screen got
  deaf            \* nothing will ever be shown

vars == <<wanted, shown, deaf>>

Init == wanted = <<>> /\ shown = <<>> /\ deaf = FALSE

Type == /\ \E c \in Chars : wanted' = Append(wanted, c)
        /\ UNCHANGED <<shown, deaf>>

Show == /\ ~deaf /\ Len(shown) < Len(wanted)
        /\ shown' = Append(shown, wanted[Len(shown) + 1])
        /\ UNCHANGED <<wanted, deaf>>

GoDeaf == /\ shown = <<>>
          /\ deaf' = TRUE
          /\ UNCHANGED <<wanted, shown>>

Next == Type \/ Show \/ GoDeaf

Safety == Init /\ [][Next]_vars

Spec == Safety /\ WF_vars(Show)
=============================================================================
