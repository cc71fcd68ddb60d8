------------------------------ MODULE Keyboard ------------------------------
(***************************************************************************)
(* The keyboard driver (drivers/keyboard/keyboard.c): what parse_keycode   *)
(* makes of one scan code.                                                 *)
(*                                                                         *)
(* A scan code is a key and whether it is a make or a break code           *)
(* (FLAG_BREAK).  The key map is abstracted to its shape: the two shift    *)
(* keys, the printing keys with one glyph per column, and keys whose row   *)
(* is 0.                                                                   *)
(***************************************************************************)
EXTENDS Naturals, Sequences

CONSTANTS
  Printing,  \* the keys whose row of keycode_map_normal holds two characters
  Mute       \* the keys whose row is 0, 0 (escape, function keys, 0xE0)

Shifts == {"shift_l", "shift_r"}       \* 0x2A and 0x36
Keys == Shifts \cup Printing \cup Mute
Codes == [key : Keys, make : BOOLEAN]

Glyphs == Printing \X {0, 1}
NoGlyph == <<"none", 0>>

\* parse_keycode takes the shift keys out before it looks at the row, and no
\* character of the map is 0
ASSUME KeysAssumption == Printing \cap Shifts = {} /\ "none" \notin Printing

\* keyrow[column]
keycode_map_normal(key, column) ==
  IF key \in Printing THEN <<key, column>> ELSE NoGlyph

\* Faulty variant of Column: only the left shift key counts.
Column_Left(kbd) == IF kbd.shift_l THEN 1 ELSE 0

Column(kbd) == IF kbd.shift_l \/ kbd.shirt_r THEN 1 ELSE 0

\* the variable key after the switch
Decoded(kbd, code) ==
  IF code.key \in Shifts \/ ~code.make THEN NoGlyph
  ELSE keycode_map_normal(code.key, Column(kbd))

\* Faulty variant of NextShift: a shift key toggles its flag.
NextShift_Toggle(kbd, code) ==
  [shift_l |-> kbd.shift_l # (code.key = "shift_l"),
   shirt_r |-> kbd.shirt_r # (code.key = "shift_r")]

\* shift_l = make, shirt_r = make
NextShift(kbd, code) ==
  [shift_l |-> IF code.key = "shift_l" THEN code.make ELSE kbd.shift_l,
   shirt_r |-> IF code.key = "shift_r" THEN code.make ELSE kbd.shirt_r]

\* Faulty variant of Printed: the test of key is missing.
Printed_Always(kbd, code) == <<Decoded(kbd, code)>>

\* if (key) kprintf("%c", key)
Printed(kbd, code) ==
  IF Decoded(kbd, code) = NoGlyph THEN <<>> ELSE <<Decoded(kbd, code)>>

ReleasedShifts == [shift_l |-> FALSE, shirt_r |-> FALSE]
=============================================================================
