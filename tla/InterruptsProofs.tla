-------------------------- MODULE InterruptsProofs --------------------------
(***************************************************************************)
(* Proofs about Interrupts, for every set of keys, every set of slave      *)
(* lines and every bound on typing and requests: the safety properties the *)
(* run checks, and that the keyboard path implements the safety part of    *)
(* TextInput.                                                              *)
(***************************************************************************)
EXTENDS Interrupts, FiniteSetTheorems, TLAPS

Handling == pc = "dispatch" /\ IsKeyboard(nr)

\* What boot leaves alone: nothing is shown and nobody is deaf before
\* init_interrupt ran.
BeforeBoot == pc = "boot" => shown = <<>> /\ ~deaf

\* The processor's flag and the master's service register follow do_IRQ.
InService ==
  /\ intr <=> pc = "idle"
  /\ pc \in {"dispatch", "eoi"} => \E m \in 0 .. 2 : isrM = {m}
  /\ pc \notin {"dispatch", "eoi"} => isrM = {}

\* The request of a byte is latched or being served, never both, and a deaf
\* keyboard is never served.
ByteRequested ==
  pc # "boot" =>
    /\ deaf => obuf.full /\ KeyboardLine \notin irr /\ ~Handling
    /\ ~deaf => (obuf.full <=> (KeyboardLine \in irr \/ Handling))
    /\ ~(KeyboardLine \in irr /\ Handling)

-----------------------------------------------------------------------------
(* The scan codes on their way to the driver, the byte in the 8042 first,  *)
(* and what decoding them one after the other makes of the driver's flags  *)
(* and of the number of characters shown.                                  *)

NPending == Len(queue) + (IF obuf.full THEN 1 ELSE 0)
Code(k) == IF ~obuf.full THEN queue[k]
           ELSE IF k = 1 THEN obuf.code ELSE queue[k - 1]

Flags == [shift_l : BOOLEAN, shirt_r : BOOLEAN]
FlagsOf(keys) ==
  [shift_l |-> "shift_l" \in keys, shirt_r |-> "shift_r" \in keys]

Prints(flags, code) == Decoded(flags, code) # NoGlyph

\* reading code takes the flags from s to t and the characters shown from a
\* to b, and what it prints is the next character of text
Reads(s, t, a, b, code, text) ==
  /\ t = NextShift(s, code)
  /\ ~Prints(s, code) => b = a
  /\ Prints(s, code) => b = a + 1 /\ a < Len(text) /\ text[b] = Decoded(s, code)

\* st[k] are the flags and at[k] the characters shown when code k is read
Decodes(st, at) ==
  /\ st \in [1 .. NPending + 1 -> Flags] /\ at \in [1 .. NPending + 1 -> Nat]
  /\ st[1] = kbd /\ at[1] = Len(shown)
  /\ st[NPending + 1] = FlagsOf(held) /\ at[NPending + 1] = Len(wanted)
  /\ \A k \in 1 .. NPending :
       Reads(st[k], st[k + 1], at[k], at[k + 1], Code(k), wanted)

\* What the codes on their way decode to is what is still to be shown, and
\* the flags then are the keys that are down.
Underway == \E st, at : Decodes(st, at)

Control == BeforeBoot /\ InService /\ ByteRequested

IInv == TypeOK /\ Control /\ Underway

-----------------------------------------------------------------------------
(* The controllers.                                                        *)

\* A nonempty set of lines has a smallest one.
LEMMA MinLine ==
  ASSUME NEW S \in SUBSET (0 .. 15), S # {}
  PROVE  Min(S) \in S
<1>1. \E x \in S : \A y \in S : x <= y
  <2> SUFFICES ASSUME \A x \in S : \E y \in S : y < x
               PROVE  FALSE
    OBVIOUS
  <2>1. S \cap (0 .. 3) = {}
    <3>1. 0 \notin S OBVIOUS
    <3>2. 1 \notin S BY <3>1
    <3>3. 2 \notin S BY <3>1, <3>2
    <3>4. 3 \notin S BY <3>1, <3>2, <3>3
    <3>5. QED BY <3>1, <3>2, <3>3, <3>4
  <2>2. S \cap (0 .. 7) = {}
    <3>1. 4 \notin S BY <2>1
    <3>2. 5 \notin S BY <2>1, <3>1
    <3>3. 6 \notin S BY <2>1, <3>1, <3>2
    <3>4. 7 \notin S BY <2>1, <3>1, <3>2, <3>3
    <3>5. QED BY <2>1, <3>1, <3>2, <3>3, <3>4
  <2>3. S \cap (0 .. 11) = {}
    <3>1. 8 \notin S BY <2>2
    <3>2. 9 \notin S BY <2>2, <3>1
    <3>3. 10 \notin S BY <2>2, <3>1, <3>2
    <3>4. 11 \notin S BY <2>2, <3>1, <3>2, <3>3
    <3>5. QED BY <2>2, <3>1, <3>2, <3>3, <3>4
  <2>4. S = {}
    <3>1. 12 \notin S BY <2>3
    <3>2. 13 \notin S BY <2>3, <3>1
    <3>3. 14 \notin S BY <2>3, <3>1, <3>2
    <3>4. 15 \notin S BY <2>3, <3>1, <3>2, <3>3
    <3>5. QED BY <2>3, <3>1, <3>2, <3>3, <3>4
  <2>5. QED
    BY <2>4
<1>2. QED
  BY <1>1 DEF Min

\* The line that the controllers hand to the processor: one that is latched,
\* through the cascade exactly when it is one of the slave's.
LEMMA Accepted ==
  ASSUME TypeOK, Accept
  PROVE  \E m \in 0 .. 2 : \E l \in irr :
           /\ m = CascadeLine => l \in SlaveLines
           /\ m # CascadeLine => l = m /\ l \in MasterLines
           /\ irr' = irr \ {l} /\ isrM' = isrM \cup {m}
           /\ isrS' = IF m = CascadeLine THEN isrS \cup {l} ELSE isrS
           /\ nr' = l
<1> DEFINE m == Min(MasterRequests)
           l == IF m = CascadeLine THEN Min(irr \cap SlaveLines) ELSE m
<1>1. MasterRequests \in SUBSET (0 .. 2)
      /\ MasterRequests # {}
  BY DEF Accept, MasterRequests, MasterLines, TimerLine, KeyboardLine, CascadeLine
<1>2. m \in MasterRequests
  <2>1. MasterRequests \in SUBSET (0 .. 15)
    BY <1>1
  <2>2. QED
    BY <1>1, <2>1, MinLine
<1>3. CASE m = CascadeLine
  <2>1. SlaveAsks
    BY <1>2, <1>3 DEF MasterRequests, MasterLines, TimerLine, KeyboardLine,
                      CascadeLine
  <2>2. irr \cap SlaveLines \in SUBSET (0 .. 15) /\ irr \cap SlaveLines # {}
    <3>1. irr \cap SlaveLines # {}
      BY <2>1, Zenon DEF SlaveAsks
    <3>2. \A x \in irr \cap SlaveLines : x \in 8 .. 15
      BY LinesAssumption
    <3>3. \A x \in irr \cap SlaveLines : x \in 0 .. 15
      BY <3>2
    <3>4. QED
      BY <3>1, <3>3
  <2>3. l \in irr /\ l \in SlaveLines
    BY <2>2, <1>3, MinLine
  <2>4. QED
    BY <1>1, <1>2, <1>3, <2>3 DEF Accept
<1>4. CASE m # CascadeLine
  <2>1. l = m /\ l \in irr /\ l \in MasterLines
    BY <1>2, <1>4 DEF MasterRequests
  <2>2. QED
    BY <1>1, <1>2, <1>4, <2>1 DEF Accept
<1>5. QED
  BY <1>3, <1>4

-----------------------------------------------------------------------------
(* Types.                                                                  *)

\* parse_keycode prints at most one character, and one of the map.
LEMMA PrintedType ==
  ASSUME NEW flags \in Flags, NEW code \in Codes
  PROVE  /\ NextShift(flags, code) \in Flags
         /\ Prints(flags, code) => /\ Decoded(flags, code) \in Glyphs
                                   /\ Printed(flags, code) = <<Decoded(flags, code)>>
         /\ ~Prints(flags, code) => Printed(flags, code) = <<>>
<1>1. NextShift(flags, code) \in Flags
  BY Zenon DEF NextShift, Flags, Codes
<1>2. ASSUME Prints(flags, code) PROVE Decoded(flags, code) \in Glyphs
  BY <1>2 DEF Prints, Decoded, keycode_map_normal, Column, Glyphs
<1>3. QED
  BY <1>1, <1>2 DEF Prints, Printed

\* The code that boots with the machine has its types.
LEMMA InitType == ASSUME Init PROVE TypeOK
<1>1. obuf \in [full : BOOLEAN, code : Codes]
  BY DEF Init, Codes, Keys, Shifts
<1>2. kbd \in [shift_l : BOOLEAN, shirt_r : BOOLEAN]
  BY DEF Init, ReleasedShifts
<1>3. raised \in [Lines \ {KeyboardLine} -> Nat] /\ nr \in Lines
  BY DEF Init, Lines, MasterLines, TimerLine
<1>4. queue \in Seq(Codes) /\ shown \in Seq(Glyphs) /\ wanted \in Seq(Glyphs)
  BY DEF Init
<1>5. intr \in BOOLEAN /\ deaf \in BOOLEAN /\ typed \in Nat
  BY DEF Init
<1>6. QED
  BY <1>1, <1>2, <1>3, <1>4, <1>5 DEF Init, TypeOK

\* Every step keeps the types.
LEMMA TypeStep == ASSUME TypeOK, [Next]_vars PROVE TypeOK'
<1>1. CASE init_interrupt
  BY <1>1, Zenon DEF TypeOK, init_interrupt
<1>2. ASSUME NEW code \in Codes, Send(code) PROVE TypeOK'
  <2>1. code.key \in Keys
    BY DEF Codes
  <2>2. wanted' \in Seq(Glyphs)
    BY <1>2 DEF TypeOK, Send, Glyphs
  <2>3. queue' \in Seq(Codes) /\ typed' \in Nat
    BY <1>2 DEF TypeOK, Send
  <2>4. held' \subseteq Keys
    BY <1>2, <2>1 DEF TypeOK, Send
  <2>5. QED
    BY <1>2, <2>2, <2>3, <2>4 DEF TypeOK, Send, pic
<1>3. CASE FillBuffer
  <2>1. Head(queue) \in Codes /\ Tail(queue) \in Seq(Codes)
    BY <1>3 DEF TypeOK, FillBuffer
  <2>2. obuf' \in [full : BOOLEAN, code : Codes] /\ queue' \in Seq(Codes)
    BY <1>3, <2>1 DEF FillBuffer
  <2>3. QED
    BY <1>3, <2>2 DEF TypeOK, FillBuffer, user, Lines, MasterLines
<1>4. ASSUME NEW l \in Lines \ {KeyboardLine}, Raise(l) PROVE TypeOK'
  BY <1>4 DEF TypeOK, Raise, user
<1>5. CASE Accept
  <2>1. irr' \subseteq Lines /\ nr' \in Lines
    BY <1>5, Accepted DEF TypeOK
  <2>2. isrM' \subseteq MasterLines \cup {CascadeLine} /\ isrS' \subseteq SlaveLines
    BY <1>5, Accepted DEF TypeOK
  <2>3. QED
    BY <1>5, <2>1, <2>2 DEF TypeOK, Accept, user
<1>6. CASE keyboard_handler
  <2>1. kbd \in Flags /\ obuf.code \in Codes
    BY DEF TypeOK, Flags
  <2>2. kbd' \in Flags /\ Printed(kbd, obuf.code) \in Seq(Glyphs)
    <3>1. CASE Prints(kbd, obuf.code)
      BY <1>6, <2>1, <3>1, PrintedType DEF keyboard_handler
    <3>2. CASE ~Prints(kbd, obuf.code)
      <4>1. Printed(kbd, obuf.code) = <<>>
        BY <2>1, <3>2, PrintedType
      <4>2. kbd' \in Flags
        BY <1>6, <2>1, PrintedType DEF keyboard_handler
      <4>3. QED
        BY <4>1, <4>2
    <3>3. QED
      BY <3>1, <3>2
  <2>3. shown' \in Seq(Glyphs)
    BY <1>6, <2>2 DEF TypeOK, keyboard_handler
  <2>4. obuf' \in [full : BOOLEAN, code : Codes]
    BY <1>6 DEF TypeOK, keyboard_handler
  <2>5. QED
    BY <1>6, <2>2, <2>3, <2>4 DEF TypeOK, Flags, keyboard_handler, pic, user
<1>7. CASE OtherHandler
  BY <1>7 DEF TypeOK, OtherHandler, pic, user
<1>8. CASE Eoi
  BY <1>8 DEF TypeOK, Eoi, user
<1>9. CASE ret_from_intr
  BY <1>9 DEF TypeOK, ret_from_intr, pic, user
<1>10. CASE UNCHANGED vars
  BY <1>10 DEF TypeOK, vars, pic, user
<1>11. QED
  BY <1>1, <1>2, <1>3, <1>4, <1>5, <1>6, <1>7, <1>8, <1>9, <1>10
     DEF Next, do_IRQ, Spin

-----------------------------------------------------------------------------
(* Boot, the service registers and the byte in the 8042.                   *)

\* Before boot nothing is in service and nothing is requested.
LEMMA InitControl == ASSUME Init PROVE Control
BY DEF Init, Control, BeforeBoot, InService, ByteRequested

\* Every step keeps the controllers, the handler and the 8042 in step.
LEMMA ControlStep == ASSUME TypeOK, Control, [Next]_vars PROVE Control'
<1> USE DEF Control, BeforeBoot, InService, ByteRequested, Handling, IsKeyboard
<1>1. CASE init_interrupt
  BY <1>1 DEF TypeOK, init_interrupt
<1>2. ASSUME NEW code \in Codes, Send(code) PROVE Control'
  BY <1>2 DEF TypeOK, Send, pic
<1>3. CASE FillBuffer
  BY <1>3 DEF TypeOK, FillBuffer, user
<1>4. ASSUME NEW l \in Lines \ {KeyboardLine}, Raise(l) PROVE Control'
  BY <1>4 DEF TypeOK, Raise, user
<1>5. CASE Accept
  <2>1. isrM = {} /\ pc = "idle"
    BY <1>5 DEF TypeOK, Accept
  <2>2. PICK m \in 0 .. 2 : \E l \in irr : isrM' = isrM \cup {m}
    BY <1>5, Accepted
  <2>3. InService'
    BY <1>5, <2>1, <2>2 DEF Accept
  <2>4. irr' = irr \ {nr'} /\ nr' \in irr
    BY <1>5, Accepted
  <2>5. QED
    BY <1>5, <2>1, <2>3, <2>4 DEF TypeOK, Accept, user
<1>6. CASE keyboard_handler
  BY <1>6 DEF TypeOK, keyboard_handler, pic, user
<1>7. CASE OtherHandler
  BY <1>7 DEF TypeOK, OtherHandler, pic, user
<1>8. CASE Eoi
  <2>1. PICK m \in 0 .. 2 : isrM = {m}
    BY <1>8 DEF Eoi
  <2>2. Min({m}) = m
    BY MinLine
  <2>3. isrM' = {}
    BY <1>8, <2>1, <2>2 DEF Eoi
  <2>4. QED
    BY <1>8, <2>3 DEF TypeOK, Eoi, user
<1>9. CASE ret_from_intr
  BY <1>9 DEF TypeOK, ret_from_intr, pic, user
<1>10. CASE UNCHANGED vars
  BY <1>10 DEF TypeOK, vars, pic, user
<1>11. QED
  BY <1>1, <1>2, <1>3, <1>4, <1>5, <1>6, <1>7, <1>8, <1>9, <1>10
     DEF Next, do_IRQ, Spin

-----------------------------------------------------------------------------
(* The scan codes on their way.                                            *)

\* Nothing is on its way at first, and no key is down.
LEMMA InitUnderway == ASSUME Init PROVE Underway
<1> DEFINE st == [k \in 1 .. 1 |-> ReleasedShifts]
           at == [k \in 1 .. 1 |-> 0]
<1>1. NPending = 0
  BY DEF Init, NPending
<1>2. FlagsOf(held) = ReleasedShifts /\ ReleasedShifts \in Flags
  <2>1. ("shift_l" \in held) = FALSE /\ ("shift_r" \in held) = FALSE
    BY DEF Init
  <2>2. FlagsOf(held) = ReleasedShifts
    BY <2>1, Zenon DEF FlagsOf, ReleasedShifts
  <2>3. QED
    BY <2>2 DEF ReleasedShifts, Flags
<1>3. Decodes(st, at)
  BY <1>1, <1>2 DEF Init, Decodes
<1>4. QED
  BY <1>3 DEF Underway

\* The codes on their way have the type of codes.
LEMMA PendingType ==
  ASSUME TypeOK
  PROVE  NPending \in Nat /\ \A k \in 1 .. NPending : Code(k) \in Codes
BY DEF TypeOK, NPending, Code

\* A step that leaves the codes, the flags and the texts alone.
LEMMA SamePending ==
  ASSUME Underway, NPending' = NPending,
         \A k \in 1 .. NPending : Code(k)' = Code(k),
         UNCHANGED <<kbd, shown, held, wanted>>
  PROVE  Underway'
<1>1. PICK st, at : Decodes(st, at)
  BY DEF Underway
<1>2. Decodes(st, at)'
  BY <1>1 DEF Decodes, FlagsOf
<1>3. QED
  BY <1>2 DEF Underway

\* The user's key is what its code will decode to behind all the others.
LEMMA SentDecodes ==
  ASSUME TypeOK, NEW code \in Codes, Send(code)
  PROVE  /\ FlagsOf(held') = NextShift(FlagsOf(held), code)
         /\ Prints(FlagsOf(held), code) =>
              wanted' = Append(wanted, Decoded(FlagsOf(held), code))
         /\ ~Prints(FlagsOf(held), code) => wanted' = wanted
<1> DEFINE f == FlagsOf(held)
<1>1. "shift_l" \in held' <=> IF code.key = "shift_l" THEN code.make
                               ELSE "shift_l" \in held
  BY DEF Send, Codes
<1>2. "shift_r" \in held' <=> IF code.key = "shift_r" THEN code.make
                               ELSE "shift_r" \in held
  BY DEF Send, Codes
<1>3. FlagsOf(held') = NextShift(f, code)
  BY <1>1, <1>2 DEF FlagsOf, NextShift, Codes
<1>4. Column(f) = IF held \cap Shifts # {} THEN 1 ELSE 0
  BY DEF Column, FlagsOf, Shifts
<1>5. CASE code.make /\ code.key \in Printing
  <2>1. Decoded(f, code) = <<code.key, Column(f)>>
    BY <1>5, KeysAssumption DEF Decoded, keycode_map_normal
  <2>2. Prints(f, code)
    BY <1>5, <2>1, KeysAssumption DEF Prints, NoGlyph
  <2>3. wanted' = Append(wanted, Decoded(f, code))
    BY <1>4, <1>5, <2>1 DEF Send
  <2>4. QED
    BY <1>3, <2>2, <2>3
<1>6. CASE ~(code.make /\ code.key \in Printing)
  <2>1. ~Prints(f, code)
    BY <1>6 DEF Prints, Decoded, keycode_map_normal
  <2>2. QED
    BY <1>3, <1>6, <2>1 DEF Send
<1>7. QED
  BY <1>5, <1>6

\* A code that the user sends goes to the end of the way.
LEMMA SendUnderway ==
  ASSUME TypeOK, Underway, NEW code \in Codes, Send(code)
  PROVE  Underway'
<1>1. PICK st, at : Decodes(st, at)
  BY DEF Underway
<1> DEFINE f == FlagsOf(held)
<1>2. PICK n \in Nat : n = NPending /\ \A k \in 1 .. n : Code(k) \in Codes
  BY PendingType
<1>3. /\ NPending' = n + 1 /\ Code(n + 1)' = code
      /\ \A k \in 1 .. n : Code(k)' = Code(k)
  <2>1. queue \in Seq(Codes) /\ queue' = Append(queue, code) /\ obuf' = obuf
    BY DEF TypeOK, Send
  <2>2. CASE obuf.full
    BY <1>2, <2>1, <2>2 DEF NPending, Code
  <2>3. CASE ~obuf.full
    BY <1>2, <2>1, <2>3 DEF NPending, Code
  <2>4. QED
    BY <2>2, <2>3
<1> PICK st1 : st1 = [k \in 1 .. n + 2 |-> IF k = n + 2 THEN NextShift(f, code)
                                                      ELSE st[k]]
  OBVIOUS
<1> PICK at1 : at1 = [k \in 1 .. n + 2 |-> IF k = n + 2 THEN Len(wanted')
                                                      ELSE at[k]]
  OBVIOUS
<1>4. /\ Len(wanted') \in Nat /\ Len(wanted) <= Len(wanted')
      /\ \A k \in 1 .. Len(wanted) : wanted'[k] = wanted[k]
      /\ kbd' = kbd /\ shown' = shown
  BY DEF TypeOK, Send
<1>5. f \in Flags /\ NextShift(f, code) \in Flags
  BY <1>1, <1>2, PrintedType DEF Decodes
<1>6. st1 \in [1 .. n + 2 -> Flags] /\ at1 \in [1 .. n + 2 -> Nat]
  BY <1>1, <1>2, <1>4, <1>5 DEF Decodes
<1>7. /\ st1[1] = kbd /\ at1[1] = Len(shown)
      /\ st1[n + 1] = f /\ at1[n + 1] = Len(wanted)
      /\ st1[n + 2] = FlagsOf(held') /\ at1[n + 2] = Len(wanted')
  BY <1>1, <1>2, SentDecodes DEF Decodes
<1>8. ASSUME NEW k \in 1 .. n
      PROVE  Reads(st1[k], st1[k + 1], at1[k], at1[k + 1], Code(k), wanted')
  <2>1. /\ st1[k] = st[k] /\ st1[k + 1] = st[k + 1]
        /\ at1[k] = at[k] /\ at1[k + 1] = at[k + 1]
    BY <1>2
  <2>2. at[k] \in Nat /\ Reads(st[k], st[k + 1], at[k], at[k + 1], Code(k), wanted)
    BY <1>1, <1>2 DEF Decodes
  <2>3. Reads(st[k], st[k + 1], at[k], at[k + 1], Code(k), wanted')
    <3>1. Len(wanted) \in Nat
      BY DEF TypeOK
    <3>2. CASE Prints(st[k], Code(k))
      <4>1. at[k + 1] \in 1 .. Len(wanted) /\ at[k] < Len(wanted')
        BY <1>4, <2>2, <3>1, <3>2 DEF Reads
      <4>2. QED
        BY <1>4, <2>2, <3>2, <4>1 DEF Reads
    <3>3. CASE ~Prints(st[k], Code(k))
      BY <2>2, <3>3 DEF Reads
    <3>4. QED
      BY <3>2, <3>3
  <2>4. QED
    BY <2>1, <2>3
<1>9. Reads(f, st1[n + 2], Len(wanted), Len(wanted'), code, wanted')
  <2>1. wanted \in Seq(Glyphs)
    BY DEF TypeOK
  <2>2. CASE Prints(f, code)
    <3>1. wanted' = Append(wanted, Decoded(f, code)) /\ Decoded(f, code) \in Glyphs
      BY <2>2, <1>5, SentDecodes, PrintedType
    <3>2. Len(wanted') = Len(wanted) + 1 /\ wanted'[Len(wanted')] = Decoded(f, code)
      BY <2>1, <3>1
    <3>3. QED
      BY <1>7, <2>1, <2>2, <3>2, SentDecodes DEF Reads
  <2>3. CASE ~Prints(f, code)
    BY <1>7, <2>3, SentDecodes DEF Reads
  <2>4. QED
    BY <2>2, <2>3
<1>10. Decodes(st1, at1)'
  <2>1. ASSUME NEW k \in 1 .. n + 1
        PROVE  Reads(st1[k], st1[k + 1], at1[k], at1[k + 1], Code(k)', wanted')
    <3>1. CASE k = n + 1
      <4>1. k + 1 = n + 2 /\ Code(k)' = code
        BY <1>2, <1>3, <3>1
      <4>2. QED
        BY <1>7, <1>9, <3>1, <4>1
    <3>2. CASE k # n + 1
      <4>1. k \in 1 .. n
        BY <1>2, <3>2
      <4>2. QED
        BY <1>3, <1>8, <4>1
    <3>3. QED
      BY <3>1, <3>2
  <2>2. NPending' = n + 1 /\ NPending' + 1 = n + 2
    BY <1>2, <1>3
  <2>3. QED
    BY <1>4, <1>6, <1>7, <2>1, <2>2 DEF Decodes, FlagsOf
<1>11. QED
  BY <1>10 DEF Underway

\* The code that the handler reads is the first one on the way: it is shown
\* as it was meant, or shows nothing.
LEMMA ReadDecodes ==
  ASSUME TypeOK, Control, NEW st, NEW at, Decodes(st, at), keyboard_handler
  PROVE  /\ ~deaf /\ obuf.full /\ NPending > 0 /\ Code(1) = obuf.code
         /\ kbd' = st[2] /\ Len(shown') = at[2]
         /\ Prints(kbd, obuf.code) => /\ Len(shown) < Len(wanted)
                                      /\ shown' = Append(shown, wanted[Len(shown) + 1])
         /\ ~Prints(kbd, obuf.code) => shown' = shown
<1>1. ~deaf /\ obuf.full
  BY DEF Control, ByteRequested, Handling, keyboard_handler
<1>2. NPending \in Nat /\ NPending > 0 /\ Code(1) = obuf.code
  BY <1>1 DEF TypeOK, NPending, Code
<1>3. kbd \in Flags /\ obuf.code \in Codes /\ shown \in Seq(Glyphs)
  BY DEF TypeOK, Flags
<1>4. st[2] = NextShift(kbd, obuf.code) /\ st[1] = kbd /\ at[1] = Len(shown)
  BY <1>2 DEF Decodes, Reads
<1>5. CASE Prints(kbd, obuf.code)
  <2>1. /\ at[2] = Len(shown) + 1 /\ Len(shown) < Len(wanted)
        /\ wanted[Len(shown) + 1] = Decoded(kbd, obuf.code)
    BY <1>2, <1>4, <1>5 DEF Decodes, Reads
  <2>2. Decoded(kbd, obuf.code) \in Glyphs
    BY <1>3, <1>5, PrintedType
  <2>3. shown' = shown \o <<Decoded(kbd, obuf.code)>>
    BY <1>3, <1>5, PrintedType DEF keyboard_handler
  <2>4. shown' = Append(shown, Decoded(kbd, obuf.code)) /\ Len(shown') = Len(shown) + 1
    BY <1>3, <2>2, <2>3
  <2>5. QED
    BY <1>1, <1>2, <1>4, <1>5, <2>1, <2>4 DEF keyboard_handler
<1>6. CASE ~Prints(kbd, obuf.code)
  <2>1. at[2] = Len(shown)
    BY <1>2, <1>4, <1>6 DEF Decodes, Reads
  <2>2. shown' = shown \o <<>>
    BY <1>3, <1>6, PrintedType DEF keyboard_handler
  <2>3. shown' = shown
    BY <1>3, <2>2
  <2>4. QED
    BY <1>1, <1>2, <1>4, <1>6, <2>1, <2>3 DEF keyboard_handler
<1>7. QED
  BY <1>5, <1>6

\* The handler takes the first code off the way.
LEMMA ReadUnderway ==
  ASSUME TypeOK, Control, Underway, keyboard_handler
  PROVE  Underway'
<1>1. PICK st, at : Decodes(st, at)
  BY DEF Underway
<1>2. PICK n \in Nat : n + 1 = NPending /\ \A k \in 1 .. n + 1 : Code(k) \in Codes
  <2>1. NPending - 1 \in Nat
    BY <1>1, PendingType, ReadDecodes
  <2>2. QED
    BY <2>1, PendingType
<1>3. NPending' = n /\ \A k \in 1 .. n : Code(k)' = Code(k + 1)
  <2>1. /\ queue \in Seq(Codes) /\ queue' = queue
        /\ obuf.full /\ ~obuf'.full
    BY <1>1, ReadDecodes DEF TypeOK, keyboard_handler
  <2>2. QED
    BY <1>2, <2>1 DEF NPending, Code
<1> PICK st1 : st1 = [k \in 1 .. n + 1 |-> st[k + 1]]
  OBVIOUS
<1> PICK at1 : at1 = [k \in 1 .. n + 1 |-> at[k + 1]]
  OBVIOUS
<1>4. st1 \in [1 .. n + 1 -> Flags] /\ at1 \in [1 .. n + 1 -> Nat]
  <2>1. st \in [1 .. n + 2 -> Flags] /\ at \in [1 .. n + 2 -> Nat]
    <3>1. NPending + 1 = n + 2
      BY <1>2
    <3>2. QED
      BY <1>1, <3>1, Zenon DEF Decodes
  <2>2. \A k \in 1 .. n + 1 : k + 1 \in 1 .. n + 2
    OBVIOUS
  <2>3. QED
    BY <2>1, <2>2
<1>5. st1[1] = kbd' /\ at1[1] = Len(shown')
  BY <1>1, <1>2, ReadDecodes
<1>6. held' = held /\ wanted' = wanted
  BY DEF keyboard_handler, user
<1>7. st1[n + 1] = FlagsOf(held) /\ at1[n + 1] = Len(wanted)
  BY <1>1, <1>2 DEF Decodes
<1>8. ASSUME NEW k \in 1 .. n
      PROVE  Reads(st1[k], st1[k + 1], at1[k], at1[k + 1], Code(k)', wanted')
  <2>1. k + 1 \in 1 .. n + 1
    BY <1>2
  <2>2. Reads(st[k + 1], st[k + 1 + 1], at[k + 1], at[k + 1 + 1], Code(k + 1), wanted)
    BY <1>1, <1>2, <2>1 DEF Decodes
  <2>3. QED
    BY <1>3, <1>6, <2>1, <2>2
<1>9. Decodes(st1, at1)'
  BY <1>3, <1>4, <1>5, <1>6, <1>7, <1>8 DEF Decodes, FlagsOf
<1>10. QED
  BY <1>9 DEF Underway

\* Every step keeps what is on its way in line with what was meant.
LEMMA UnderwayStep ==
  ASSUME TypeOK, Control, Underway, [Next]_vars PROVE Underway'
<1>1. CASE UNCHANGED <<obuf, queue, kbd, shown, held, wanted>>
  <2>1. NPending' = NPending /\ \A k \in 1 .. NPending : Code(k)' = Code(k)
    BY <1>1 DEF NPending, Code
  <2>2. QED
    BY <1>1, <2>1, SamePending
<1>2. ASSUME NEW code \in Codes, Send(code) PROVE Underway'
  BY <1>2, SendUnderway
<1>3. CASE FillBuffer
  <2>1. /\ queue \in Seq(Codes) /\ queue # <<>> /\ ~obuf.full
        /\ obuf'.full /\ obuf'.code = Head(queue) /\ queue' = Tail(queue)
    BY <1>3 DEF TypeOK, FillBuffer
  <2>2. NPending' = NPending
    BY <2>1 DEF NPending
  <2>3. ASSUME NEW k \in 1 .. NPending PROVE Code(k)' = Code(k)
    BY <2>1 DEF NPending, Code
  <2>4. QED
    BY <1>3, <2>2, <2>3, SamePending DEF FillBuffer, user
<1>4. CASE keyboard_handler
  BY <1>4, ReadUnderway
<1>5. CASE \/ init_interrupt \/ Accept \/ OtherHandler \/ Eoi \/ ret_from_intr
           \/ (\E l \in Lines \ {KeyboardLine} : Raise(l)) \/ UNCHANGED vars
  BY <1>1, <1>5 DEF init_interrupt, Accept, OtherHandler, Eoi, ret_from_intr, Raise,
                    vars, pic, user
<1>6. QED
  BY <1>2, <1>3, <1>4, <1>5 DEF Next, do_IRQ, Spin

-----------------------------------------------------------------------------
(* The results.                                                            *)

\* The inductive invariant holds in every state.
LEMMA Invariance == Spec => []IInv
<1>1. Init => IInv
  BY InitType, InitControl, InitUnderway DEF IInv
<1>2. IInv /\ [Next]_vars => IInv'
  BY TypeStep, ControlStep, UnderwayStep DEF IInv
<1>3. QED
  BY <1>1, <1>2, PTL DEF Spec

\* Whatever is typed and requested, the controllers' registers hold lines
\* they have, the handler serves a line of the table, and only characters of
\* the map are printed.
THEOREM Typed == Spec => []TypeOK
<1>1. IInv => TypeOK
  BY DEF IInv
<1>2. QED
  BY <1>1, Invariance, PTL

\* For every set of keys and lines: the handler of line 1 never reads port
\* 0x60 empty, and a byte is stuck in the 8042 only if it came before
\* init_interrupt programmed ICW1.
THEOREM BytesArePending == Spec => []PendingByteRequested
<1>1. IInv => PendingByteRequested
  BY DEF IInv, TypeOK, Control, ByteRequested, Handling, PendingByteRequested
<1>2. QED
  BY <1>1, Invariance, PTL

\* do_IRQ ends exactly the service that was started, with interrupts off all
\* the way, for every set of slave lines, blocked or not.
THEOREM ServiceIsMatched == Spec => []ServiceMatchesHandler
<1>1. ASSUME IInv PROVE ServiceMatchesHandler
  <2>1. Cardinality({}) = 0 /\ \A m : Cardinality({m}) = 1
    BY FS_EmptySet, FS_Singleton
  <2>2. QED
    BY <1>1, <2>1 DEF IInv, Control, InService, ServiceMatchesHandler
<1>2. QED
  BY <1>1, Invariance, PTL

\* However the two shift keys are pressed, repeated and released among other
\* keys, parse_keycode's flags are the keys that are down as soon as every
\* code is read.
THEOREM ShiftsAreTracked == Spec => []ShiftTracksKeys
<1>1. ASSUME IInv, queue = <<>>, ~obuf.full
      PROVE  kbd = FlagsOf(held)
  <2>1. PICK st, at : Decodes(st, at)
    BY <1>1 DEF IInv, Underway
  <2>2. NPending = 0
    BY <1>1 DEF NPending
  <2>3. QED
    BY <2>1, <2>2 DEF Decodes
<1>2. ASSUME IInv PROVE ShiftTracksKeys
  <2>1. SUFFICES ASSUME queue = <<>>, ~obuf.full
                 PROVE  /\ kbd.shift_l <=> "shift_l" \in held
                        /\ kbd.shirt_r <=> "shift_r" \in held
    BY DEF ShiftTracksKeys
  <2>2. kbd.shift_l = ("shift_l" \in held) /\ kbd.shirt_r = ("shift_r" \in held)
    <3>1. kbd = FlagsOf(held)
      BY <1>1, <1>2, <2>1
    <3>2. FlagsOf(held).shift_l = ("shift_l" \in held)
      BY DEF FlagsOf
    <3>3. FlagsOf(held).shirt_r = ("shift_r" \in held)
      BY DEF FlagsOf
    <3>4. QED
      BY <3>1, <3>2, <3>3
  <2>3. QED
    BY <2>2, Zenon
<1>3. QED
  BY <1>2, Invariance, PTL

\* A step of the interrupt system is a step of TextInput or leaves the typed
\* and the shown text alone.
LEMMA TextStep == ASSUME IInv, [Next]_vars PROVE [Text!Next]_(Text!vars)
<1> USE DEF Text!Next, Text!vars
<1>1. CASE init_interrupt
  <2>1. shown = <<>> /\ deaf = FALSE /\ deaf' = obuf.full /\ obuf.full \in BOOLEAN
    BY <1>1 DEF IInv, TypeOK, Control, BeforeBoot, init_interrupt
  <2>2. wanted' = wanted /\ shown' = shown
    BY <1>1 DEF init_interrupt
  <2>3. QED
    BY <2>1, <2>2 DEF Text!GoDeaf
<1>2. ASSUME NEW code \in Codes, Send(code) PROVE [Text!Next]_(Text!vars)
  <2>1. shown' = shown /\ deaf' = deaf
    BY <1>2 DEF Send
  <2>2. CASE code.make /\ code.key \in Printing
    BY <1>2, <2>1, <2>2 DEF Send, Text!Type, Glyphs
  <2>3. CASE ~(code.make /\ code.key \in Printing)
    BY <1>2, <2>1, <2>3 DEF Send
  <2>4. QED
    BY <2>2, <2>3
<1>3. CASE keyboard_handler
  <2>1. PICK st, at : Decodes(st, at)
    BY DEF IInv, Underway
  <2>2. wanted' = wanted /\ deaf' = deaf
    BY <1>3 DEF keyboard_handler, user
  <2>3. CASE Prints(kbd, obuf.code)
    <3>1. ~deaf /\ Len(shown) < Len(wanted)
          /\ shown' = Append(shown, wanted[Len(shown) + 1])
      BY <1>3, <2>1, <2>3, ReadDecodes DEF IInv
    <3>2. QED
      BY <2>2, <3>1 DEF Text!Show
  <2>4. CASE ~Prints(kbd, obuf.code)
    BY <1>3, <2>1, <2>2, <2>4, ReadDecodes DEF IInv
  <2>5. QED
    BY <2>3, <2>4
<1>4. CASE \/ FillBuffer \/ Accept \/ OtherHandler \/ Eoi \/ ret_from_intr
           \/ (\E l \in Lines \ {KeyboardLine} : Raise(l)) \/ UNCHANGED vars
  BY <1>4 DEF FillBuffer, Accept, OtherHandler, Eoi, ret_from_intr, Raise, vars,
              pic, user
<1>5. QED
  BY <1>1, <1>2, <1>3, <1>4 DEF Next, do_IRQ, Spin

\* The keyboard path implements the safety part of TextInput for every set of
\* keys and lines: what do_IRQ shows is what was meant, in order, nothing
\* twice and nothing skipped, whatever interrupts fall in between.
THEOREM ImplementsText == Spec => Text!Safety
<1>1. Init => Text!Init
  BY DEF Init, Text!Init
<1>2. IInv /\ [Next]_vars => [Text!Next]_(Text!vars)
  BY TextStep
<1>3. QED
  BY <1>1, <1>2, Invariance, PTL DEF Spec, Text!Safety
=============================================================================
