----------------------------- MODULE Interrupts -----------------------------
(***************************************************************************)
(* Interrupt handling of HelloOS: init_interrupt and do_IRQ                *)
(* (kernel/irq/irq.c), ret_from_intr (kernel/entry.S) and the keyboard     *)
(* driver, together with the hardware they drive: a cascaded pair of 8259A *)
(* interrupt controllers, the 8042 keyboard controller and the disk.       *)
(*                                                                         *)
(* The hardware is external: it is modelled from how this code programs    *)
(* it.  ICW4 = 0x01 selects fully nested mode with manual end-of-interrupt,*)
(* OCW1 = 0x00 unmasks every line, requests are edge-triggered.  A vector  *)
(* 0x20 + n is its line n.  What do_IRQ prints besides the typed character *)
(* is left to Console.                                                     *)
(***************************************************************************)
EXTENDS Keyboard, FiniteSets, FiniteSetsExt

CONSTANTS
  SlaveLines,  \* the lines of the second controller that devices raise
  MaxTyped,    \* bound: scan codes in a behaviour
  MaxRaised    \* bound: requests a line other than the keyboard's may make

TimerLine == 0
KeyboardLine == 1
CascadeLine == 2
AtaWriteLine == 14                 \* vector 0x2e
AtaReadLine == 15                  \* vector 0x2f

ASSUME LinesAssumption == SlaveLines \subseteq 8 .. 15
ASSUME InterruptBounds == MaxTyped \in Nat /\ MaxRaised \in Nat

MasterLines == {TimerLine, KeyboardLine}
Lines == MasterLines \cup SlaveLines

VARIABLES
  intr,          \* RFLAGS.IF
  pc, nr,        \* where do_IRQ is and the line it serves
  irr,           \* requests latched by the two controllers
  isrM, isrS,    \* lines in service, master and slave
  obuf,          \* the 8042's output buffer: its byte and its full flag
  queue,         \* scan codes waiting in the keyboard
  kbd,           \* shift_l and shirt_r of the driver
  shown,         \* the characters the driver printed
  held,          \* history: the keys that are down
  typed,         \* history: how many scan codes were sent
  raised,        \* history: requests made per line
  wanted,        \* history: the characters the user meant
  deaf           \* history: a byte was waiting when init_interrupt ran

pic == <<irr, isrM, isrS>>
user == <<held, typed, wanted, deaf>>
vars == <<intr, pc, nr, pic, obuf, queue, kbd, shown, user, raised>>

Init ==
  /\ intr = FALSE /\ pc = "boot" /\ nr = 0
  /\ irr = {} /\ isrM = {} /\ isrS = {}
  /\ obuf = [full |-> FALSE, code |-> [key |-> "shift_l", make |-> FALSE]]
  /\ queue = <<>>
  /\ kbd = ReleasedShifts
  /\ shown = <<>> /\ wanted = <<>>
  /\ held = {} /\ typed = 0 /\ deaf = FALSE
  /\ raised = [l \in Lines \ {KeyboardLine} |-> 0]

\* ICW1-4 and OCW1 for both controllers, then sti.  ICW1 resets the edge
\* detectors: a line that is high already must fall before it counts again,
\* and the code does not empty the 8042.
init_interrupt ==
  /\ pc = "boot"
  /\ irr' = {} /\ isrM' = {} /\ isrS' = {}
  /\ deaf' = obuf.full
  /\ intr' = TRUE /\ pc' = "idle"
  /\ UNCHANGED <<nr, obuf, queue, kbd, shown, held, typed, wanted, raised>>

-----------------------------------------------------------------------------
(* The devices.                                                            *)

\* The user presses a key, holds it (typematic repeat) or releases one.
Send(code) ==
  /\ typed < MaxTyped
  /\ ~code.make => code.key \in held
  /\ queue' = Append(queue, code)
  /\ typed' = typed + 1
  /\ held' = IF code.make THEN held \cup {code.key} ELSE held \ {code.key}
  /\ wanted' =
       IF code.make /\ code.key \in Printing
         THEN Append(wanted, <<code.key, IF held \cap Shifts # {} THEN 1 ELSE 0>>)
         ELSE wanted
  /\ UNCHANGED <<intr, pc, nr, pic, obuf, kbd, shown, raised, deaf>>

\* The 8042 fills its empty output buffer and raises its line.
FillBuffer ==
  /\ ~obuf.full /\ queue # <<>>
  /\ obuf' = [full |-> TRUE, code |-> Head(queue)]
  /\ queue' = Tail(queue)
  /\ irr' = irr \cup {KeyboardLine}
  /\ UNCHANGED <<intr, pc, nr, isrM, isrS, kbd, shown, user, raised>>

\* The timer ticks, the disk has finished, another device calls.
Raise(l) ==
  /\ pc # "boot" /\ raised[l] < MaxRaised
  /\ irr' = irr \cup {l}
  /\ raised' = [raised EXCEPT ![l] = @ + 1]
  /\ UNCHANGED <<intr, pc, nr, isrM, isrS, obuf, queue, kbd, shown, user>>

-----------------------------------------------------------------------------
(* The controllers and the processor accept a request.                     *)

Outranks(l, inService) == \A s \in inService : l < s

\* The slave asks the master when a request outranks what it has in service.
SlaveAsks ==
  \E l \in irr \cap SlaveLines : Outranks(l, isrS)

MasterRequests ==
  (irr \cap MasterLines) \cup (IF SlaveAsks THEN {CascadeLine} ELSE {})

\* Interrupt gates clear IF; the vector is that of the highest request.
Accept ==
  /\ intr /\ MasterRequests # {}
  /\ LET m == Min(MasterRequests)
         l == IF m = CascadeLine THEN Min(irr \cap SlaveLines) ELSE m
     IN  /\ Outranks(m, isrM)
         /\ irr' = irr \ {l}
         /\ isrM' = isrM \cup {m}
         /\ isrS' = IF m = CascadeLine THEN isrS \cup {l} ELSE isrS
         /\ nr' = l
  /\ intr' = FALSE /\ pc' = "dispatch"
  /\ UNCHANGED <<obuf, queue, kbd, shown, user, raised>>

-----------------------------------------------------------------------------
(* do_IRQ.                                                                 *)

\* Faulty variant of IsKeyboard: the timer's vector falls into the case.
IsKeyboard_Falls(l) == l \in {TimerLine, KeyboardLine}
\* case 0x21
IsKeyboard(l) == l = KeyboardLine

\* io_in8(0x60), which empties the buffer, and parse_keycode
keyboard_handler ==
  /\ pc = "dispatch" /\ IsKeyboard(nr)
  /\ obuf' = [obuf EXCEPT !.full = FALSE]
  /\ kbd' = NextShift(kbd, obuf.code)
  /\ shown' = shown \o Printed(kbd, obuf.code)
  /\ pc' = "eoi"
  /\ UNCHANGED <<intr, nr, pic, queue, user, raised>>

\* ata_handler_read, ata_handler_write and default change nothing here
OtherHandler ==
  /\ pc = "dispatch" /\ ~IsKeyboard(nr)
  /\ pc' = "eoi"
  /\ UNCHANGED <<intr, nr, pic, obuf, queue, kbd, shown, user, raised>>

\* Faulty variant of Eoi: the timer's early way out skips the last line.
Eoi_NotTimer ==
  /\ pc = "eoi"
  /\ isrM' = IF nr = TimerLine THEN isrM ELSE isrM \ {Min(isrM)}
  /\ pc' = "return"
  /\ UNCHANGED <<intr, nr, irr, isrS, obuf, queue, kbd, shown, user, raised>>

\* io_out8(0x20, 0x20): the master's highest line leaves service
Eoi ==
  /\ pc = "eoi"
  /\ isrM' = isrM \ {Min(isrM)}
  /\ pc' = "return"
  /\ UNCHANGED <<intr, nr, irr, isrS, obuf, queue, kbd, shown, user, raised>>

\* sti; iretq (no interrupt is taken between the two)
ret_from_intr ==
  /\ pc = "return"
  /\ intr' = TRUE /\ pc' = "idle"
  /\ UNCHANGED <<nr, pic, obuf, queue, kbd, shown, user, raised>>

do_IRQ == keyboard_handler \/ OtherHandler \/ Eoi \/ ret_from_intr

\* while (1): the code outside handlers needs no interrupt to go on
Spin == pc = "idle" /\ UNCHANGED vars

Next ==
  \/ init_interrupt
  \/ \E code \in Codes : Send(code)
  \/ FillBuffer
  \/ \E l \in Lines \ {KeyboardLine} : Raise(l)
  \/ Accept
  \/ do_IRQ
  \/ Spin

\* The kernel boots, the 8042 delivers what it holds, the processor takes
\* interrupts when IF is set and runs the handler to its end.
Fairness ==
  /\ WF_vars(init_interrupt) /\ WF_vars(FillBuffer)
  /\ WF_vars(Accept) /\ WF_vars(do_IRQ)

Spec == Init /\ [][Next]_vars /\ Fairness

-----------------------------------------------------------------------------
(* Properties.                                                             *)

\* Types; in particular only characters of the map are printed.
TypeOK ==
  /\ intr \in BOOLEAN
  /\ pc \in {"boot", "idle", "dispatch", "eoi", "return"}
  /\ nr \in Lines
  /\ irr \subseteq Lines /\ isrS \subseteq SlaveLines
  /\ isrM \subseteq MasterLines \cup {CascadeLine}
  /\ obuf \in [full : BOOLEAN, code : Codes]
  /\ queue \in Seq(Codes)
  /\ kbd \in [shift_l : BOOLEAN, shirt_r : BOOLEAN]
  /\ shown \in Seq(Glyphs) /\ wanted \in Seq(Glyphs)
  /\ held \subseteq Keys /\ typed \in Nat /\ deaf \in BOOLEAN
  /\ raised \in [Lines \ {KeyboardLine} -> Nat]

\* Port 0x60 repeats its last byte when it is read empty: the keyboard handler
\* always finds a byte it has not read, none is decoded twice.
\* Interrupts are edge-triggered: a byte in the 8042 whose request is gone is
\* never read, and no byte comes behind it.  That happens exactly when a key
\* was hit before init_interrupt, whose ICW1 forgets the edge; later on every
\* byte has its request pending or is being handled.
PendingByteRequested ==
  LET requested == KeyboardLine \in irr
      handled   == pc = "dispatch" /\ IsKeyboard(nr)
  IN  pc # "boot" =>
        IF deaf THEN obuf.full /\ ~requested
                ELSE obuf.full <=> (requested \/ handled)

\* The master has a line in service exactly while do_IRQ runs: no handler
\* ends with its line blocked, none starts on top of another one.
ServiceMatchesHandler ==
  /\ Cardinality(isrM) = IF pc \in {"dispatch", "eoi"} THEN 1 ELSE 0
  /\ intr <=> pc = "idle"

\* Once every scan code is decoded, the driver's shift flags are the keys
\* that are down, whatever was pressed, repeated and released meanwhile.
ShiftTracksKeys ==
  queue = <<>> /\ ~obuf.full =>
    /\ kbd.shift_l <=> "shift_l" \in held
    /\ kbd.shirt_r <=> "shift_r" \in held

\* A request of the timer or the keyboard is taken in the end, whatever the
\* slave controller is stuck with.
MasterLinesServed == \A l \in MasterLines : l \in irr ~> l \notin irr

\* What README.md says of 8259A interrupt handling, for the lines of the
\* second controller: a request is taken in the end.  do_IRQ never sends it
\* an end-of-interrupt, see the run interrupts_slave.
SlaveLinesServed == \A l \in SlaveLines : l \in irr ~> l \notin irr

Text == INSTANCE TextInput WITH Chars <- Glyphs

\* The keyboard path implements TextInput: what was meant is shown, in
\* order, nothing twice, nothing lost, and in the end all of it, unless the
\* keyboard was deaf from the start.
TextSpec == Text!Spec
=============================================================================
