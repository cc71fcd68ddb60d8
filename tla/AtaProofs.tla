----------------------------- MODULE AtaProofs ------------------------------
(***************************************************************************)
(* Proofs about Ata, for sectors of every size and one sector per transfer *)
(* as ata_init asks for.  With more than one sector the results are false: *)
(* write_sectors_ATA_PIO sends twice what a sector holds, and a drive that *)
(* is quick enough takes the second half as the next sector.               *)
(***************************************************************************)
EXTENDS Ata, SequenceTheorems, TLAPS

\* the words 1 to n of the buffer, and the last n words of a sector
Words(n) == [w \in 1 .. n |-> w]
LastWords(s, n) == [w \in 1 .. n |-> s[SectorWords - n + w]]

\* the states of the drive
BusyWith(cmd, fifo) ==
  [status |-> {"BSY"}, cmd |-> cmd, left |-> 1, fifo |-> fifo]
AskingWith(cmd, fifo) ==
  [status |-> {"DRQ"}, cmd |-> cmd, left |-> 1, fifo |-> fifo]
Refusing == [Idle EXCEPT !.status = {"ERR"}]
None == \E bits \in SUBSET Bits : drive = Missing(bits)

GaveUp == (drive = Refusing \/ None) /\ "refused" \in spoilt
Written == disk[1] = bwrite

\* What the driver knows of the drive while it writes: half of the words it
\* sends fill the drive's buffer, the others come too late to be taken.
WhileWriting ==
  op = "write" =>
    /\ buf = <<>>
    /\ pc # "done" /\ (pc # "transfer" => i = 0)
    /\ pc = "ready" => drive \in {Idle, Spinning} \/ None
    /\ pc = "command" => ~Busy /\ (drive = Idle \/ None)
    /\ pc = "bsy" => drive \in {BusyWith("write", <<>>), AskingWith("write", <<>>)}
                     \/ GaveUp
    /\ pc = "drq" => drive = AskingWith("write", <<>>) \/ GaveUp
    /\ pc = "transfer" =>
         \/ GaveUp
         \/ 2 * i < SectorWords /\ drive = AskingWith("write", Words(2 * i))
         \/ 2 * i >= SectorWords /\ drive = BusyWith("write", bwrite)
         \/ 2 * i >= SectorWords /\ drive = Idle /\ Written

\* What it knows while it reads: the drive is still storing at first; then it
\* has at least the words that the driver has still to read, and exactly those
\* unless a read was hit.
WhileReading ==
  op = "read" =>
    /\ pc \notin {"transfer", "done"} => buf = <<>> /\ i = 0
    /\ pc = "ready" => \/ GaveUp
                       \/ drive = BusyWith("write", bwrite)
                       \/ drive = Idle /\ Written
    /\ pc = "command" => ~Busy /\ (GaveUp \/ (drive = Idle /\ Written))
    /\ pc \in {"bsy", "drq", "transfer", "done"} => Written \/ "refused" \in spoilt
    /\ pc = "bsy" => \/ GaveUp
                     \/ drive \in {BusyWith("read", <<>>), AskingWith("read", disk[1])}
    /\ pc = "drq" => GaveUp \/ drive = AskingWith("read", disk[1])
    /\ pc = "transfer" =>
         /\ Len(buf) = i
         /\ \/ GaveUp
            \/ \E n \in SectorWords - i .. SectorWords :
                 /\ drive = AskingWith("read", LastWords(disk[1], n))
                 /\ spoilt = {} => n = SectorWords - i
         /\ spoilt = {} => \A w \in 1 .. i : buf[w] = disk[1][w]
    /\ pc = "done" =>
         /\ Len(buf) = SectorWords
         /\ \/ GaveUp
            \/ drive = Idle
            \/ \E n \in 1 .. SectorWords :
                 drive = AskingWith("read", LastWords(disk[1], n))
         /\ spoilt = {} => \A w \in 1 .. SectorWords : buf[w] = disk[1][w]

\* the driver's own variables and the medium
Typing ==
  /\ pc \in {"ready", "command", "bsy", "drq", "transfer", "done"}
  /\ op \in {"write", "read"}
  /\ j \in 1 .. 2 /\ (pc \in {"bsy", "drq", "transfer"} => j = 1)
  /\ i \in 0 .. SectorWords - 1
  /\ buf \in Seq(-1 .. SectorWords)
  /\ spoilt \subseteq {"hit", "refused"} /\ rdy \subseteq {"RDY"}
  /\ disk \in [1 .. 1 -> {Old, bwrite}]

IInv == Typing /\ WhileWriting /\ WhileReading

-----------------------------------------------------------------------------
(* The words of a sector.                                                  *)

\* The two words of a 32-bit word continue the buffer.
LEMMA WordsTaken ==
  ASSUME NEW n \in Nat
  PROVE  /\ Words(n) \in Seq(Nat) /\ Len(Words(n)) = n
         /\ Words(n) \o <<n + 1, n + 2>> = Words(n + 2)
<1>1. Words(n) \in Seq(Nat) /\ Len(Words(n)) = n
  BY DEF Words
<1>2. Words(n + 2) \in Seq(Nat) /\ Len(Words(n + 2)) = n + 2
  BY DEF Words
<1> DEFINE c == Words(n) \o <<n + 1, n + 2>>
<1>3. c \in Seq(Nat) /\ Len(c) = n + 2
  BY <1>1
<1>4. ASSUME NEW w \in 1 .. n + 2 PROVE c[w] = Words(n + 2)[w]
  <2>1. CASE w <= n
    BY <1>1, <2>1 DEF Words
  <2>2. CASE w = n + 1
    <3>1. c[w] = <<n + 1, n + 2>>[1]
      BY <1>1, <2>2
    <3>2. Words(n + 2)[w] = n + 1 /\ <<n + 1, n + 2>>[1] = n + 1
      BY <2>2 DEF Words
    <3>3. QED
      BY <3>1, <3>2
  <2>3. CASE w = n + 2
    <3>1. c[w] = <<n + 1, n + 2>>[2]
      BY <1>1, <2>3
    <3>2. Words(n + 2)[w] = n + 2 /\ <<n + 1, n + 2>>[2] = n + 2
      BY <2>3 DEF Words
    <3>3. QED
      BY <3>1, <3>2
  <2>4. w <= n \/ w = n + 1 \/ w = n + 2
    OBVIOUS
  <2>5. QED
    BY <2>1, <2>2, <2>3, <2>4
<1>5. c = Words(n + 2)
  <2> HIDE DEF c
  <2>1. QED
    BY <1>2, <1>3, <1>4, SeqEqual
<1>6. QED
  BY <1>1, <1>5

\* A sector has SectorWords words.
LEMMA SectorType ==
  /\ bwrite = Words(SectorWords)
  /\ \A s \in {Old, bwrite} : /\ s \in Seq(0 .. SectorWords) /\ Len(s) = SectorWords
                             /\ LastWords(s, SectorWords) = s
<1>1. bwrite = Words(SectorWords)
  BY DEF bwrite, Words
<1>2. ASSUME NEW s \in {Old, bwrite}
      PROVE  /\ s \in Seq(0 .. SectorWords) /\ Len(s) = SectorWords
             /\ LastWords(s, SectorWords) = s
  <2>1. s \in Seq(0 .. SectorWords) /\ Len(s) = SectorWords
    BY SectorAssumption DEF Old, bwrite
  <2>2. \A w \in 1 .. SectorWords : SectorWords - SectorWords + w = w
    BY SectorAssumption
  <2>3. s = [w \in 1 .. SectorWords |-> s[w]]
    BY DEF Old, bwrite
  <2>4. LastWords(s, SectorWords) = s
    BY <2>2, <2>3 DEF LastWords
  <2>5. QED
    BY <2>1, <2>4
<1>3. QED
  BY <1>1, <1>2

\* A word that is read leaves the words behind it.
LEMMA WordGiven ==
  ASSUME NEW s \in {Old, bwrite}, NEW n \in 1 .. SectorWords
  PROVE  /\ LastWords(s, n) \in Seq(0 .. SectorWords) /\ Len(LastWords(s, n)) = n
         /\ Head(LastWords(s, n)) = s[SectorWords - n + 1]
         /\ n > 1 => Tail(LastWords(s, n)) = LastWords(s, n - 1)
<1> USE SectorAssumption
<1>1. \A w \in 1 .. SectorWords : s[w] \in 0 .. SectorWords
  BY DEF Old, bwrite
<1>2. LastWords(s, n) \in Seq(0 .. SectorWords) /\ Len(LastWords(s, n)) = n
  BY <1>1 DEF LastWords
<1>3. Head(LastWords(s, n)) = s[SectorWords - n + 1]
  BY <1>2 DEF LastWords
<1>4. ASSUME n > 1 PROVE Tail(LastWords(s, n)) = LastWords(s, n - 1)
  <2>1. LastWords(s, n - 1) \in Seq(0 .. SectorWords) /\ Len(LastWords(s, n - 1)) = n - 1
    BY <1>1, <1>4 DEF LastWords
  <2>2. Tail(LastWords(s, n)) \in Seq(0 .. SectorWords)
        /\ Len(Tail(LastWords(s, n))) = n - 1
    BY <1>2, <1>4
  <2>3. ASSUME NEW w \in 1 .. n - 1
        PROVE  Tail(LastWords(s, n))[w] = LastWords(s, n - 1)[w]
    <3>1. Tail(LastWords(s, n))[w] = LastWords(s, n)[w + 1]
      BY <1>2, <1>4
    <3>2. LastWords(s, n)[w + 1] = s[SectorWords - n + (w + 1)]
      BY DEF LastWords
    <3>3. LastWords(s, n - 1)[w] = s[SectorWords - (n - 1) + w]
      BY DEF LastWords
    <3>4. SectorWords - n + (w + 1) = SectorWords - (n - 1) + w
      OBVIOUS
    <3>5. QED
      BY <3>1, <3>2, <3>3, <3>4
  <2>4. QED
    BY <2>1, <2>2, <2>3, SeqEqual
<1>5. QED
  BY <1>2, <1>3, <1>4

-----------------------------------------------------------------------------
(* The states of the drive.                                                *)

\* A busy drive: before the command, with a command just given, or storing.
LEMMA WhenBusy ==
  ASSUME IInv, Busy
  PROVE  \/ None
         \/ op = "write" /\ pc = "ready" /\ drive = Spinning
         \/ pc = "bsy" /\ drive = BusyWith(op, <<>>)
         \/ /\ drive = BusyWith("write", bwrite)
            /\ \/ op = "write" /\ pc = "transfer" /\ 2 * i >= SectorWords
               \/ op = "read" /\ pc = "ready"
<1>1. /\ drive # Idle /\ drive # Refusing
      /\ \A c, f : drive # AskingWith(c, f)
  BY DEF Busy, Idle, Refusing, AskingWith
<1>2. CASE op = "write"
  BY <1>1, <1>2 DEF IInv, Typing, WhileWriting, GaveUp
<1>3. CASE op = "read"
  BY <1>1, <1>3 DEF IInv, Typing, WhileReading, GaveUp
<1>4. QED
  BY <1>2, <1>3 DEF IInv, Typing

\* A drive that is not busy: idle, with data to exchange, or done with it.
LEMMA WhenNotBusy ==
  ASSUME IInv, ~Busy
  PROVE  /\ op = "write" /\ pc = "ready" => drive = Idle \/ None
         /\ op = "read" /\ pc = "ready" => GaveUp \/ (drive = Idle /\ Written)
         /\ op = "write" /\ pc = "bsy" => GaveUp \/ drive = AskingWith("write", <<>>)
         /\ op = "read" /\ pc = "bsy" => GaveUp \/ drive = AskingWith("read", disk[1])
<1>1. drive # Spinning /\ \A c, f : drive # BusyWith(c, f)
  BY DEF Busy, Spinning, Idle, BusyWith
<1>2. QED
  BY <1>1 DEF IInv, WhileWriting, WhileReading

\* The driver meets an idle or a busy drive and a medium that is not written.
LEMMA InitIInv == ASSUME SectorCount = 1, Init PROVE IInv
<1>1. drive \in {Idle, Spinning} \/ None
  BY DEF Init, None
<1>2. QED
  BY <1>1, SectorAssumption DEF Init, IInv, Typing, WhileWriting, WhileReading, Sectors

-----------------------------------------------------------------------------
(* The drive's steps.                                                      *)

\* No drive, no command.
LEMMA NoDrive ==
  ASSUME None
  PROVE  Absent /\ ~Asking /\ drive.fifo = <<>> /\ drive.cmd = "absent"
BY DEF None, Missing, Idle, Absent, Asking

\* RDY is another variable.
LEMMA ReadinessStep == ASSUME IInv, Readiness PROVE IInv'
<1>1. /\ UNCHANGED <<pc, op, j, i, buf, spoilt, drive, disk>> /\ rdy' \subseteq {"RDY"}
  BY DEF Readiness, driver
<1>2. None' = None /\ GaveUp' = GaveUp /\ Written' = Written /\ Busy' = Busy
  BY <1>1 DEF None, GaveUp, Written, Busy
<1>3. QED
  BY <1>1, <1>2 DEF IInv, Typing, WhileWriting, WhileReading

\* The drive is ready for the first command.
LEMMA SpinUpStep == ASSUME IInv, SpinUp PROVE IInv'
<1>1. drive.cmd = "none" /\ Busy
  BY DEF SpinUp
<1>2. op = "write" /\ pc = "ready" /\ drive = Spinning
  BY <1>1, WhenBusy, NoDrive DEF BusyWith, IInv, Typing
<1>3. QED
  BY <1>2 DEF SpinUp, driver, IInv, Typing, WhileWriting, WhileReading

\* The drive asks for the sector or has it.
LEMMA PresentStep == ASSUME SectorCount = 1, IInv, Present PROVE IInv'
<1>1. Len(bwrite) # 0
  BY SectorType, SectorAssumption
<1>2. pc = "bsy" /\ drive = BusyWith(op, <<>>)
  BY <1>1, WhenBusy, NoDrive DEF Present, BusyWith, Spinning, Idle
<1>3. drive' = AskingWith(op, IF op = "read" THEN disk[1] ELSE <<>>)
  <2>1. op \in {"write", "read"}
    BY DEF IInv, Typing
  <2>2. drive.cmd = op /\ drive.left = 1 /\ SectorCount - drive.left + 1 = 1
    BY <1>2 DEF BusyWith
  <2>3. drive' = [drive EXCEPT !.status = {"DRQ"},
                               !.fifo = IF op = "read" THEN disk[1] ELSE <<>>]
    BY <2>2 DEF Present
  <2>4. QED
    BY <1>2, <2>1, <2>3 DEF BusyWith, AskingWith
<1>4. QED
  BY <1>2, <1>3 DEF Present, driver, IInv, Typing, WhileWriting, WhileReading,
                    GaveUp, None, Written

\* The sector that reaches the medium is the buffer.
LEMMA StoreStep == ASSUME SectorCount = 1, IInv, Store PROVE IInv'
<1>1. /\ drive = BusyWith("write", bwrite)
      /\ \/ op = "write" /\ pc = "transfer" /\ 2 * i >= SectorWords
         \/ op = "read" /\ pc = "ready"
  BY WhenBusy, NoDrive, SectorAssumption DEF Store, BusyWith, Spinning, Idle
<1>2. drive' = Idle /\ disk' = [disk EXCEPT ![1] = bwrite]
  BY <1>1 DEF Store, BusyWith
<1>3. disk' \in [1 .. 1 -> {Old, bwrite}] /\ disk'[1] = bwrite
  BY <1>2 DEF IInv, Typing
<1>4. QED
  BY <1>1, <1>2, <1>3 DEF Store, driver, IInv, Typing, WhileWriting, WhileReading,
                          Written

\* The drive may give up whenever it is busy with a command.
LEMMA AbortStep == ASSUME IInv, Abort PROVE IInv'
<1>1. drive' = Refusing /\ spoilt' = spoilt \cup {"refused"}
  BY DEF Abort, Refusing
<1>2. \/ pc = "bsy"
      \/ op = "write" /\ pc = "transfer"
      \/ op = "read" /\ pc = "ready"
  BY WhenBusy, NoDrive DEF Abort, Spinning, Idle
<1>3. QED
  BY <1>1, <1>2 DEF Abort, IInv, Typing, WhileWriting, WhileReading, GaveUp

-----------------------------------------------------------------------------
(* The driver's steps.                                                     *)

\* A wait that ends has seen the drive, or ones; BSY clear it has seen itself.
LEMMA WaitStep == ASSUME IInv, NEW port, Wait(port) PROVE IInv'
<1>1. CASE pc = "ready" \/ pc = "bsy"
  <2>1. ~Busy
    BY <1>1 DEF Wait, WaitEnds, BsyClear, Status, Busy, Bits
  <2>2. pc' = IF pc = "ready" THEN "command" ELSE "drq"
    BY <1>1 DEF Wait, AfterWait
  <2>3. /\ UNCHANGED <<op, j, i, buf, spoilt, drive, rdy, disk>>
        /\ None' = None /\ GaveUp' = GaveUp /\ Written' = Written /\ Busy' = Busy
    BY DEF Wait, None, GaveUp, Written, Busy
  <2>4. QED
    BY <1>1, <2>1, <2>2, <2>3, WhenNotBusy DEF IInv, Typing, WhileWriting, WhileReading
<1>2. CASE pc = "drq"
  <2>1. pc' = "transfer"
    BY <1>2 DEF Wait, AfterWait
  <2>2. Words(2 * 0) = <<>>
    BY DEF Words
  <2>3. LastWords(disk[1], SectorWords) = disk[1]
    BY SectorType DEF IInv, Typing
  <2>4. QED
    BY <1>2, <2>1, <2>2, <2>3, SectorAssumption
       DEF Wait, IInv, Typing, WhileWriting, WhileReading, GaveUp, None, Written, Busy
<1>3. QED
  BY <1>1, <1>2 DEF Wait

\* A command goes to the drive, or there is none.
LEMMA NoCommand ==
  ASSUME Typing, WhileWriting, WhileReading, pc = "command", Absent
  PROVE  None
<1>1. drive # Idle /\ drive # Refusing
  BY DEF Absent, Idle, Refusing
<1>2. QED
  BY <1>1 DEF Typing, WhileWriting, WhileReading, GaveUp

\* The command finds the drive free.
LEMMA CommandStep == ASSUME SectorCount = 1, IInv, Command PROVE IInv'
<1>1. CASE ~Absent
  <2>1. drive' = BusyWith(op, <<>>)
    BY <1>1 DEF Command, BusyWith
  <2>2. /\ pc = "command" /\ pc' = "bsy" /\ i' = 0 /\ j' = 1 /\ spoilt' = spoilt
        /\ UNCHANGED <<op, buf, rdy, disk>>
    BY <1>1 DEF Command
  <2>3. op = "read" => Written \/ "refused" \in spoilt
    BY <2>2 DEF IInv, WhileReading, GaveUp
  <2>4. QED
    BY <2>1, <2>2, <2>3, SectorAssumption DEF IInv, Typing, WhileWriting, WhileReading, Written
<1>2. CASE Absent
  <2>1. None
    BY <1>2, NoCommand DEF Command, IInv
  <2>2. GaveUp'
    BY <1>2, <2>1 DEF Command, GaveUp, None
  <2>3. /\ pc = "command" /\ pc' = "bsy" /\ i' = 0 /\ j' = 1
        /\ "refused" \in spoilt' /\ spoilt' \subseteq {"hit", "refused"}
        /\ UNCHANGED <<op, buf, rdy, disk>>
    BY <1>2 DEF Command, IInv, Typing
  <2>4. QED
    BY <2>2, <2>3, SectorAssumption DEF IInv, Typing, WhileWriting, WhileReading
<1>3. QED
  BY <1>1, <1>2

\* The counters after a word: the sector goes on, or the transfer ends.
LEMMA Counters ==
  ASSUME SectorCount = 1, Typing, pc = "transfer", NextWord
  PROVE  \/ /\ i + 1 < SectorWords /\ i' = i + 1
            /\ pc' = "transfer" /\ op' = op /\ j' = 1
         \/ /\ i + 1 = SectorWords /\ i' = 0 /\ j' = 2
            /\ \/ op = "write" /\ pc' = "ready" /\ op' = "read"
               \/ op = "read" /\ pc' = "done" /\ op' = "read"
BY SectorAssumption DEF NextWord, Typing

\* A drive that asks takes the two words; other words it does not see.
LEMMA DriveTakes ==
  ASSUME IInv, pc = "transfer", op = "write",
         drive' = Take(Sent(i)), UNCHANGED <<disk, spoilt>>
  PROVE  \/ GaveUp'
         \/ 2 * (i + 1) < SectorWords /\ drive' = AskingWith("write", Words(2 * (i + 1)))
         \/ 2 * (i + 1) >= SectorWords /\ drive' = BusyWith("write", bwrite)
         \/ 2 * (i + 1) >= SectorWords /\ drive' = Idle /\ Written'
<1>1. i \in 0 .. SectorWords - 1 /\ i \in Nat /\ SectorWords \in Nat
  BY SectorAssumption DEF IInv, Typing
<1>2. CASE 2 * i < SectorWords /\ drive = AskingWith("write", Words(2 * i))
  <2>1. Asking /\ drive.fifo = Words(2 * i)
    BY <1>2 DEF Asking, Absent, AskingWith
  <2>2. 2 * Sent(i) - 1 = 2 * i + 1 /\ 2 * Sent(i) = 2 * i + 2
    BY <1>1 DEF Sent
  <2>3. 2 * i \in Nat /\ 2 * (i + 1) = 2 * i + 2
    BY <1>1
  <2>4. drive.fifo \o <<2 * Sent(i) - 1, 2 * Sent(i)>> = Words(2 * (i + 1))
    BY <2>1, <2>2, <2>3, WordsTaken
  <2>5. Len(Words(2 * (i + 1))) = 2 * (i + 1)
    <3>1. 2 * (i + 1) \in Nat
      BY <1>1
    <3>2. QED
      BY <3>1, WordsTaken
  <2>6. drive' = [drive EXCEPT !.fifo = Words(2 * (i + 1)),
                               !.status = IF 2 * (i + 1) = SectorWords
                                            THEN {"BSY"} ELSE @]
    BY <2>1, <2>4, <2>5 DEF Take
  <2>7. CASE 2 * (i + 1) = SectorWords
    <3>1. drive' = BusyWith("write", Words(SectorWords))
      BY <1>2, <2>6, <2>7 DEF AskingWith, BusyWith
    <3>2. 2 * (i + 1) >= SectorWords
      BY <1>1, <2>7
    <3>3. QED
      BY <3>1, <3>2, SectorType
  <2>8. CASE 2 * (i + 1) # SectorWords
    <3>1. 2 * (i + 1) < SectorWords
      BY <1>1, <1>2, <2>8, SectorAssumption
    <3>2. QED
      BY <1>2, <2>6, <2>8, <3>1 DEF AskingWith
  <2>9. QED
    BY <2>7, <2>8
<1>3. CASE ~(2 * i < SectorWords /\ drive = AskingWith("write", Words(2 * i)))
  <2>1. \/ GaveUp
        \/ 2 * i >= SectorWords /\ drive = BusyWith("write", bwrite)
        \/ 2 * i >= SectorWords /\ drive = Idle /\ Written
    BY <1>3 DEF IInv, WhileWriting
  <2>2. ~Asking
    BY <2>1, NoDrive DEF Asking, GaveUp, Refusing, Idle, BusyWith
  <2>3. drive' = drive
    BY <2>2 DEF Take
  <2>4. 2 * i >= SectorWords => 2 * (i + 1) >= SectorWords
    BY <1>1
  <2>5. QED
    BY <2>1, <2>3, <2>4 DEF GaveUp, None, Written
<1>4. QED
  BY <1>2, <1>3

\* Of what write_sectors_ATA_PIO sends the drive has the first half.
LEMMA WriteStep == ASSUME SectorCount = 1, IInv, write_sectors_ATA_PIO PROVE IInv'
<1>1. pc = "transfer" /\ op = "write" /\ NextWord /\ UNCHANGED <<buf, rdy, disk, spoilt>>
  BY DEF write_sectors_ATA_PIO
<1>2. \/ GaveUp'
      \/ 2 * (i + 1) < SectorWords /\ drive' = AskingWith("write", Words(2 * (i + 1)))
      \/ 2 * (i + 1) >= SectorWords /\ drive' = BusyWith("write", bwrite)
      \/ 2 * (i + 1) >= SectorWords /\ drive' = Idle /\ Written'
  BY DriveTakes DEF write_sectors_ATA_PIO
<1>3. buf = <<>> /\ Typing
  BY <1>1 DEF IInv, WhileWriting
<1>4. i \in Nat /\ SectorWords \in Nat /\ SectorWords > 0
  BY SectorAssumption DEF IInv, Typing
<1>5. CASE i + 1 < SectorWords /\ i' = i + 1
           /\ pc' = "transfer" /\ op' = op /\ j' = 1
  <2>1. Typing'
    BY <1>1, <1>3, <1>4, <1>5 DEF Typing
  <2>2. WhileWriting'
    BY <1>1, <1>2, <1>3, <1>4, <1>5 DEF WhileWriting
  <2>3. WhileReading'
    BY <1>1, <1>5 DEF WhileReading
  <2>4. QED
    BY <2>1, <2>2, <2>3 DEF IInv
<1>6. CASE i + 1 = SectorWords /\ i' = 0 /\ j' = 2 /\ pc' = "ready" /\ op' = "read"
  <2>1. Typing'
    BY <1>1, <1>3, <1>4, <1>6 DEF Typing
  <2>2. WhileWriting'
    BY <1>6 DEF WhileWriting
  <2>3. 2 * (i + 1) >= SectorWords
    BY <1>4, <1>6
  <2>4. GaveUp' \/ drive' = BusyWith("write", bwrite) \/ (drive' = Idle /\ Written')
    BY <1>2, <1>4, <2>3
  <2>5. WhileReading'
    BY <1>1, <1>3, <1>6, <2>4 DEF WhileReading
  <2>6. QED
    BY <2>1, <2>2, <2>5 DEF IInv
<1>7. QED
  BY <1>1, <1>3, <1>5, <1>6, Counters

\* A word that is read comes from the words the drive has left; a read that is
\* hit leaves the drive alone.
LEMMA DriveGives ==
  ASSUME IInv, NEW port, read_sectors_ATA_PIO(port)
  PROVE  /\ \/ GaveUp'
            \/ \E n \in SectorWords - (i + 1) .. SectorWords :
                 /\ n > 0 /\ drive' = AskingWith("read", LastWords(disk[1], n))
                 /\ spoilt' = {} => n = SectorWords - (i + 1)
            \/ i + 1 = SectorWords /\ drive' = Idle
         /\ \E word \in -1 .. SectorWords :
              /\ buf' = Append(buf, word)
              /\ spoilt' = {} => word = disk[1][i + 1]
<1> DEFINE word == IF port = "dead" \/ drive.fifo = <<>> THEN NoData
                   ELSE Head(drive.fifo)
<1>1. /\ pc = "transfer" /\ op = "read" /\ buf' = Append(buf, word)
      /\ drive' = IF port = "dead" THEN drive ELSE Give
      /\ spoilt' = IF port = "dead" THEN spoilt \cup {"hit"} ELSE spoilt
  BY DEF read_sectors_ATA_PIO, Stored
<1>2. /\ i \in 0 .. SectorWords - 1 /\ SectorWords \in Nat
      /\ disk[1] \in {Old, bwrite}
  BY SectorAssumption DEF IInv, Typing
<1>3. CASE GaveUp
  <2>1. ~Asking /\ drive.fifo = <<>>
    BY <1>3, NoDrive DEF Asking, GaveUp, Refusing, Idle
  <2>2. drive' = drive /\ word = NoData /\ "refused" \in spoilt'
    BY <1>1, <1>3, <2>1 DEF Give, GaveUp
  <2>3. GaveUp'
    BY <1>3, <2>2 DEF GaveUp, None
  <2>4. NoData \in -1 .. SectorWords /\ spoilt' # {}
    BY <1>2, <2>2 DEF NoData
  <2>5. QED
    BY <1>1, <2>2, <2>3, <2>4
<1>4. CASE ~GaveUp
  <2>1. PICK n \in SectorWords - i .. SectorWords :
          /\ drive = AskingWith("read", LastWords(disk[1], n))
          /\ spoilt = {} => n = SectorWords - i
    BY <1>1, <1>4 DEF IInv, WhileReading
  <2>2. n \in 1 .. SectorWords /\ n \in SectorWords - (i + 1) .. SectorWords
    BY <1>2
  <2> DEFINE fifo == LastWords(disk[1], n)
  <2>3. /\ fifo \in Seq(0 .. SectorWords) /\ Len(fifo) = n
        /\ Head(fifo) = disk[1][SectorWords - n + 1]
        /\ n > 1 => Tail(fifo) = LastWords(disk[1], n - 1)
    BY <1>2, <2>2, WordGiven
  <2> HIDE DEF fifo
  <2>4. Asking /\ drive.fifo = fifo /\ drive.left = 1
    BY <2>1 DEF Asking, Absent, AskingWith, fifo
  <2>5. fifo # <<>> /\ Head(fifo) \in 0 .. SectorWords
    <3>1. fifo # <<>>
      BY <2>2, <2>3
    <3>2. SectorWords - n + 1 \in 1 .. SectorWords
      BY <1>2, <2>2
    <3>3. \A w \in 1 .. SectorWords : disk[1][w] \in 0 .. SectorWords
      BY <1>2 DEF Old, bwrite
    <3>4. QED
      BY <2>3, <3>1, <3>2, <3>3
  <2>6. CASE port = "dead"
    <3>1. drive' = drive /\ spoilt' # {} /\ word = NoData
      BY <1>1, <2>6
    <3>2. NoData \in -1 .. SectorWords
      BY <1>2 DEF NoData
    <3>3. /\ n > 0 /\ drive' = AskingWith("read", LastWords(disk[1], n))
          /\ spoilt' = {} => n = SectorWords - (i + 1)
      BY <2>1, <2>2, <3>1
    <3>4. \E m \in -1 .. SectorWords :
            /\ buf' = Append(buf, m)
            /\ spoilt' = {} => m = disk[1][i + 1]
      BY <1>1, <3>1, <3>2
    <3>5. QED
      BY <2>2, <3>3, <3>4
  <2>7. CASE port # "dead"
    <3>1. word = Head(fifo) /\ spoilt' = spoilt /\ drive' = Give
      BY <1>1, <2>4, <2>5, <2>7
    <3>2. word \in -1 .. SectorWords
      BY <1>2, <2>5, <3>1
    <3>3. spoilt' = {} => word = disk[1][i + 1]
      <4>1. n = SectorWords - i => SectorWords - n + 1 = i + 1
        BY <1>2
      <4>2. QED
        BY <2>1, <2>3, <3>1, <4>1
    <3>4. CASE n > 1
      <4>1. drive' = [drive EXCEPT !.fifo = LastWords(disk[1], n - 1)]
        BY <2>3, <2>4, <3>1, <3>4 DEF Give
      <4>2. drive' = AskingWith("read", LastWords(disk[1], n - 1))
        BY <2>1, <4>1 DEF AskingWith
      <4>3. /\ n - 1 \in SectorWords - (i + 1) .. SectorWords /\ n - 1 > 0
            /\ n = SectorWords - i => n - 1 = SectorWords - (i + 1)
        BY <1>2, <2>2, <3>4
      <4>4. QED
        BY <1>1, <2>1, <3>1, <3>2, <3>3, <4>2, <4>3
    <3>5. CASE n = 1
      <4>1. drive' = Idle
        BY <2>3, <2>4, <3>1, <3>5 DEF Give
      <4>2. i + 1 = SectorWords
        BY <1>2, <3>5
      <4>3. QED
        BY <1>1, <3>2, <3>3, <4>1, <4>2
    <3>6. QED
      BY <2>2, <3>4, <3>5
  <2>8. QED
    BY <2>6, <2>7
<1>5. QED
  BY <1>3, <1>4

\* What read_sectors_ATA_PIO has stored are the first words of the sector.
LEMMA ReadStep ==
  ASSUME SectorCount = 1, IInv, NEW port, read_sectors_ATA_PIO(port)
  PROVE  IInv'
<1>1. /\ pc = "transfer" /\ op = "read" /\ NextWord /\ UNCHANGED <<rdy, disk>>
      /\ spoilt' \in {spoilt, spoilt \cup {"hit"}}
  BY DEF read_sectors_ATA_PIO
<1>2. /\ i \in 0 .. SectorWords - 1 /\ SectorWords \in Nat /\ SectorWords > 0
      /\ buf \in Seq(-1 .. SectorWords) /\ Len(buf) = i /\ Typing
      /\ Written \/ "refused" \in spoilt
      /\ spoilt = {} => \A w \in 1 .. i : buf[w] = disk[1][w]
  BY <1>1, SectorAssumption DEF IInv, Typing, WhileReading
<1>3. PICK word \in -1 .. SectorWords :
        /\ buf' = Append(buf, word)
        /\ spoilt' = {} => word = disk[1][i + 1]
  BY DriveGives
<1>4. /\ buf' \in Seq(-1 .. SectorWords) /\ Len(buf') = i + 1
      /\ spoilt' = {} => \A w \in 1 .. i + 1 : buf'[w] = disk[1][w]
  <2>1. buf' \in Seq(-1 .. SectorWords) /\ Len(buf') = i + 1
    BY <1>2, <1>3
  <2>2. ASSUME spoilt' = {}, NEW w \in 1 .. i + 1 PROVE buf'[w] = disk[1][w]
    <3>1. spoilt = {}
      BY <1>1, <2>2
    <3>2. CASE w = i + 1
      BY <1>2, <1>3, <2>2, <3>2
    <3>3. CASE w \in 1 .. i
      BY <1>2, <1>3, <3>1, <3>3
    <3>4. QED
      BY <1>2, <3>2, <3>3
  <2>3. QED
    BY <2>1, <2>2
<1>5. Written' \/ "refused" \in spoilt'
  BY <1>1, <1>2 DEF Written
<1>6. CASE i + 1 < SectorWords /\ i' = i + 1
           /\ pc' = "transfer" /\ op' = op /\ j' = 1
  <2>1. Typing'
    BY <1>1, <1>2, <1>4, <1>6 DEF Typing
  <2>2. WhileWriting'
    BY <1>1, <1>6 DEF WhileWriting
  <2>3. \/ GaveUp'
        \/ \E n \in SectorWords - (i + 1) .. SectorWords :
             /\ drive' = AskingWith("read", LastWords(disk[1], n))
             /\ spoilt' = {} => n = SectorWords - (i + 1)
    BY <1>2, <1>6, DriveGives
  <2>4. WhileReading'
    BY <1>1, <1>4, <1>5, <1>6, <2>3 DEF WhileReading, LastWords, AskingWith
  <2>5. QED
    BY <2>1, <2>2, <2>4 DEF IInv
<1>7. CASE i + 1 = SectorWords /\ i' = 0 /\ j' = 2 /\ pc' = "done" /\ op' = "read"
  <2>1. Typing'
    <3>1. j' \in 1 .. 2 /\ i' \in 0 .. SectorWords - 1
      BY <1>2, <1>7
    <3>2. /\ spoilt' \subseteq {"hit", "refused"} /\ disk' \in [1 .. 1 -> {Old, bwrite}]
          /\ rdy' \subseteq {"RDY"}
      BY <1>1, <1>2 DEF Typing
    <3>3. QED
      BY <1>4, <1>7, <3>1, <3>2 DEF Typing
  <2>2. WhileWriting'
    BY <1>7 DEF WhileWriting
  <2>3. \/ GaveUp'
        \/ drive' = Idle
        \/ \E n \in 1 .. SectorWords :
             drive' = AskingWith("read", LastWords(disk[1], n))
    BY <1>2, <1>7, DriveGives
  <2>4. WhileReading'
    BY <1>1, <1>4, <1>5, <1>7, <2>3 DEF WhileReading, LastWords, AskingWith
  <2>5. QED
    BY <2>1, <2>2, <2>4 DEF IInv
<1>8. QED
  BY <1>1, <1>2, <1>6, <1>7, Counters

-----------------------------------------------------------------------------
(* The theorems.                                                           *)

\* Every step keeps the invariant.
LEMMA Invariance == ASSUME SectorCount = 1 PROVE Spec => []IInv
<1>1. Init => IInv
  BY InitIInv
<1>2. IInv /\ [Next]_vars => IInv'
  <2> SUFFICES ASSUME IInv, [Next]_vars PROVE IInv'
    OBVIOUS
  <2>1. CASE UNCHANGED vars
    BY <2>1 DEF vars, driver, IInv, Typing, WhileWriting, WhileReading, GaveUp, None, Written, Busy
  <2>2. CASE Drive
    BY <2>2, ReadinessStep, SpinUpStep, PresentStep, StoreStep, AbortStep DEF Drive
  <2>3. CASE Step
    BY <2>3, WaitStep, CommandStep, WriteStep, ReadStep DEF Step
  <2>4. CASE Hit
    BY <2>4, WaitStep, ReadStep DEF Hit
  <2>5. QED
    BY <2>1, <2>2, <2>3, <2>4 DEF Next, Done
<1>3. QED
  BY <1>1, <1>2, PTL DEF Spec

\* The loop counters stay in the sector and the drive's buffer never overflows,
\* although write_sectors_ATA_PIO sends twice what it holds.
THEOREM Typed == ASSUME SectorCount = 1 PROVE Spec => []TypeOK
<1>1. ASSUME IInv PROVE TypeOK
  <2>1. /\ pc \in {"ready", "command", "bsy", "drq", "transfer", "done"}
        /\ op \in {"write", "read"} /\ spoilt \subseteq {"hit", "refused"}
        /\ rdy \subseteq {"RDY"}
        /\ j \in 1 .. SectorCount + 1 /\ i \in 0 .. SectorWords - 1
    BY <1>1 DEF IInv, Typing
  <2>2. buf \in Seq(-1 .. 4 * SectorWords)
    BY <1>1, SectorAssumption DEF IInv, Typing
  <2>3. Len(buf) <= SectorCount * SectorWords
    <3>1. Len(buf) \in 0 .. SectorWords
      <4>1. CASE op = "write"
        BY <1>1, <4>1, SectorAssumption DEF IInv, WhileWriting
      <4>2. CASE op = "read"
        BY <1>1, <2>1, <4>2, SectorAssumption DEF IInv, WhileReading
      <4>3. QED
        BY <2>1, <4>1, <4>2
    <3>2. QED
      BY <3>1, SectorAssumption
  <2>4. /\ drive.status \subseteq Bits
        /\ drive.cmd \in {"none", "read", "write", "absent"} /\ drive.left \in 0 .. 1
        /\ Len(drive.fifo) <= SectorWords
    <3> DEFINE Sound(d) ==
          /\ d.status \subseteq Bits
          /\ d.cmd \in {"none", "read", "write", "absent"} /\ d.left \in 0 .. 1
          /\ Len(d.fifo) <= SectorWords
    <3>1. /\ Sound(Idle) /\ Sound(Spinning) /\ Sound(Refusing)
          /\ \A bits \in SUBSET Bits : Sound(Missing(bits))
      BY SectorAssumption DEF Idle, Spinning, Refusing, Missing, Bits
    <3>2. ASSUME NEW c \in {"read", "write"}, NEW f, Len(f) <= SectorWords
          PROVE  Sound(BusyWith(c, f)) /\ Sound(AskingWith(c, f))
      BY <3>2 DEF BusyWith, AskingWith, Bits
    <3>3. Len(<<>>) <= SectorWords
      BY SectorAssumption
    <3>4. Len(bwrite) <= SectorWords /\ Len(disk[1]) <= SectorWords
      BY <1>1, SectorType, SectorAssumption DEF IInv, Typing
    <3>5. \A n \in 1 .. SectorWords : Len(LastWords(disk[1], n)) <= SectorWords
      <4>1. disk[1] \in {Old, bwrite}
        BY <1>1 DEF IInv, Typing
      <4>2. \A n \in 1 .. SectorWords : n <= SectorWords
        BY SectorAssumption
      <4>3. QED
        BY <4>1, <4>2, WordGiven
    <3>6. ASSUME 2 * i < SectorWords PROVE Len(Words(2 * i)) <= SectorWords
      <4>1. 2 * i \in Nat
        BY <2>1, SectorAssumption
      <4>2. Len(Words(2 * i)) = 2 * i
        BY <4>1, WordsTaken
      <4>3. QED
        BY <3>6, <4>1, <4>2, SectorAssumption
    <3> HIDE DEF Sound
    <3>7. ASSUME op = "write" PROVE Sound(drive)
      BY <1>1, <2>1, <3>1, <3>2, <3>3, <3>4, <3>6, <3>7 DEF IInv, WhileWriting, GaveUp, None
    <3>8. ASSUME op = "read" PROVE Sound(drive)
      <4>1. \A n \in SectorWords - i .. SectorWords : n \in 1 .. SectorWords
        BY <2>1, SectorAssumption
      <4>2. QED
        BY <1>1, <2>1, <3>1, <3>2, <3>3, <3>4, <3>5, <3>8, <4>1
           DEF IInv, WhileReading, GaveUp, None
    <3>9. Sound(drive)
      BY <2>1, <3>7, <3>8
    <3>10. QED
      BY <3>9 DEF Sound
  <2>5. QED
    BY <2>1, <2>2, <2>3, <2>4 DEF TypeOK
<1>2. QED
  BY <1>1, Invariance, PTL

\* The command registers are only written while the drive is free, and the data
\* port is only used once it asks: ATA_wait_BSY does what ATA_wait_DRQ does not.
THEOREM DriveReady == ASSUME SectorCount = 1 PROVE Spec => []DriveIsReady
<1>1. ASSUME IInv PROVE DriveIsReady
  <2>1. /\ None => ~Asking /\ drive.cmd = "absent"
        /\ drive = Idle \/ drive = Refusing => ~Busy /\ ~Asking /\ drive.cmd = "none"
        /\ \A f : \A c \in {"read", "write"} : drive = AskingWith(c, f) => Asking
    BY NoDrive DEF Busy, Asking, Absent, AskingWith, Idle, Refusing
  <2>2. CASE op = "write"
    BY <1>1, <2>1, <2>2, SectorAssumption DEF IInv, WhileWriting, DriveIsReady, GaveUp
  <2>3. CASE op = "read"
    BY <1>1, <2>1, <2>3, SectorAssumption DEF IInv, WhileReading, DriveIsReady, GaveUp
  <2>4. QED
    BY <1>1, <2>2, <2>3 DEF IInv, Typing
<1>2. QED
  BY <1>1, Invariance, PTL

\* No word behind the buffer of write_sectors_ATA_PIO reaches the medium.
THEOREM MediumHoldsBuffer ==
  ASSUME SectorCount = 1 PROVE Spec => []OnlyBufferReachesMedium
<1>1. ASSUME IInv PROVE OnlyBufferReachesMedium
  BY <1>1 DEF IInv, Typing, OnlyBufferReachesMedium, Sectors
<1>2. QED
  BY <1>1, Invariance, PTL

\* What read_sectors_ATA_PIO reads is what was written, unless the drive refused
\* or an interrupt fell into an io_in16.
THEOREM ReadsBack == ASSUME SectorCount = 1 PROVE Spec => []ReadsBackWritten
<1>1. ASSUME IInv, pc = "done", spoilt = {}
      PROVE  /\ disk = [s \in Sectors |-> bwrite]
             /\ \A s \in Sectors :
                  SubSeq(buf, (s - 1) * SectorWords + 1, s * SectorWords) = bwrite
  <2>1. /\ op = "read" /\ disk \in [1 .. 1 -> {Old, bwrite}]
        /\ buf \in Seq(-1 .. SectorWords)
    BY <1>1 DEF IInv, Typing, WhileWriting
  <2>2. /\ disk[1] = bwrite /\ Len(buf) = SectorWords
        /\ \A w \in 1 .. SectorWords : buf[w] = disk[1][w]
    BY <1>1, <2>1 DEF IInv, WhileReading, Written
  <2>3. disk = [s \in Sectors |-> bwrite]
    BY <2>1, <2>2 DEF Sectors
  <2>4. buf = bwrite
    BY <2>1, <2>2, SectorType, SeqEqual
  <2>5. SubSeq(buf, (1 - 1) * SectorWords + 1, 1 * SectorWords) = bwrite
    <3>1. (1 - 1) * SectorWords + 1 = 1 /\ 1 * SectorWords = SectorWords
      BY SectorAssumption
    <3>2. SubSeq(buf, 1, SectorWords) = buf
      BY <2>1, <2>2, SectorAssumption
    <3>3. QED
      BY <2>4, <3>1, <3>2
  <2>6. \A s \in Sectors : s = 1
    BY DEF Sectors
  <2>7. QED
    BY <2>3, <2>5, <2>6
<1>2. QED
  BY <1>1, Invariance, PTL DEF ReadsBackWritten
=============================================================================
