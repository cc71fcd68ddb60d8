-------------------------------- MODULE Ata --------------------------------
(***************************************************************************)
(* The polled ATA driver of HelloOS (drivers/ata/ata.c): ata_init writes   *)
(* sector 0 and reads it back, with interrupts already enabled.  The drive *)
(* is external, modelled from how the code uses it; there may be none, and *)
(* then what the port of the status register reads as is arbitrary.        *)
(*                                                                         *)
(* A datum is the number of a 16-bit word: word w of the sector that the   *)
(* buffer bwrite describes is w, a word of the stack behind bwrite has a   *)
(* number above SectorWords.  The buffer holds half as many 32-bit words   *)
(* as a sector has 16-bit words.  read_sectors_ATA_PIO gets the low 32     *)
(* bits of the address of buf, which is the same memory (MappedTwice of    *)
(* BootTables).                                                            *)
(*                                                                         *)
(* The kernel is built with a red zone (no -mno-red-zone) and interrupts   *)
(* push their frame on the same stack (IST 0).  The stack is 8 off a       *)
(* multiple of 16 in leaf functions, so the processor skips 8 bytes before *)
(* it pushes: of what io_in8, io_in16 and io_out8 keep below rsp, only the *)
(* argument port of the first two lies in the frame.  An interrupt between *)
(* its store and its load turns it into a port that no device decodes.     *)
(***************************************************************************)
EXTENDS Integers, Sequences

CONSTANTS
  SectorWords,  \* 16-bit words in a sector (256)
  SectorCount   \* sectors per transfer (ata_init asks for 1)

ASSUME SectorAssumption ==
  SectorWords \in Nat /\ SectorWords > 0 /\ SectorWords % 2 = 0
ASSUME CountAssumption == SectorCount \in Nat \ {0}

VARIABLES
  pc,     \* where the driver is
  op,     \* which transfer runs: "write", then "read"
  j, i,   \* the loop counters of the two transfers
  buf,    \* what the read transfer stored at target
  drive,  \* status bits, command, sectors left, words in its buffer
  rdy,    \* STATUS_RDY, if it is set: a drive need not be ready
  disk,   \* the sectors of the medium from LBA 0 on
  spoilt  \* history: "hit" an io_in16 lost its port, "refused" no drive did it

driver == <<pc, op, j, i, buf, spoilt>>
vars == <<driver, drive, rdy, disk>>

\* sector n of what write_sectors_ATA_PIO is asked to write: the pointer does
\* not advance, every sector is the same buffer
bwrite == [w \in 1 .. SectorWords |-> w]
Old == [w \in 1 .. SectorWords |-> 0]            \* what was on the medium
NoData == -1                                     \* 0xffff of a dead port

Sectors == 1 .. SectorCount

Idle == [status |-> {}, cmd |-> "none", left |-> 0, fifo |-> <<>>]
Spinning == [Idle EXCEPT !.status = {"BSY"}]
Missing(bits) == [Idle EXCEPT !.status = bits, !.cmd = "absent"]
Bits == {"BSY", "DRQ", "ERR"}

Init ==
  /\ pc = "ready" /\ op = "write" /\ j = 1 /\ i = 0
  /\ buf = <<>> /\ spoilt = {}
  /\ drive \in {Idle, Spinning} \cup {Missing(b) : b \in SUBSET Bits}
  /\ rdy \in SUBSET {"RDY"}
  /\ disk = [s \in Sectors |-> Old]

-----------------------------------------------------------------------------
(* The drive.                                                              *)

Busy == "BSY" \in drive.status
Absent == drive.cmd = "absent"
Asking == ~Absent /\ "DRQ" \in drive.status

\* It raises and drops RDY as it likes, and no one makes it ready.
Readiness ==
  /\ rdy' \in {{}, {"RDY"}} \ {rdy}
  /\ UNCHANGED <<driver, drive, disk>>

\* it has finished what it was doing before the command
SpinUp ==
  /\ Busy /\ drive.cmd = "none"
  /\ drive' = Idle
  /\ UNCHANGED <<driver, rdy, disk>>

\* the next sector is in the buffer, or the drive can take one
Present ==
  /\ Busy /\ drive.cmd \in {"read", "write"} /\ Len(drive.fifo) = 0
  /\ rdy # {}
  /\ drive' = [drive EXCEPT
       !.status = {"DRQ"},
       !.fifo = IF drive.cmd = "read" THEN disk[SectorCount - drive.left + 1]
                                      ELSE <<>>]
  /\ UNCHANGED <<driver, rdy, disk>>

\* a sector it was given is full: it goes to the medium
Store ==
  /\ Busy /\ drive.cmd = "write" /\ Len(drive.fifo) = SectorWords
  /\ disk' = [disk EXCEPT ![SectorCount - drive.left + 1] = drive.fifo]
  /\ drive' = IF drive.left = 1 THEN Idle
              ELSE [drive EXCEPT !.left = @ - 1, !.fifo = <<>>,
                                 !.status = {"DRQ"}]
  /\ UNCHANGED <<driver, rdy>>

\* it gives the command up: BSY clear, ERR set, no data
Abort ==
  /\ Busy /\ drive.cmd \in {"read", "write"}
  /\ drive' = [Idle EXCEPT !.status = {"ERR"}]
  /\ spoilt' = spoilt \cup {"refused"}
  /\ UNCHANGED <<pc, op, j, i, buf, rdy, disk>>

\* io_out32: a drive that does not ask ignores the data
Take(dword) ==
  LET fifo == drive.fifo \o <<2 * dword - 1, 2 * dword>> IN
  IF ~Asking THEN drive
  ELSE [drive EXCEPT !.fifo = fifo,
                     !.status = IF Len(fifo) = SectorWords
                                  THEN {"BSY"} ELSE @]

\* io_in16: the word goes out; with the last one the sector is done
Give ==
  IF ~Asking THEN drive
  ELSE IF Len(drive.fifo) > 1 THEN [drive EXCEPT !.fifo = Tail(@)]
  ELSE IF drive.left = 1 THEN Idle
  ELSE [drive EXCEPT !.fifo = <<>>, !.left = @ - 1, !.status = {"BSY"}]

-----------------------------------------------------------------------------
(* The driver.                                                             *)

\* io_in8(0x1F7): a dead port reads as ones
Status(port) ==
  IF port = "dead" THEN Bits \cup {"RDY"} ELSE drive.status \cup rdy

\* while(io_in8(0x1F7)&STATUS_BSY)
BsyClear(status) == "BSY" \notin status

\* Faulty variant of DrqSet: STATUS_DRQ is tested, and nothing else.
DrqSet_Only(status) == "DRQ" \in status
\* while(!(io_in8(0x1F7)&STATUS_RDY)), in a function called wait_DRQ
DrqSet(status) == "RDY" \in status

\* Faulty variant of WaitEnds: ATA_wait_BSY behind the command is left out.
WaitEnds_NoBsy(status) ==
  pc = "bsy" \/ IF pc = "drq" THEN DrqSet(status) ELSE BsyClear(status)
\* the test of the wait that pc is in
WaitEnds(status) == IF pc = "drq" THEN DrqSet(status) ELSE BsyClear(status)

AfterWait == CASE pc = "ready" -> "command" [] pc = "bsy" -> "drq"
               [] pc = "drq" -> "transfer"

\* ATA_wait_BSY before the command and before a sector, ATA_wait_DRQ
Wait(port) ==
  /\ pc \in {"ready", "bsy", "drq"}
  /\ WaitEnds(Status(port))
  /\ pc' = AfterWait
  /\ UNCHANGED <<op, j, i, buf, spoilt, drive, rdy, disk>>

\* LBA, sector count and command 0x30 or 0x20
Command ==
  /\ pc = "command"
  /\ IF Absent
       THEN spoilt' = spoilt \cup {"refused"} /\ UNCHANGED drive
       ELSE /\ drive' = [status |-> {"BSY"}, cmd |-> op, left |-> SectorCount,
                         fifo |-> <<>>]
            /\ UNCHANGED spoilt
  /\ j' = 1 /\ i' = 0 /\ pc' = "bsy"
  /\ UNCHANGED <<op, buf, rdy, disk>>

\* end of the inner loop: next sector, next transfer, or ata_init prints
NextWord ==
  IF i + 1 < SectorWords
    THEN i' = i + 1 /\ UNCHANGED <<pc, op, j>>
    ELSE /\ i' = 0 /\ j' = j + 1
         /\ \/ j < SectorCount /\ pc' = "bsy" /\ UNCHANGED op
            \/ j = SectorCount /\ op = "write" /\ pc' = "ready" /\ op' = "read"
            \/ j = SectorCount /\ op = "read" /\ pc' = "done" /\ UNCHANGED op

\* Faulty variant of Sent: the buffer is read from its second word on.
Sent_Off(n) == n + 2
\* bytes[n]: 256 words of 32 bits are sent, the buffer holds 128
Sent(n) == n + 1

write_sectors_ATA_PIO ==
  /\ pc = "transfer" /\ op = "write"
  /\ drive' = Take(Sent(i))
  /\ NextWord
  /\ UNCHANGED <<buf, rdy, disk, spoilt>>

\* Faulty variants of Stored: the words come back in the wrong order; target
\* advances by 32 bits for each word of 16.
Stored_Reversed(words, word) == <<word>> \o words
Stored_Wide(words, word) == words \o <<word, word>>
\* target[i] = ...; target += 256 after a sector
Stored(words, word) == Append(words, word)

read_sectors_ATA_PIO(port) ==
  /\ pc = "transfer" /\ op = "read"
  /\ buf' = Stored(buf, IF port = "dead" \/ drive.fifo = <<>> THEN NoData
                        ELSE Head(drive.fifo))
  /\ drive' = IF port = "dead" THEN drive ELSE Give
  /\ spoilt' = IF port = "dead" THEN spoilt \cup {"hit"} ELSE spoilt
  /\ NextWord
  /\ UNCHANGED <<rdy, disk>>

Step == Wait("0x1F7") \/ Command \/ write_sectors_ATA_PIO
        \/ read_sectors_ATA_PIO("0x1F0")

\* an interrupt hits the saved port of io_in8 or io_in16
Hit == Wait("dead") \/ read_sectors_ATA_PIO("dead")

\* kernel_start goes on with task_init
Done == pc = "done" /\ UNCHANGED vars

Drive == Readiness \/ SpinUp \/ Present \/ Store \/ Abort

Next == Drive \/ Step \/ Hit \/ Done

(* The timer's period is far longer than an access to a port, so not every *)
(* access is hit.  Nothing is asked of the drive.                          *)
Fairness == SF_vars(Step)

Spec == Init /\ [][Next]_vars /\ Fairness

-----------------------------------------------------------------------------
(* Properties.                                                             *)

\* The driver's counters stay in the sector, the drive's buffer never
\* overflows although twice its size is sent.
TypeOK ==
  /\ pc \in {"ready", "command", "bsy", "drq", "transfer", "done"}
  /\ op \in {"write", "read"}
  /\ j \in 1 .. SectorCount + 1 /\ i \in 0 .. SectorWords - 1
  /\ buf \in Seq(-1 .. 4 * SectorWords)
  /\ Len(buf) <= SectorCount * SectorWords
  /\ drive.status \subseteq Bits /\ rdy \subseteq {"RDY"}
  /\ drive.cmd \in {"none", "read", "write", "absent"} /\ drive.left \in 0 .. SectorCount
  /\ Len(drive.fifo) <= SectorWords
  /\ spoilt \subseteq {"hit", "refused"}

\* A command is only written to a drive that is neither busy nor in the
\* middle of a data transfer, although the write transfer leaves as soon as it
\* has sent its words and the status is read with interrupts on.
\* ATA_wait_DRQ ('Wait fot drq to be 1') tests STATUS_RDY, which says nothing of
\* DRQ, and an interrupt can make either wait see ones.  Still a sector is
\* only sent or read when the drive asks for it, unless there is none or it
\* gave the command up: the ATA_wait_BSY in front does the work of both.
DriveIsReady ==
  /\ pc = "command" => ~Busy /\ ~Asking /\ drive.cmd \in {"none", "absent"}
  /\ pc = "transfer" /\ i = 0 => Asking \/ "refused" \in spoilt

\* write_sectors_ATA_PIO sends twice a sector: what follows the buffer on the
\* stack never reaches the medium, a sector is as it was or as bwrite has it.
OnlyBufferReachesMedium == \A s \in Sectors : disk[s] \in {Old, bwrite}

\* What ata_init prints is sector 0 unless no drive did it or an interrupt
\* fell into an io_in16: the poll before the command and the poll before the
\* data are enough to order the two transfers.
ReadsBackWritten ==
  pc = "done" /\ spoilt = {} =>
    /\ disk = [s \in Sectors |-> bwrite]
    /\ \A s \in Sectors :
         SubSeq(buf, (s - 1) * SectorWords + 1, s * SectorWords) = bwrite

\* The waits have no timeout: ATA_wait_BSY waits for ever for a drive that stays
\* busy, ATA_wait_DRQ for one that never gets ready.  These two are all that can
\* keep ata_init from returning, whatever else the drive does or does not do: a
\* drive that aborts the command, drops RDY for a while or is missing does not.
AtaInitReturns == <>(pc = "done") \/ <>[]Busy \/ <>[](rdy = {})
=============================================================================
