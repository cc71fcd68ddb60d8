# HelloOS in TLA+

HelloOS is an experimental x86-64 kernel: GRUB loads it, it sets up a bitmap
page manager, a text console, interrupts through a pair of 8259A controllers,
a keyboard driver, a polled ATA driver, and then forks one thread that enters
user mode and makes one system call. This directory holds TLA+ models of its
parts, what TLC checks about them on small instances, and what TLAPS proves
for every value of the constants. `PROJECT.json` lists components, runs,
faulty variants, the source lines every definition stands for, the findings,
the hazards and the theorems.

## The system: components, state, operations

| component | source | state | operations | what is hard |
|---|---|---|---|---|
| page manager | `mm/mm.c`, `mm/alloc.c` | bitmap, page descriptors, zones with unsigned counters | `init_memory`, `page_init`, `alloc_pages` | off-by-one at word boundaries, memory next to the structures, pages initialised twice |
| console | `kernel/printk/printk.c` | global cursor, video memory | `clear_screen`, `print` | used from interrupt handlers and from interrupted code without a lock |
| printf | `kernel/printk/printk.c` | a 512-byte buffer | `vsprintf`, `number` | signedness, width, buffer length |
| interrupts | `kernel/irq/irq.c` | 8259A request and service registers, IF | `init_interrupt`, `do_IRQ` | end-of-interrupt protocol, priority, edges |
| keyboard | `drivers/keyboard/keyboard.c` | shift flags, 8042 buffer | `keyboard_handler`, `parse_keycode` | order and pairing of scan codes |
| kernel entry and exit | `kernel/entry.S`, `kernel/irq/irq.c`, `include/ptrace.h` | registers, stacks | `Build_IRQ`, `ret_from_intr`, `system_call`, `ret_system_call` | push, pop and offset lists that must agree, interrupts in between |
| tasks | `kernel/sched/task.c`, `include/task.h` | task list, thread state, TSS, sysenter MSRs | `do_fork`, `switch_to`, `init`, `do_execve` | stacks that are shared or switched too late, alignment of `current` |
| system calls | `kernel/syscall/syscall.c` | table | `system_call_function` | number out of the table |
| ATA | `drivers/ata/ata.c` | drive status | `read_sectors_ATA_PIO`, `write_sectors_ATA_PIO` | unbounded waits, status bits, transfer size |
| boot | `arch/x86/boot/multiboot2.S`, `include/gate.h` | page tables, GDT, IDT, TSS | straight-line start-up, `set_intr_gate`, `set_tss64` | two addresses for the same table, pieces of addresses cut at different bits |
| kernel start | `kernel/kernel.c` | tag and entry pointers, E820 map | `kernel_start`, `parse_sys_info`, `_init_memory` | tag and entry sizes, the map's size |

How they interact. `kernel_start` calls the initialisers in order and never
returns. From `sti` in `init_interrupt` on, an interrupt may come between any
two instructions outside handlers; handlers run with interrupts off because
the gates are interrupt gates. `do_IRQ` prints through the same console as the
code it interrupts. `do_fork` takes its stack from the page manager. The init
thread reaches user mode by letting `ret_system_call` take down a frame that
`do_execve` filled.

## Modules

| module | models |
|---|---|
| `PageAlloc` | `init_memory`, `construct_mem_struct`, `page_init`, `alloc_pages` |
| `Console` | `clear_screen`, `print`, and `do_IRQ`'s output |
| `Keyboard` | `parse_keycode` as operators on one scan code |
| `TextInput` | abstract specification: what is typed is shown, in order, once |
| `Interrupts` | `init_interrupt`, `do_IRQ`, keyboard driver, with the 8259A pair and the 8042 as external hardware; implements `TextInput` |
| `TrapFrame` | the assembly of kernel entry and exit, instruction by instruction, from `switch_to` to the init thread's system call |
| `IgnoredVector` | `TrapFrame` with the default gate `ignore_int` |
| `BootTables` | page tables, interrupt gates, TSS descriptor and segment, from `multiboot_entry` to `set_tss64` |
| `BootInfo` | `kernel_start`'s check, `parse_sys_info`, `_init_memory` |
| `Printf` | `vsprintf`, `skip_atoi`, `number` |
| `Ata` | `ata_init`, both polled transfers, with the drive as external hardware |
| `Task` | `task_init`, `do_fork`, the task list and `switch_to`, composed with `PageAlloc` by `EXTENDS` |
| `TaskProofs` | theorems and proofs about `PageAlloc` and `Task` |
| `ConsoleProofs`, `InterruptsProofs`, `AtaProofs`, `BootInfoProofs`, `BootTablesProofs`, `TrapFrameProofs`, `PrintfProofs` | theorems and proofs about the module of that name |
| `MC...` | the instances that TLC checks |

Names follow the source (`page_init`, `alloc_pages`, `shirt_r`, ...).
Definitions whose name ends in a suffix such as `_Late` or `_Xor` are faulty
variants: with one of them in place of the definition it is named after, the
property listed with it in `PROJECT.json` is violated.

**PageAlloc.** Addresses are page numbers, the bitmap is the set of its 1 bits
plus the word behind it that nobody initialises, an attribute is a set of flag
names. `pages_struct` has a slot -1, the memory in front of the array, which holds
any of `Strays`. Finding the window is one step (interrupts do not touch the
structures), every `page_init` is one. `page_init` follows the descriptor wherever it
leads: through a null zone pointer it counts in three words of low memory (`low`,
which the kernel reads nowhere else); with a `phy_addr` far beyond the bitmap or a
zone pointer that nobody stored (`WILD`) it writes to an arbitrary place, which is
the step `InitAstray` to `pc` = "lost", and what happens then is not followed.
`TypeOK` says that only slot -1 can lead there. `BootInfoOK` states what the code
takes for granted about the memory map.

**Console.** The kernel is compiled without optimisation, so each access to
`cursor.x` and `cursor.y` is its own action. The handler's characters are one
step each. A character is a newline, a tab or a glyph, a row is the set of
columns that hold a glyph, and row `MAX_ROW` is the memory below the screen.

**Interrupts.** One action per hardware event and per part of `do_IRQ`:
dispatch, handler, end-of-interrupt, return. Lines 0, 1 and those in
`SlaveLines` are raised by devices. History variables record which keys are
down, which characters the user meant, and whether a byte was in the 8042 when
`init_interrupt` programmed ICW1 (`deaf`); `TextInput` promises to show what is
typed only to a keyboard that is not deaf.

**TrapFrame.** A label is a list of instructions, each instruction kind is one
action (external: the processor), a C function is one step that clobbers the
caller-saved registers. Memory below the stack pointer counts as junk as soon
as it is popped. `sti` is one step with the instruction it shields. `saved`
and `asked` remember what the interrupted code and the caller of `sysenter`
had. The user program may ask for any number in `Calls`; the one in the
repository asks for 1. `offset` is the page at which the task begins, modulo the 32
KB of a stack. `do_fork` leaves it to luck, while `current` is `rsp` rounded down to
32 KB: `switch_to`, `kernel_thread_func` and the interrupts on the way are followed
for every offset, `init` only for offset 0. For any other `init_astray` sends it to
`Nowhere`, since `current->thread` is then a word of the stack that nobody wrote.

**BootTables.** A quad has eight bytes of `B` values each, and every shift of the
source is one by whole bytes, so that a small `B` keeps the places where addresses
are cut.
Stores into the interrupt table go through `Translate`, the processor's walk of
the page tables: the boot code writes it at its low address, `set_intr_gate` at
the high one. Decoding (`GateOffset`, `TssBase`) is the processor's.

**BootInfo.** The loader's information is a function from byte offsets to the tags
that begin there (`LaidOut` says how a loader places them). `e820` is longer in
the model than in the program (`MaxSlots`): what lies behind its `MaxE820` slots
are the fields of `gmdsc` that follow it, first the two counters. What
`init_memory` stores in those fields before it reads them as entries is not followed.

**Printf.** The format is read lazily, one character per `fmt++`, so one run
covers every format of up to `MaxFormat` characters over `Chars`. Arguments are
bit patterns of a scaled `long`. The text of the last conversion is kept; what
`number` prints is compared with `ValueOf`, which reads the digits back, and
with the text it has without a width. The padding loops run one after the other on
the same counter, as in the code: `Counted` is what `while (size-- > 0)` leaves in it.

**Ata.** One step per word and per status read; a datum is the number of a
16-bit word of the sector. The drive may be idle, busy or missing (`Missing`: its
status reads as anything and it takes no command), gives commands up as it likes
(`Abort`), and shows its ready bit when it likes (`rdy`). An interrupt inside `io_in8` or `io_in16` (action
`Hit`) turns the port these functions keep below `rsp` into one that reads as
ones. Which locals are hit follows from the compiled code: the stack is 8 off a
multiple of 16 in these leaf functions, the processor aligns it before it
pushes, so 8 bytes below `rsp` survive.

**Task.** Pages and stack pointers are page numbers; a task is named by its
first page. `do_fork` is followed where the `phy_addr` it finds names pages that are
not the kernel's. In three cases it writes a task somewhere else and `tpc` is "lost":
`alloc_pages` returned NULL, and the address is the word at address 0 (`ForkNull`);
the address leads into the kernel or is a stray word (`ForkAstray`); `page_init` had
gone astray before (`AllocAstray`).

## What the runs show

| run | result |
|---|---|
| `pagealloc` | a clear bit is a page never handed out; zone counters and link counts are exact; two runs out of word-aligned zones share at most the later one's first page; `page_init` is called for described pages and index -1 only, and only the latter can make it write elsewhere |
| `pagealloc_disjoint` | violated: in a zone that begins at page 0, `page = j + k - 1` gives the first request for two pages the pages -1 and 0, and the next request page 0 again |
| `console` | stores stay in the video buffer; the handler leaves the cursor at the start of a line at most one below the screen; without interrupts nothing is left ahead of the cursor |
| `interrupts` | every scan code is read once; a byte waits without a request exactly when it came before `init_interrupt`; the service registers match the handler; shift flags follow the keys; timer and keyboard are always served again; the keyboard path implements `TextInput`, liveness included |
| `interrupts_slave` | violated: a slave line is blocked after its first interrupt |
| `trapframe` | frames match `struct pt_regs`; interrupts are transparent between any two instructions; the forked thread starts with its argument and, if it begins at a multiple of 32 KB, enters user mode; system calls return and keep registers; only a system call writes over the suspended task 0; control never leaves the code but in `init` of a task that is not aligned |
| `ignored_vector` | violated: `IRQ_nothing` returns to the saved `ds` |
| `ata` | commands only reach an idle drive; a transfer starts only when the drive asks for it or no drive does the command; only the buffer reaches the medium although twice its size is sent; an undisturbed read returns what was written; `ata_init` returns, also when the drive refuses or is missing, unless the status stays busy or never shows ready again |
| `boot_info` | the walk stays on tags and entries; `init_memory` gets the loader's map as far as `e820` reaches, and enough zones |
| `boot_tables` | memory is visible low and high at the same place, and every other address of the two halves of the address space faults; every vector leads to its handler at every moment; `ltr` and the stacks of the TSS are right |
| `printf` | no format makes `vsprintf` step over its end; digits, padding, sign and prefix are right, for a negative `int` those of its unsigned value; strings are cut and padded as asked |
| `task` | the list is a ring of all tasks although `list_add_tail` gets its arguments swapped; `switch_to` reaches the forked task, ready and on its own stack, if `alloc_pages` gave it pages that are not the kernel's; `current` is the running task exactly when that is 32 KB aligned; its stack is reserved unless its run began outside the zones |

Several properties and one specification state the limits of the code they hold
for; a reader should know what lies beyond them:

- `PendingByteRequested`, `TextInput`: a key hit before `init_interrupt` fills
  the 8042, ICW1 forgets its edge, and the keyboard is silent for ever.
- `OnlyCallsTouchTask0`: MSR 0x175 is loaded once with task 0's `rsp0`, so the
  init thread's system calls build their frames over the stack that `switch_to`
  left there; task 0 could not be resumed.
- `SwitchesToFork`, `ThreadStarts`, `SystemCallCompletes`: `get_current` masks `rsp`
  with 32 KB, `alloc_pages` aligns to 4 KB. Only a task that is aligned by luck gets
  beyond `init`; the last property therefore has the premise `offset = 0`.
- `AtaInitReturns`: neither wait has a timeout. The property lists what hangs them: a
  status that stays busy, and one that never shows ready again.
- `StackReserved`: a run may begin with a page of no zone. Its descriptor then has
  no address: at page -1 `do_fork` takes whatever lies in front of `pages_struct`,
  and in the hole behind a zone that the kernel fills up (a bitmap word cleared for
  the next zone reaches back into it) it takes address 0. Either way pages of the
  stack stay free for the page manager. The second case came up in the proof.

Weaknesses that other properties allow for: `StoreInBuffer` lets a glyph land on
the row
below the screen (an interrupt between `print`'s check and its store);
`DriveIsReady` excepts a command that no drive does, because `ATA_wait_DRQ` tests the
ready bit; `ReadsBackWritten` excepts a read during which an interrupt hit the
red zone of `io_in16`; `MapCopied` says nothing of entries beyond `e820[32]`,
which overwrite the fields behind it, nor does any other property; `NumbersReadBack` reads a negative `int`
as unsigned, because `%d` fetches an `unsigned int`, and an argument with the
qualifier `h`, `L` or `Z` as the `int` that the code fetches.

### Bounds

- `MCPageAlloc`: 8-bit bitmap words and 16-byte pages make words, pages and
  the descriptor array small while all their ratios are kept as parameters;
  two maps (the shape of a PC map, and one with a zone that starts inside a
  word and a zone that adjoins it); every request size of a word; at most
  `MaxAllocs` runs, enough for a run to collide with the kernel, with a
  neighbour and with itself through index -1. The gap word takes all the values that
  matter; the slot -1 is zero, in use, with a bit far beyond the bitmap, or with a wild
  zone pointer.
- `MCConsole`: a screen small enough for wrap, scroll and tab to follow each
  other; `MaxX` and `MaxY` only stop the cursor from running away.
- `MCInterrupts`: four scan codes (press, repeat, release, other shift), any of
  them before `init_interrupt`, one
  request per other line; `MCInterruptsSlave.cfg`: two requests on each of the
  two disk lines, no typing.
- `MCTrapFrame`: `Context` = 9 words is the depth of the compiled call chain
  `kernel_start`, `task_init`; `Depth` = 70 words is more than any path uses,
  which `TypeOK` checks. The number of interrupts is not bounded. The task begins at
  any of the eight pages of 32 KB.
- `Ata`: sectors of 6 words, one sector as in `ata_init`, a drive that is idle, busy
  or missing at first; the number of hits is not bounded.
- `MCBootInfo`: maps of up to 4 entries of three kinds for 3 slots, so that maps
  that fit, fill and overrun the array occur, entry sizes 24 and 32, up to one tag of any size class
  before and behind the map.
- `MCBootTables`: quads of 16 bits, tables of 8 entries, 8 link layouts spread
  over the mapped memory so that each piece of an address differs from 0 in one.
- `MCPrintf`: every format of `MaxFormat` characters; longs of 64 values, ints
  of 16, arguments at 0, the sign bits and all ones; numbers written in a format
  up to `MaxField`; three strings, one with a blank inside. A star is given every
  width but the most negative int, whose negation C leaves undefined.
- `MCTask`: the scaled words and pages of `MCPageAlloc`, tasks of 4 pages; six
  maps: a first window inside a word, a window with two free words (index -1),
  low memory that begins at page 1, a hole between two zones that share a word, the
  same hole where address 0 leads into the kernel, and too little low memory (NULL).

### Fairness

`Interrupts`: weak fairness of boot, of the 8042 delivering a byte it holds, of
the processor accepting a request while IF is set, and of the handler running
on: nothing but hardware stands behind these steps. Typing and device requests
are not fair. `TrapFrame`: weak fairness of the processor, and strong fairness
of the steps outside interrupts: the timer's period is far longer than its
handler, so the interrupted code gets to execute. `Ata`: strong fairness of the
driver's steps that no interrupt hits, for the same reason; nothing is asked of the
drive. The other modules state no liveness.

## What is proved

`TaskProofs` proves, in its first part, five invariants of `PageAlloc` for every word
and page size, every set of memory maps that satisfies `BootInfoOK`, every flag set and
every bound on allocations: `Typed`, `FreeBitsAreFreePages`, `CountersAreExact`,
`OverlapsOnlyFirst` and `LinksAreExact`. None is inductive alone. The inductive
invariant `IInv` adds that zones lie inside the map (`ZonesInMap`), that a page
points only to a zone that contains it and has its own number as address
(`PagesInZones`), that the bit of a page outside all zones or with an attribute
is set (`BitsSet`), how far the two construction loops are (`Building`), that
every page handed out has an attribute (`Granted`), and that the run in progress
touches no earlier run beyond its first page (`Requested`). `Typed` bounds the calls of
`page_init`, not their writes: `page_init` goes astray only for slot -1, since every
other descriptor has its own number or 0 as `phy_addr`. The counters need a
lemma on the cardinality of a zone's used pages when one is added
(`PageInitCounters`), the runs one on where the first hit of the scan can lie
(`AlignedHit`). `LinksExact` is about a sum over all pages, which is inductive next to
`IInv` and to `Unlinked` (nothing is referenced until the kernel's pages are
reserved): `SumOfOneMore` and `SumOfZeros` say, by induction on the number of pages,
what one more reference makes of the sum, and `PageInitLinks` that `page_init` counts
it in both places or in neither.

`ConsoleProofs` proves for every screen size and every set of interrupt texts:
`Typed`, `StoresStayInBuffer`, `HandlersParkCursor` and `ScreenBlankAhead`. The
inductive invariant has two parts: `Safe` says what the registers may hold at
each point of `print`, given that a handler may have moved the cursor since
(`Registers`, `Checked`) and where the handler's own last glyph left it
(`AfterGlyph`); `Quiet` (`BlankAt`) follows the screen through the points of
`print` while interrupts are off.

`InterruptsProofs` proves for every set of keys, characters and lines: `Typed`,
`BytesArePending`, `ServiceIsMatched`, `ShiftsAreTracked`, and `ImplementsText`:
every behaviour of the interrupt system, fairness left aside, is one of
`TextInput!Safety` under the mapping that the runs use. The invariant `IInv` is
`TypeOK` with `Control` (which registers, flag and line go with each point of
`do_IRQ`, and that a byte in the 8042 has its request) and `Underway` (the scan codes
on their way decode, from the flags the driver has now, to the characters still to
be shown, and end in the keys that are down).

`AtaProofs` proves `Typed`, `DriveReady`, `MediumHoldsBuffer` and `ReadsBack` for
every sector size, with a drive or without one, with the hypothesis `SectorCount = 1`, what `ata_init` asks for.
The hypothesis is needed: the driver sends each sector's worth of words twice, and
with two sectors TLC finds `DriveIsReady` and `OnlyBufferReachesMedium` violated.
The invariant relates the driver's counter to the drive's in each phase of the write
(`WhileWriting`, where the words beyond the sector fall on a drive that no longer
asks) and of the read (`WhileReading`).

The second part of `TaskProofs` proves `UsesManager`, that `Task` composed with the page manager
implements `PageAlloc`'s specification, so that `PageAlloc`'s inductive invariant
holds of it, and from there `RingKept`, `ForkIsSwitchedTo` and `StackIsReserved`
for every map, word size and stack size, and every memory in front of `pages_struct`.
The last two speak of a fork that was given pages which are not the kernel's; any
other fork ends in "lost", of which they say nothing. `Manager` says what the fork's run is,
`Tasks` what the list and the threads are at each point.

`BootInfoProofs` proves `TagsAndEntriesRead`, `MapIsCopied` and `ZonesAreEnough`
for every layout of tags (several maps included) and every size of `e820`. The
invariant follows the walk (`Walking`: what the last map before the current tag left
in `gmdsc`), the copy of a map (`Copying`), and what is there when the walk ends
(`Parsed`).

`BootTablesProofs` proves `TwiceMapped`, `VectorsLead` and `RegisterLeads` for every
width of a byte, every size of page tables and interrupt table, and every link
layout. The arithmetic is in `Digit`, `Below` and `Taken` (putting digits together
and taking them apart); `GateLeads` and `DescriptorLeads` apply it to the two
descriptor formats for every address, `Translated` to the page walk. `Through` says what an address comes to behind a
slot of `pml4` that holds `pdpt`, and `LowHigh`, for every address of the two halves of
the address space, whether it is mapped and where.
The invariant says how far each table is filled.

`TrapFrameProofs` proves the four invariants and the three action properties of
`TrapFrame` for every depth of the context that task 0 leaves on its stack, every set
of system call numbers and any number of interrupts: `Typed`, `ControlStaysInCode`,
`HandlersRead`, `ThreadsStart`, `InterruptsAreTransparent`, `SystemCallsReturn` and
`Task0Untouched`. None of them is inductive: what `iretq` pops depends on every push
since the interrupt. The inductive invariant executes the assembly symbolically.
`Saving(j, ...)` and `Popping(j, ...)` say which words of a `struct pt_regs` are on the
stack, and which registers already or still hold their values, before the j-th
instruction of the two lists that all entries and exits share; `SaveStep` and `PopStep`
prove them once, for `Build_IRQ`, `system_call`, `ret_from_intr`, `ret_system_call` and
`kernel_thread_func` alike. `Base` says where the thread is (in `switch_to`, on its way to
`init`, on its way to the user, in the user program, in a system call) as a relation
between registers, pointers and memory, so that it can be stated of the interrupted
context as well; `Overlay` adds where the handler is above it. A step of the handler
touches nothing below its frame (`HandlerMoves`), which leaves `Base` alone (`BaseKept`);
at `iretq` the context is what it was (`Resumes`). A thread that `init` sent to `Nowhere`
(`Astray`) has left the modelled code, and the invariant asks nothing of it. The other
steps are proved region by
region (`SwitchSteps` to `CallSteps`).

`PrintfProofs` proves `FormatEnd`, `ReadBack` and `FieldsLaidOut` for every width of
`long` and `int`, every alphabet that does not contain the mark for running past the
end, every set of arguments and strings, and formats of any length. The invariant
`IInv` says which of `vsprintf`'s variables mean something at each point of a directive
(`LoopInv`) and that the text of the last conversion is `number`'s, or the padded string,
for the argument, flags, width and precision remembered with it (`FieldMade`). From
there the two properties about the text are facts about operators. `DigitsOfValue`, by
induction on the number divided, says that `number`'s divisions and a reader's
multiplications are inverse: the digits of a value are digits of the base and read back
as that value. `ValueZeros` lets the precision's and the field's zeros stand before them.
`NumberReads` finds sign, prefix and digits in the text whatever flags cancel each other;
`NumberLays` compares it with the text that the same call makes without a width, from what the
padding loops leave in the width that they count down (`CountedOut`): only one of them
writes anything (`OnePadding`);
`PaddedPlaces` says where the characters of a string end up.

Assumptions: the named `ASSUME`s of the modules, which TLC evaluates in the runs.
Only model-checked:

- all liveness, and `TextInput`'s fairness (out of the prover's reach);
- the three runs that expect a violation: what they look for is false.

What the recursive functions compute is proved all the same. The library's induction
theorems take an operator as a parameter, which the provers cannot instantiate; the
proofs use sets instead: a set of numbers has a least element (`Least`, from the
library's `WFMin` for the order of the natural numbers), so one that contains 0 and
with each number the next contains all of them (`Induction`).

## Not modelled

- `numberk`, `strcpy`, `strcmp`, `struct Disk_Identify_Info`, the framebuffer
  tag and most of `multiboot2.h`: no live code uses them.
- `memset`, `memcpy`, `strlen` and the port accessors other than `io_in8` and
  `io_in16` appear as what they do for their callers.
- The static GDT, segment registers, `init_mm`: written once and not read by
  the modelled code.
- The length of `_printf`'s buffer: the output of `Printf` is not accumulated. Nothing
  bounds it in the code either, not even for the format that a user program hands to
  `sys_printf`.
- What happens after a stray write or a jump through memory that nobody initialised
  (`InitAstray`, "lost" in `Task`, `Nowhere` in `TrapFrame`), and what `init_memory`
  makes of counters that entries behind `e820[32]` overwrote.
- A star width of `INT_MIN`: `-field_width` is undefined there, and what the counting
  loops then make of it is longer than any buffer. No caller passes a width.
- How far the page manager's structures reach into mapped memory: `PageAlloc`
  assumes them inside the map (`BootInfoOK`), `BootTables` shows how much is
  mapped; the two are not composed.
- Colours, wording and log lines.

## Plan

1. `BootInfo` as the source of `PageAlloc`'s boot information, with the extent
   of the mapping from `BootTables`.
