----------------------------- MODULE BootTables -----------------------------
(***************************************************************************)
(* The tables HelloOS gives the processor (arch/x86/boot/multiboot2.S,     *)
(* include/gate.h): temporary page tables, interrupt descriptors, the      *)
(* descriptor of the task state segment and the segment itself, from       *)
(* multiboot_entry to sti and to set_tss64 in task_init.                   *)
(*                                                                         *)
(* The boot code is linked low and runs with paging off at first; the C    *)
(* kernel is linked high, and reaches the same tables through PHY2VIR.     *)
(* Every store goes through Translate.                                     *)
(*                                                                         *)
(* A quad has eight bytes, its shifts are multiplications modulo its       *)
(* width; the bit counts of the source are all multiples of 8 and written  *)
(* in bytes.  An entry of the interrupt table counts as one unit of        *)
(* memory.                                                                 *)
(***************************************************************************)
EXTENDS Integers, Sequences

CONSTANTS
  B,            \* the values of a byte (256)
  Entries,      \* entries of a page table (512)
  LargePage,    \* what an entry of pd maps (2 MB)
  Vectors,      \* entries of the interrupt table (256)
  FirstIrq,     \* vector of line 0 (32)
  Irqs,         \* entries of interrupt_table (24)
  Layouts,      \* where the linker may put code and tables
  IntrGate,     \* 0x8E: present, ring 0, interrupt gate
  TssType,      \* 0x89: present, available task state segment
  KernelCs,     \* selector 0x08
  TssLimit      \* 103

\* the values of one to eight bytes
Values ==
  LET word == B * B IN
  <<B, word, word * B, word * word, word * word * B, word * word * word,
    word * word * word * B, word * word * word * word>>
Quad == Values[8]
Reach == Entries * LargePage                    \* what pd maps
High == Quad - (Entries \div 2) * Entries * Reach  \* 0xffff800000000000

\* ignore: address of ignore_int; irq: of the entries of interrupt_table;
\* idt, tss: of IDT_Table and TSS64_Table, which lie in the boot section
ASSUME TablesAssumption ==
  /\ B \in Nat /\ B > 1 /\ LargePage \in Nat \ {0}
  /\ Entries \in Nat /\ Entries > 2 /\ Entries % 2 = 0
  /\ Quad % (Entries * Entries * Reach) = 0 /\ High > Entries * Reach
  /\ Vectors \in Nat /\ FirstIrq \in Nat /\ Irqs \in Nat \ {0}
  /\ FirstIrq + Irqs <= Vectors
  /\ IntrGate \in 1 .. B - 1 /\ TssType \in 1 .. B - 1
  /\ KernelCs \in 0 .. Values[2] - 1 /\ TssLimit \in 0 .. Values[2] - 1
  /\ \A l \in Layouts :
       /\ l.ignore \in 0 .. Reach - 1 /\ l.tss \in 0 .. Reach - 1
       /\ l.idt \in 0 .. Reach - Vectors
       /\ l.irq \in [0 .. Irqs - 1 -> High .. High + Reach - 1]

VARIABLES
  pc,               \* where start-up is
  layout,           \* the addresses of this build
  pml4, pdpt, pd,   \* the page tables; 0 is an absent entry
  paging,           \* CR0.PG
  n,                \* the loop counter: ecx, rcx or i
  mem,              \* the interrupt table in physical memory
  gdt_tss,          \* GDT entries 10 and 11
  TSS64_Table,      \* in units of 4 bytes
  tr                \* what ltr loaded

tables == <<pml4, pdpt, pd, paging>>
vars == <<pc, layout, tables, n, mem, gdt_tss, TSS64_Table, tr>>

NoGate == <<0, 0>>
Fault == -1

-----------------------------------------------------------------------------
(* Shifts and address translation.                                         *)

shl(v, bytes) == (v * Values[bytes]) % Quad
shr(v, bytes) == v \div Values[bytes]
low(v, bytes) == v % Values[bytes]

\* KERNEL_VIRADDR | addr: a high address stays
PHY2VIR(a) == IF a >= High THEN a ELSE High + a

\* what the processor makes of a virtual address
Translate(va) ==
  LET index(size) == (va \div size) % Entries IN
  IF ~paging THEN va
  ELSE IF \/ pml4[index(Entries * Reach)] # "pdpt" \/ pdpt[index(Reach)] # "pd"
          \/ pd[index(LargePage)] = Fault
    THEN Fault
  ELSE pd[index(LargePage)] + (va % LargePage)

Stored(va, gate) == [mem EXCEPT ![Translate(va)] = gate]

-----------------------------------------------------------------------------
(* Descriptors.                                                            *)

\* Faulty variant of _set_gate: shrq $16 is missing.
_set_gate_Unshifted(attr, ist, addr) ==
  <<(shl(KernelCs, 2) + low(addr, 2) + shl((ist % 8) + shl(attr, 1), 4)
     + shl(low(addr, 4), 6)) % Quad,
    shr(addr, 4)>>
\* the two quads of a gate; setup_IDT computes the same with ist = 0
_set_gate(attr, ist, addr) ==
  <<(shl(KernelCs, 2) + low(addr, 2) + shl((ist % 8) + shl(attr, 1), 4)
     + shl(shr(low(addr, 4), 2), 6)) % Quad,
    shr(addr, 4)>>

\* Faulty variant of TssDescriptor: the top of the base at bit 48, as in a gate.
TssDescriptor_AsGate(base) ==
  <<(shl(TssType, 5) + shl(shr(low(base, 4), 3), 6)
     + shl(low(base, 3), 2) + TssLimit) % Quad,
    shr(base, 4)>>
\* SetUp_TSS64: type at bit 40, base in bits 16 to 39 and 56 to 63
TssDescriptor(base) ==
  <<(shl(TssType, 5)
     + shl(shr(low(base, 4), 3), 7)
     + shl(low(base, 3), 2) + TssLimit) % Quad,
    shr(base, 4)>>

\* the fields of struct tss_struct in their order, packed: reserved0 has 4
\* bytes, the others up to ist7 have 8
tss_struct == <<"reserved0", "rsp0", "rsp1", "rsp2", "reserved1", "ist1", "ist2",
                "ist3", "ist4", "ist5", "ist6", "ist7">>
StackFields == {tss_struct[k] : k \in DOMAIN tss_struct} \ {"reserved0", "reserved1"}

-----------------------------------------------------------------------------
(* Start-up.                                                               *)

Init ==
  /\ pc = "entry" /\ layout \in Layouts /\ paging = FALSE /\ n = 0
  /\ pml4 = [k \in 0 .. Entries - 1 |-> "none"]
  /\ pdpt = [k \in 0 .. Entries - 1 |-> "none"]
  /\ pd = [k \in 0 .. Entries - 1 |-> Fault]
  /\ mem = [a \in layout.idt .. layout.idt + Vectors - 1 |-> NoGate]
  /\ gdt_tss = NoGate /\ tr = NoGate
  /\ TSS64_Table = [u \in 0 .. 25 |-> {}]

\* Faulty variant of Roots: the high half is not entered.
Roots_Low == {0}
\* 0(%eax) and 2048(%eax)
Roots == {0, Entries \div 2}

multiboot_entry ==
  /\ pc = "entry" /\ pc' = "pd_loop" /\ n' = Entries
  /\ pml4' = [k \in DOMAIN pml4 |-> IF k \in Roots THEN "pdpt" ELSE pml4[k]]
  /\ pdpt' = [pdpt EXCEPT ![0] = "pd"]
  /\ UNCHANGED <<layout, pd, paging, mem, gdt_tss, TSS64_Table, tr>>

\* $0x87, then $0x200000 further every time
pd_loop ==
  /\ pc = "pd_loop"
  /\ pd' = [pd EXCEPT ![Entries - n] = (Entries - n) * LargePage]
  /\ n' = n - 1 /\ pc' = IF n = 1 THEN "paging" ELSE "pd_loop"
  /\ UNCHANGED <<layout, pml4, pdpt, paging, mem, gdt_tss, TSS64_Table, tr>>

\* CR3, long mode, CR0.PG, lgdt, the jump to _start64, lidt
_start64 ==
  /\ pc = "paging" /\ pc' = "rp_sidt" /\ paging' = TRUE /\ n' = Vectors
  /\ UNCHANGED <<layout, pml4, pdpt, pd, mem, gdt_tss, TSS64_Table, tr>>

\* one round of the loop that fills the table, through its low address
rp_sidt ==
  /\ pc = "rp_sidt"
  /\ mem' = Stored(layout.idt + Vectors - n, _set_gate(IntrGate, 0, layout.ignore))
  /\ n' = n - 1 /\ pc' = IF n = 1 THEN "tss" ELSE "rp_sidt"
  /\ UNCHANGED <<layout, tables, gdt_tss, TSS64_Table, tr>>

\* the descriptor, then lretq to kernel_start
SetUp_TSS64 ==
  /\ pc = "tss" /\ pc' = "kernel_start"
  /\ gdt_tss' = TssDescriptor(layout.tss)
  /\ UNCHANGED <<layout, tables, n, mem, TSS64_Table, tr>>

\* selector 10 << 3; the other initialisers touch none of these tables
load_TR ==
  /\ pc = "kernel_start" /\ pc' = "init_interrupt"
  /\ tr' = gdt_tss /\ n' = FirstIrq
  /\ UNCHANGED <<layout, tables, mem, gdt_tss, TSS64_Table>>

\* interrupt_table[i - 32]
Handler(v) == layout.irq[v - FirstIrq]

\* one set_intr_gate of init_interrupt, through PHY2VIR; sti after the last
set_intr_gate ==
  /\ pc = "init_interrupt"
  /\ mem' = Stored(PHY2VIR(layout.idt + n), _set_gate(IntrGate, 0, Handler(n)))
  /\ n' = n + 1
  /\ pc' = IF n + 1 = FirstIrq + Irqs THEN "sti" ELSE "init_interrupt"
  /\ UNCHANGED <<layout, tables, gdt_tss, TSS64_Table, tr>>

\* TSS64_Table + 1, TSS64_Table + 3 and so on
Slot ==
  [rsp0 |-> 1, rsp1 |-> 3, rsp2 |-> 5, ist1 |-> 9, ist2 |-> 11, ist3 |-> 13,
   ist4 |-> 15, ist5 |-> 17, ist6 |-> 19, ist7 |-> 21]

\* what lies in unit u after the stores, two units each
StackAt(u) == {f \in StackFields : u \in {Slot[f], Slot[f] + 1}}

\* called by task_init
set_tss64 ==
  /\ pc = "sti" /\ pc' = "task_init"
  /\ TSS64_Table' = [u \in DOMAIN TSS64_Table |->
                       IF StackAt(u) = {} THEN TSS64_Table[u] ELSE StackAt(u)]
  /\ UNCHANGED <<layout, tables, n, mem, gdt_tss, tr>>

Running == pc = "task_init" /\ UNCHANGED vars

Next ==
  \/ multiboot_entry \/ pd_loop \/ _start64 \/ rp_sidt \/ SetUp_TSS64
  \/ load_TR \/ set_intr_gate \/ set_tss64 \/ Running

Spec == Init /\ [][Next]_vars

-----------------------------------------------------------------------------
(* Properties.                                                             *)

\* the lower half of the address space; PHY2VIR takes it to the upper half, and
\* what lies between the two is no address to the processor
LowerHalf == 0 .. Quad - High - 1

\* From the moment paging is on, the first Entries large pages of memory are
\* visible twice, low for the boot code and through PHY2VIR for the kernel,
\* at the same place both times; every other address of the two halves faults,
\* whichever entry of pml4 it goes through.
MappedTwice ==
  paging =>
    \A a \in LowerHalf :
      /\ Translate(a) = IF a < Reach THEN a ELSE Fault
      /\ Translate(PHY2VIR(a)) = IF a < Reach THEN a ELSE Fault

\* how the processor takes a gate and a system descriptor apart
GateOffset(g) ==
  low(g[1], 2) + shl(shr(g[1], 6), 2) + shl(low(g[2], 4), 4)
GateWord(g) == low(shr(g[1], 4), 2)
GateSelector(g) == low(shr(g[1], 2), 2)
TssBase(d) ==
  low(shr(d[1], 2), 3) + shl(shr(d[1], 7), 3)
  + shl(low(d[2], 4), 4)

Expected(v) ==
  IF v \in FirstIrq .. FirstIrq + Irqs - 1
     /\ (pc \in {"sti", "task_init"} \/ (pc = "init_interrupt" /\ v < n))
    THEN layout.irq[v - FirstIrq] ELSE layout.ignore

\* Once kernel_start runs, every vector leads to code at every moment: to
\* ignore_int, or from its set_intr_gate on to its own entry point, although
\* the two are written through different addresses by different code.  All are
\* interrupt gates on the current stack.
VectorsLeadToHandlers ==
  pc \notin {"entry", "pd_loop", "paging", "rp_sidt", "tss"} =>
    \A v \in 0 .. Vectors - 1 :
      LET g == mem[layout.idt + v] IN
      /\ GateOffset(g) = Expected(v)
      /\ GateSelector(g) = KernelCs /\ GateWord(g) = shl(IntrGate, 1)

\* ltr takes a descriptor that is complete and leads to TSS64_Table, and
\* set_tss64 in gate.h and struct tss_struct in task.h agree on where the
\* processor looks for each stack in it.
TaskRegisterLeadsToStacks ==
  /\ tr # NoGate =>
       /\ TssBase(tr) = layout.tss /\ low(tr[1], 2) = TssLimit
       /\ low(shr(tr[1], 5), 1) = TssType
  /\ pc = "task_init" =>
       \A k \in 2 .. Len(tss_struct) : tss_struct[k] \in StackFields =>
         \A u \in {2 * k - 3, 2 * k - 2} : TSS64_Table[u] = {tss_struct[k]}
=============================================================================
