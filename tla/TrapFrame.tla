----------------------------- MODULE TrapFrame -----------------------------
(***************************************************************************)
(* Entering and leaving the kernel: the register frames that the assembly  *)
(* of HelloOS builds on a kernel stack and takes down again.  switch_to    *)
(* (include/task.h), kernel_thread_func, init, do_execve and               *)
(* user_level_function (kernel/sched/task.c), system_call, ret_system_call *)
(* and ret_from_intr (kernel/entry.S), SAVE_ALL_REGS and Build_IRQ         *)
(* (kernel/irq/irq.c), ignore_int (arch/x86/boot/multiboot2.S), struct     *)
(* pt_regs (include/ptrace.h).                                             *)
(*                                                                         *)
(* The assembly is kept instruction by instruction, because every push,    *)
(* pop and offset has to agree with all the others, and an interrupt may   *)
(* fall between any two instructions while iflag is set.  A C function is  *)
(* a step that clobbers the caller-saved registers and returns.  The model *)
(* starts where task_init switches from task 0 to the init thread it has   *)
(* forked and follows init to user mode and through its system call.       *)
(*                                                                         *)
(* do_fork has put the thread's 32 KB on whatever pages it got, while      *)
(* current is rsp rounded down to a multiple of 32 KB (include/task.h).    *)
(* So init, which works on current, is followed when offset is 0.  For any *)
(* other offset current is a place inside the thread's own stack, and init *)
(* stores through the pointer it finds there, a word nobody wrote: rip is  *)
(* then Nowhere, and what the machine does is not described.               *)
(*                                                                         *)
(* A word is a pair.  <<"int", n>> is a number, <<label, n>> the address   *)
(* of the n-th instruction of a label, <<stack, n>> the address n words    *)
(* below the base of a stack.  What lies below the stack pointer is Junk:  *)
(* an interrupt or a C function may have overwritten it.                   *)
(***************************************************************************)
EXTENDS Naturals, Sequences

CONSTANTS
  Context,   \* words on task 0's stack when task_init reaches switch_to
  Depth,     \* words of a stack that the model keeps
  Calls      \* the system call numbers that the user program tries

ASSUME BoundsAssumption ==
  /\ Context \in Nat /\ Depth \in Nat /\ Context + 60 =< Depth
  /\ Calls \subseteq 0..127

GPRs == {"rax", "rbx", "rcx", "rdx", "rsi", "rdi", "rbp", "r8", "r9", "r10",
         "r11", "r12", "r13", "r14", "r15"}
Segments == {"ds", "es"}
Registers == GPRs \cup Segments
CallerSaved == {"rax", "rcx", "rdx", "rsi", "rdi", "r8", "r9", "r10", "r11"}

Word(name) == <<name, 0>>
Num(n) == <<"int", n>>
Junk == Word("junk")
Nowhere == <<"lost", 1>>
KERNEL_CS == Word("KERNEL_CS")
USER_CS == Word("USER_CS")
KERNEL_DS == Word("KERNEL_DS")

\* struct pt_regs, from its lowest address (the top of the stack) on
pt_regs == <<"r15", "r14", "r13", "r12", "r11", "r10", "r9", "r8", "rbx",
             "rcx", "rdx", "rsi", "rdi", "rbp", "ds", "es", "rax", "func",
             "errcode", "rip", "cs", "rflags", "rsp", "ss">>

Field(name) == CHOOSE i \in DOMAIN pt_regs : pt_regs[i] = name

-----------------------------------------------------------------------------
(* The assembly.                                                           *)

Pushes(rs) == [i \in DOMAIN rs |-> <<"push", rs[i]>>]
Pops(rs) == [i \in DOMAIN rs |-> <<"pop", rs[i]>>]

\* Faulty variant of SAVE_ALL_REGS: rbx is saved before rcx.
SAVE_ALL_REGS_Swapped ==
  <<<<"push", "rax">>, <<"push", "rax">>,
    <<"mov", "es", "rax">>, <<"push", "rax">>,
    <<"mov", "ds", "rax">>, <<"push", "rax">>, <<"set", "rax", Num(0)>>>>
  \o Pushes(<<"rbp", "rdi", "rsi", "rdx", "rbx", "rcx", "r8", "r9", "r10",
              "r11", "r12", "r13", "r14", "r15">>)
  \o <<<<"set", "rdx", KERNEL_DS>>,
       <<"mov", "rdx", "ds">>, <<"mov", "rdx", "es">>>>

SAVE_ALL_REGS ==
  <<<<"push", "rax">>, <<"push", "rax">>,
    <<"mov", "es", "rax">>, <<"push", "rax">>,
    <<"mov", "ds", "rax">>, <<"push", "rax">>, <<"set", "rax", Num(0)>>>>
  \o Pushes(<<"rbp", "rdi", "rsi", "rdx", "rcx", "rbx", "r8", "r9", "r10",
              "r11", "r12", "r13", "r14", "r15">>)
  \o <<<<"set", "rdx", KERNEL_DS>>,
       <<"mov", "rdx", "ds">>, <<"mov", "rdx", "es">>>>

Build_IRQ ==
  <<<<"push_value", Num(0)>>>> \o SAVE_ALL_REGS
  \o <<<<"lea_rsp", "rdi">>, <<"set", "rax", <<"ret_from_intr", 1>>>>,
       <<"push", "rax">>, <<"set", "rsi", Word("nr")>>, <<"jmp", "do_IRQ">>>>

\* the default gate of every vector: lretq enters IRQ_nothing
ignore_int ==
  Pushes(<<"rax", "rbx", "rcx", "rdx", "rbp", "rdi", "rsi", "r8", "r9", "r10",
           "r11", "r12", "r13", "r14", "r15">>)
  \o <<<<"mov", "es", "rax">>, <<"push", "rax">>,
       <<"mov", "ds", "rax">>, <<"push", "rax">>,
       <<"set", "rax", KERNEL_DS>>, <<"mov", "rax", "ds">>,
       <<"mov", "rax", "es">>, <<"set", "rax", <<"IRQ_nothing", 1>>>>,
       <<"push_value", KERNEL_CS>>, <<"push", "rax">>, <<"lretq">>>>

\* the pops that ret_from_intr, ret_system_call and kernel_thread_func share
PopAll ==
  Pops(<<"r15", "r14", "r13", "r12", "r11", "r10", "r9", "r8", "rbx", "rcx",
         "rdx", "rsi", "rdi", "rbp">>)
  \o <<<<"pop", "rax">>, <<"mov", "rax", "ds">>,
       <<"pop", "rax">>, <<"mov", "rax", "es">>, <<"pop", "rax">>>>

\* Faulty variant of ret_from_intr: errcode stays on the stack.
ret_from_intr_Short == PopAll \o <<<<"add_rsp", 1>>, <<"sti_iretq">>>>

\* sti takes effect after the next instruction, so the pair is one step
ret_from_intr == PopAll \o <<<<"add_rsp", 2>>, <<"sti_iretq">>>>

\* Faulty variant of system_call: rdi and rsi change places in the frame.
system_call_Swapped ==
  <<<<"sti_sub_rsp", 7>>, <<"push", "rax">>,
    <<"mov", "es", "rax">>, <<"push", "rax">>,
    <<"mov", "ds", "rax">>, <<"push", "rax">>, <<"set", "rax", Num(0)>>>>
  \o Pushes(<<"rbp", "rsi", "rdi", "rdx", "rcx", "rbx", "r8", "r9", "r10",
              "r11", "r12", "r13", "r14", "r15">>)
  \o <<<<"set", "rdx", KERNEL_DS>>,
       <<"mov", "rdx", "ds">>, <<"mov", "rdx", "es">>,
       <<"lea_rsp", "rdi">>, <<"call", "system_call_function">>,
       <<"jmp", "ret_system_call">>>>

\* 0x38 is room for func, errcode, rip, cs, rflags, rsp and ss
system_call ==
  <<<<"sti_sub_rsp", 7>>, <<"push", "rax">>,
    <<"mov", "es", "rax">>, <<"push", "rax">>,
    <<"mov", "ds", "rax">>, <<"push", "rax">>, <<"set", "rax", Num(0)>>>>
  \o Pushes(<<"rbp", "rdi", "rsi", "rdx", "rcx", "rbx", "r8", "r9", "r10",
              "r11", "r12", "r13", "r14", "r15">>)
  \o <<<<"set", "rdx", KERNEL_DS>>,
       <<"mov", "rdx", "ds">>, <<"mov", "rdx", "es">>,
       <<"lea_rsp", "rdi">>, <<"call", "system_call_function">>,
       <<"jmp", "ret_system_call">>>>

\* Faulty variant of ret_system_call: the result goes to 0x78(%rsp), es.
ret_system_call_Offset ==
  <<<<"store_rax", 15>>>> \o PopAll \o <<<<"add_rsp", 7>>, <<"sysexit">>>>

\* movq %rax, 0x80(%rsp): word 16, the rax of the frame
ret_system_call ==
  <<<<"store_rax", 16>>>> \o PopAll \o <<<<"add_rsp", 7>>, <<"sysexit">>>>

\* Faulty variant of kernel_thread_func: it calls before it moves.
kernel_thread_func_Late ==
  PopAll \o <<<<"add_rsp", 7>>, <<"call_rbx">>, <<"mov", "rdx", "rdi">>>>

\* callq *%rbx; what follows it is not reached, init never returns
kernel_thread_func ==
  PopAll \o <<<<"add_rsp", 7>>, <<"mov", "rdx", "rdi">>, <<"call_rbx">>>>

\* switch_to(current, p) of task_init, p the forked thread
switch_to ==
  <<<<"push", "rbp">>, <<"push", "rax">>, <<"switch_rsp">>,
    <<"set", "rax", <<"switch_to", 7>>>>,
    <<"push_value", <<"kernel_thread_func", 1>>>>, <<"jmp", "__switch_to">>>>

CodeOf(label) ==
  CASE label = "Build_IRQ"          -> Build_IRQ
    [] label = "ignore_int"         -> ignore_int
    [] label = "ret_from_intr"      -> ret_from_intr
    [] label = "system_call"        -> system_call
    [] label = "ret_system_call"    -> ret_system_call
    [] label = "kernel_thread_func" -> kernel_thread_func
    [] label = "switch_to"          -> switch_to

Assembly == {"Build_IRQ", "ignore_int", "ret_from_intr", "system_call",
             "ret_system_call", "kernel_thread_func", "switch_to"}
CFunctions == {"__switch_to", "init", "do_execve", "system_call_function",
               "do_IRQ", "IRQ_nothing"}
User == "user_level_function"
-----------------------------------------------------------------------------
VARIABLES
  regs,      \* the general registers, ds and es
  cs,        \* KERNEL_CS or USER_CS
  iflag,     \* the interrupt flag
  rip, rsp,  \* addresses: <<label, n>> and <<stack, n>>
  tss,       \* the stack that rsp0 of the TSS points to the base of
  mem,       \* mem[s][n]: the n-th word below the base of stack s
  printed,   \* the arguments of kprintf in sys_printf
  saved,     \* the interrupted context, <<>> outside interrupts
  asked,     \* the registers at sysenter, <<>> outside system calls
  offset     \* the page that the task begins at, modulo STACK_SIZE

vars == <<regs, cs, iflag, rip, rsp, tss, mem, printed, saved, asked, offset>>

Stacks == {"task0", "task1"}
Stack == mem[rsp[1]]

\* the words in use on the current stack
Live(m, sp) == IF sp[1] \in Stacks THEN SubSeq(m[sp[1]], 1, sp[2]) ELSE <<>>

\* the word that the C code reads as field f of the struct pt_regs at p
FieldAt(p, f) == mem[p[1]][p[2] - (Field(f) - 1)]

Arg == Num(10)
Str == Word("str")
UserStack == <<"user_stack", 0>>
UserReturn == <<User, 3>>

\* kernel_thread(init, 10, ...): the frame that do_fork copies to the top of
\* the new thread's stack
ThreadFrame(f) ==
  CASE f = "rbx" -> <<"init", 1>>
    [] f = "rdx" -> Arg
    [] f \in {"ds", "es", "ss"} -> KERNEL_DS
    [] f = "cs" -> KERNEL_CS
    [] f = "rflags" -> Word("IF")
    [] f = "rip" -> <<"kernel_thread_func", 1>>
    [] OTHER -> Num(0)

Frame == Len(pt_regs)

Init ==
  /\ regs = [r \in Registers |-> IF r \in Segments THEN KERNEL_DS
                                                  ELSE <<r, 0>>]
  /\ cs = KERNEL_CS
  /\ iflag = TRUE
  /\ rip = <<"switch_to", 1>>
  /\ rsp = <<"task0", Context>>
  /\ tss = "task0"
  /\ mem = [task0 |-> [n \in 1..Depth |-> IF n =< Context
                                          THEN <<"context", n>> ELSE Junk],
            task1 |-> [n \in 1..Depth |-> IF n =< Frame
                         THEN ThreadFrame(pt_regs[Frame + 1 - n]) ELSE Junk]]
  /\ printed = <<>>
  /\ saved = <<>>
  /\ asked = <<>>
  /\ offset \in 0 .. 7
-----------------------------------------------------------------------------
(* The processor's instructions.                                           *)

ghosts == <<printed, saved, asked, offset>>
Instr == CodeOf(rip[1])[rip[2]]
At(op) == rip[1] \in Assembly /\ Instr[1] = op

Advance == rip' = <<rip[1], rip[2] + 1>>
Clear(m, s, from, to) ==
  [m EXCEPT ![s] = [n \in 1..Depth |-> IF n \in from..to THEN Junk ELSE @[n]]]
\* rsp moves up over k words
Drop(k) ==
  /\ rsp' = <<rsp[1], rsp[2] - k>>
  /\ mem' = Clear(mem, rsp[1], rsp[2] - k + 1, rsp[2])
PushWord(w) ==
  /\ rsp' = <<rsp[1], rsp[2] + 1>>
  /\ mem' = [mem EXCEPT ![rsp[1]][rsp[2] + 1] = w]

Push ==
  /\ At("push")
  /\ PushWord(regs[Instr[2]])
  /\ Advance
  /\ UNCHANGED <<regs, cs, iflag, tss, ghosts>>

PushValue ==
  /\ At("push_value")
  /\ PushWord(Instr[2])
  /\ Advance
  /\ UNCHANGED <<regs, cs, iflag, tss, ghosts>>

Pop ==
  /\ At("pop")
  /\ regs' = [regs EXCEPT ![Instr[2]] = Stack[rsp[2]]]
  /\ Drop(1)
  /\ Advance
  /\ UNCHANGED <<cs, iflag, tss, ghosts>>

Mov ==
  /\ \/ /\ At("mov")
        /\ regs' = [regs EXCEPT ![Instr[3]] = regs[Instr[2]]]
     \/ /\ At("set")
        /\ regs' = [regs EXCEPT ![Instr[2]] = Instr[3]]
     \/ /\ At("lea_rsp")
        /\ regs' = [regs EXCEPT ![Instr[2]] = rsp]
  /\ Advance
  /\ UNCHANGED <<cs, iflag, rsp, tss, mem, ghosts>>

StoreRax ==
  /\ At("store_rax")
  /\ mem' = [mem EXCEPT ![rsp[1]][rsp[2] - Instr[2]] = regs["rax"]]
  /\ Advance
  /\ UNCHANGED <<regs, cs, iflag, rsp, tss, ghosts>>

AddRsp ==
  /\ At("add_rsp")
  /\ Drop(Instr[2])
  /\ Advance
  /\ UNCHANGED <<regs, cs, iflag, tss, ghosts>>

StiSubRsp ==
  /\ At("sti_sub_rsp")
  /\ iflag' = TRUE
  /\ rsp' = <<rsp[1], rsp[2] + Instr[2]>>
  /\ Advance
  /\ UNCHANGED <<regs, cs, tss, mem, ghosts>>

\* rsp := next->thread->rsp, where do_fork's memcpy put the frame
SwitchRsp ==
  /\ At("switch_rsp")
  /\ rsp' = <<"task1", Frame>>
  /\ Advance
  /\ UNCHANGED <<regs, cs, iflag, tss, mem, ghosts>>

Jmp ==
  /\ At("jmp")
  /\ rip' = <<Instr[2], 1>>
  /\ UNCHANGED <<regs, cs, iflag, rsp, tss, mem, ghosts>>

Call ==
  /\ \/ At("call") /\ rip' = <<Instr[2], 1>>
     \/ At("call_rbx") /\ rip' = regs["rbx"]
  /\ PushWord(<<rip[1], rip[2] + 1>>)
  /\ UNCHANGED <<regs, cs, iflag, tss, ghosts>>

\* an interrupt gate with IST 0: from user mode the frame starts at rsp0, in
\* kernel mode below the current words, aligned to 16 bytes
Enter(label) ==
  LET stack == IF cs = USER_CS THEN tss ELSE rsp[1]
      used == IF cs = USER_CS THEN 0 ELSE rsp[2] + (rsp[2] % 2)
      frame == <<IF cs = USER_CS THEN Word("USER_DS") ELSE KERNEL_DS, rsp,
                 Word("IF"), cs, rip>>
  IN /\ iflag /\ rip # Nowhere
     /\ mem' = [mem EXCEPT ![stack] =
                  [n \in 1..Depth |-> IF n \in used + 1 .. used + 5
                                     THEN frame[n - used] ELSE @[n]]]
     /\ rsp' = <<stack, used + 5>>
     /\ rip' = <<label, 1>>
     /\ cs' = KERNEL_CS
     /\ iflag' = FALSE
     /\ saved' = <<[regs |-> regs, cs |-> cs, rip |-> rip, rsp |-> rsp,
                    live |-> Live(mem, rsp)]>>
     /\ UNCHANGED <<regs, tss, printed, asked, offset>>

Interrupt == Enter("Build_IRQ")

StiIretq ==
  /\ At("sti_iretq")
  /\ rip' = Stack[rsp[2]]
  /\ cs' = Stack[rsp[2] - 1]
  /\ iflag' = (Stack[rsp[2] - 2] = Word("IF"))
  /\ rsp' = Stack[rsp[2] - 3]
  /\ mem' = Clear(mem, rsp[1], rsp[2] - 4, rsp[2])
  /\ saved' = <<>>
  /\ UNCHANGED <<regs, tss, printed, asked, offset>>

Sysexit ==
  /\ At("sysexit")
  /\ rip' = regs["rdx"]
  /\ rsp' = regs["rcx"]
  /\ cs' = USER_CS
  /\ asked' = <<>>
  /\ UNCHANGED <<regs, iflag, tss, mem, printed, saved, offset>>
-----------------------------------------------------------------------------
(* The C functions and the user program.                                   *)

In(f) == rip = <<f, 1>>
Clobbered(result) ==
  [r \in Registers |-> IF r = "rax" THEN result
                      ELSE IF r \in CallerSaved THEN Junk ELSE regs[r]]
Return == rip' = Stack[rsp[2]]

\* Faulty variant of __switch_to: rsp0 of the TSS stays task 0's.
__switch_to_KeepTss ==
  /\ In("__switch_to")
  /\ regs' = Clobbered(Junk)
  /\ Drop(1)
  /\ Return
  /\ UNCHANGED <<cs, iflag, tss, ghosts>>

__switch_to ==
  /\ In("__switch_to")
  /\ tss' = "task1"
  /\ regs' = Clobbered(Junk)
  /\ Drop(1)
  /\ Return
  /\ UNCHANGED <<cs, iflag, ghosts>>

\* rsp is set to the frame at the top of the stack, whose words the calls
\* and interrupts since have overwritten, ret_system_call is pushed as the
\* return address and do_execve entered by jmp
init ==
  /\ In("init") /\ offset = 0
  /\ rsp' = <<"task1", Frame + 1>>
  /\ mem' = [mem EXCEPT !["task1"] = [n \in 1..Depth |->
                IF n = Frame + 1 THEN <<"ret_system_call", 1>> ELSE Junk]]
  /\ regs' = [Clobbered(Junk) EXCEPT !["rdi"] = <<"task1", Frame>>]
  /\ rip' = <<"do_execve", 1>>
  /\ UNCHANGED <<cs, iflag, tss, ghosts>>

\* current is not the task, current->thread an arbitrary word
init_astray ==
  /\ In("init") /\ offset # 0
  /\ rip' = Nowhere
  /\ UNCHANGED <<regs, cs, iflag, rsp, tss, mem, ghosts>>

Lost == rip = Nowhere /\ UNCHANGED vars

\* 0x800000 and 0xa00000 are the user program's first instruction and stack
UserFrame(f) ==
  CASE f = "rdx" -> <<User, 1>>
    [] f = "rcx" -> UserStack
    [] f = "rax" -> Num(1)
    [] f \in {"ds", "es"} -> Num(0)

do_execve ==
  /\ In("do_execve")
  /\ LET p == regs["rdi"]
         slot(f) == p[2] - (Field(f) - 1)
         written == {"rdx", "rcx", "rax", "ds", "es"}
     IN mem' = [mem EXCEPT ![p[1]] = [n \in 1..Depth |->
                  IF n = rsp[2] THEN Junk
                  ELSE IF \E f \in written : n = slot(f)
                  THEN UserFrame(CHOOSE f \in written : n = slot(f))
                  ELSE @[n]]]
  /\ regs' = Clobbered(Num(0))
  /\ rsp' = <<rsp[1], rsp[2] - 1>>
  /\ Return
  /\ UNCHANGED <<cs, iflag, tss, ghosts>>

\* table entry 1 is sys_printf, the others no_system_call
system_call_function ==
  /\ In("system_call_function")
  /\ LET p == regs["rdi"]
     IN IF FieldAt(p, "rax") = Num(1)
        THEN /\ printed' = Append(printed, FieldAt(p, "rdi"))
             /\ regs' = Clobbered(Num(0))
        ELSE /\ regs' = Clobbered(Word("-1"))
             /\ UNCHANGED printed
  /\ Drop(1)
  /\ Return
  /\ UNCHANGED <<cs, iflag, tss, saved, asked, offset>>

\* do_IRQ and what it calls leave the frame alone
do_IRQ ==
  /\ In("do_IRQ")
  /\ regs' = Clobbered(Junk)
  /\ Drop(1)
  /\ Return
  /\ UNCHANGED <<cs, iflag, tss, ghosts>>

\* user_level_function up to sysenter: the other registers hold anything
UserPrepares(nr) ==
  /\ rip = <<User, 1>> /\ cs = USER_CS
  /\ regs' = [r \in Registers |->
               CASE r = "rax" -> Num(nr)
                 [] r = "rdi" -> Str
                 [] r = "rdx" -> UserReturn
                 [] r = "rcx" -> rsp
                 [] r \in Segments -> regs[r]
                 [] OTHER -> <<r, 1>>]
  /\ rip' = <<User, 2>>
  /\ UNCHANGED <<cs, iflag, rsp, tss, mem, ghosts>>

\* sysenter: MSR 0x175 holds task 0's rsp0, MSR 0x176 system_call
Sysenter ==
  /\ rip = <<User, 2>> /\ cs = USER_CS
  /\ rip' = <<"system_call", 1>>
  /\ rsp' = <<"task0", 0>>
  /\ cs' = KERNEL_CS
  /\ iflag' = FALSE
  /\ asked' = <<regs>>
  /\ UNCHANGED <<regs, tss, mem, printed, saved, offset>>
-----------------------------------------------------------------------------
Step ==
  \/ Push \/ PushValue \/ Pop \/ Mov \/ StoreRax \/ AddRsp \/ StiSubRsp
  \/ SwitchRsp \/ Jmp \/ Call \/ StiIretq \/ Sysexit
  \/ __switch_to \/ init \/ do_execve \/ system_call_function \/ do_IRQ
  \/ Sysenter \/ \E nr \in Calls : UserPrepares(nr)

Next == Step \/ Interrupt \/ init_astray \/ Lost

\* the processor never stops; interrupts do not come so fast that the
\* interrupted code never executes another instruction
Fairness == WF_vars(Step) /\ SF_vars(saved = <<>> /\ Step)

Spec == Init /\ [][Next]_vars /\ Fairness
-----------------------------------------------------------------------------
(* Properties.                                                             *)

Words ==
  (Assembly \cup CFunctions \cup Stacks \cup Registers
   \cup {User, "lost", "user_stack", "context", "int", "junk", "str", "nr", "IF", "-1",
         "KERNEL_CS", "USER_CS", "KERNEL_DS", "USER_DS"}) \X Nat

\* The type of every variable: the assembly of kernel/entry.S and the frame
\* macros never move the stack pointer past the base of a kernel stack.
TypeOK ==
  /\ \A r \in Registers : regs[r] \in Words
  /\ cs \in {KERNEL_CS, USER_CS}
  /\ iflag \in BOOLEAN
  /\ rip \in Words
  /\ rsp \in (Stacks \X (0..Depth)) \cup {UserStack}
  /\ tss \in Stacks
  /\ \A s \in Stacks : \A n \in 1..Depth : mem[s][n] \in Words
  /\ \A n \in DOMAIN printed : printed[n] \in Words
  /\ Len(saved) =< 1 /\ Len(asked) =< 1
  /\ offset \in 0 .. 7

\* Every ret, iretq, lretq, sysexit and indirect call goes to an instruction
\* of the program, in the ring it belongs to: kernel labels at ring 0, the
\* user program at ring 3.  Control is lost in one place only: in init, when
\* the task is not on a multiple of STACK_SIZE.
ControlInCode ==
  /\ \/ rip[1] \in Assembly /\ rip[2] \in DOMAIN CodeOf(rip[1])
     \/ rip[1] \in CFunctions /\ rip[2] = 1
     \/ rip[1] = User /\ rip[2] \in 1..3
     \/ rip = Nowhere /\ offset # 0 /\ saved = <<>> /\ asked = <<>>
  /\ cs = USER_CS <=> rip[1] = User

\* iretq gives the interrupted code back every register, the segments, the
\* ring, the instruction and stack pointers and the words it had on the
\* stack, wherever between two instructions the interrupt came.
InterruptsTransparent ==
  [][saved # <<>> /\ saved' = <<>> =>
       /\ regs' = saved[1].regs
       /\ cs' = saved[1].cs
       /\ rip' = saved[1].rip
       /\ rsp' = saved[1].rsp
       /\ iflag' = TRUE
       /\ Live(mem', rsp') = saved[1].live]_vars

\* What the C handlers read through their struct pt_regs pointer is what the
\* interrupted code, or the caller of sysenter, had in the registers: the
\* push order of the assembly is the field order of include/ptrace.h.
HandlersSeeRegisters ==
  LET p == regs["rdi"]
  IN /\ In("do_IRQ") =>
          /\ \A r \in Registers : FieldAt(p, r) = saved[1].regs[r]
          /\ FieldAt(p, "errcode") = Num(0)
          /\ FieldAt(p, "rip") = saved[1].rip
          /\ FieldAt(p, "cs") = saved[1].cs
          /\ FieldAt(p, "rsp") = saved[1].rsp
     /\ In("system_call_function") =>
          \A r \in Registers : FieldAt(p, r) = asked[1][r]

\* sysexit returns to the instruction after sysenter with every register the
\* caller had, except rax, which holds what the system call returned.
SystemCallReturns ==
  [][asked # <<>> /\ asked' = <<>> =>
       /\ regs' = [asked[1] EXCEPT !["rax"] = IF @ = Num(1) THEN Num(0)
                                              ELSE Word("-1")]
       /\ rip' = UserReturn
       /\ rsp' = UserStack
       /\ iflag' = TRUE]_vars

\* The forked thread calls init with the argument given to kernel_thread,
\* wherever do_fork put it.  If init finds its task, on a multiple of
\* STACK_SIZE, do_execve makes ret_system_call enter the user program at its
\* first instruction, on its own stack, with null data segments and rax 0; of
\* a thread that init sends astray nothing more is said.
ThreadStarts ==
  /\ In("init") => regs["rdi"] = Arg /\ rsp = <<"task1", 1>>
  /\ rip = <<User, 1>> => /\ rsp = UserStack
                          /\ regs["ds"] = Num(0) /\ regs["es"] = Num(0)
                          /\ regs["rax"] = Num(0)

\* If do_fork put the task on a multiple of STACK_SIZE, the program gets on
\* behind sysenter, whatever interrupts come, and it sees the result 0 exactly
\* when its own string was printed, once.
SystemCallCompletes ==
  offset = 0 =>
    []<>(rip = UserReturn /\ (regs["rax"] = Num(0) <=> printed = <<Str>>))

\* The words that task 0 left on its stack when switch_to suspended it
\* (thread_struct, "process switch state", keeps only rsp and rip) change
\* inside a system call only: MSR 0x175 stays at task 0's rsp0, so init's
\* calls build their frame over them, but no interrupt, which takes the stack
\* that __switch_to put into the TSS, and nothing else in the life of the
\* thread comes near.
OnlyCallsTouchTask0 ==
  [][asked = <<>> =>
       \A n \in 1..Context : mem'["task0"][n] = mem["task0"][n]]_vars
=============================================================================
