-------------------------- MODULE TrapFrameProofs --------------------------
(***************************************************************************)
(* Proofs about TrapFrame, for every depth of the context that task 0      *)
(* leaves behind, every set of system calls and any number of interrupts.  *)
(*                                                                         *)
(* The invariant runs the program symbolically.  Saving and Popping say    *)
(* what is on the stack and in the registers in the middle of the two      *)
(* lists of instructions that all entries and exits share; Base says where *)
(* the thread is; Overlay says where the handler is that interrupted it,   *)
(* while Base goes on to hold of the interrupted context.                  *)
(***************************************************************************)
EXTENDS TrapFrame, TLAPS

-----------------------------------------------------------------------------
(* The shared lists.                                                       *)

\* the j-th instruction of the list that saves the registers, from es on
SaveInstr(j) ==
  CASE j = 1 -> <<"mov", "es", "rax">>
    [] j \in {2, 4} -> <<"push", "rax">>
    [] j = 3 -> <<"mov", "ds", "rax">>
    [] j = 5 -> <<"set", "rax", Num(0)>>
    [] j \in 6 .. 19 -> <<"push", pt_regs[20 - j]>>
    [] j = 20 -> <<"set", "rdx", KERNEL_DS>>
    [] j = 21 -> <<"mov", "rdx", "ds">>
    [] j = 22 -> <<"mov", "rdx", "es">>
    [] j = 23 -> <<"lea_rsp", "rdi">>

\* the j-th instruction of the list that restores them
PopInstr(j) ==
  CASE j \in 1 .. 14 -> <<"pop", pt_regs[j]>>
    [] j \in {15, 17, 19} -> <<"pop", "rax">>
    [] j = 16 -> <<"mov", "rax", "ds">>
    [] j = 18 -> <<"mov", "rax", "es">>

\* words of the frame on the stack before the j-th instruction of each
SaveHeight(j) ==
  IF j <= 2 THEN 8 ELSE IF j <= 4 THEN 9 ELSE IF j = 5 THEN 10
  ELSE IF j <= 20 THEN j + 4 ELSE 24
PopHeight(j) ==
  IF j <= 15 THEN 25 - j ELSE IF j <= 17 THEN 9 ELSE IF j <= 19 THEN 8 ELSE 7

\* A frame above word b of stack s holds the registers E, as far as they are
\* in D, in its words 8 to h.
Holds(s, b, E, D, h) ==
  \A k \in 8 .. h : pt_regs[25 - k] \in D => mem[s][b + k] = E[pt_regs[25 - k]]

\* before the j-th instruction of the first list, registers rg, stack pointer sp
Saving(j, s, b, E, rg, sp) ==
  /\ sp = <<s, b + SaveHeight(j)>>
  /\ Holds(s, b, E, Registers, SaveHeight(j))
  /\ \A r \in GPRs \ {"rax", "rdx", "rdi"} : rg[r] = E[r]
  /\ j <= 20 => rg["rdx"] = E["rdx"]
  /\ j <= 23 => rg["rdi"] = E["rdi"]
  /\ j = 24 => rg["rdi"] = <<s, b + 24>>
  /\ j <= 1 => rg["es"] = E["es"]
  /\ j <= 3 => rg["ds"] = E["ds"]
  /\ j = 2 => rg["rax"] = E["es"]
  /\ j = 4 => rg["rax"] = E["ds"]

\* before the j-th instruction of the second list
Popping(j, s, b, E, D, rg, sp) ==
  /\ sp = <<s, b + PopHeight(j)>>
  /\ Holds(s, b, E, D, PopHeight(j))
  /\ \A i \in 1 .. 14 : i < j /\ pt_regs[i] \in D => rg[pt_regs[i]] = E[pt_regs[i]]
  /\ j = 16 /\ "ds" \in D => rg["rax"] = E["ds"]
  /\ j >= 17 /\ "ds" \in D => rg["ds"] = E["ds"]
  /\ j = 18 /\ "es" \in D => rg["rax"] = E["es"]
  /\ j >= 19 /\ "es" \in D => rg["es"] = E["es"]
  /\ j = 20 /\ "rax" \in D => rg["rax"] = E["rax"]

-----------------------------------------------------------------------------
(* Where the thread is: at ip, on stack sp, with registers rg.             *)

ThreadRegs == [r \in Registers |-> ThreadFrame(r)]
ThreadWords == \A k \in 1 .. 24 : mem["task1"][k] = ThreadFrame(pt_regs[25 - k])

InSwitch(rg, ip, sp) ==
  /\ asked = <<>> /\ ThreadWords
  /\ \/ \E i \in 1 .. 3 : ip = <<"switch_to", i>> /\ sp = <<"task0", Context + (i - 1)>>
     \/ \E i \in 4 .. 5 : ip = <<"switch_to", i>> /\ sp = <<"task1", 24>>
     \/ /\ ip \in {<<"switch_to", 6>>, <<"__switch_to", 1>>} /\ sp = <<"task1", 25>>
        /\ mem["task1"][25] = <<"kernel_thread_func", 1>>

InThread(rg, ip, sp) ==
  /\ asked = <<>> /\ tss = "task1"
  /\ \/ \E j \in 1 .. 20 : /\ ip = <<"kernel_thread_func", j>>
                           /\ Popping(j, "task1", 0, ThreadRegs, {"rbx", "rdx"}, rg, sp)
     \/ /\ ip = <<"kernel_thread_func", 21>> /\ sp = <<"task1", 0>>
        /\ rg["rbx"] = <<"init", 1>> /\ rg["rdx"] = Arg
     \/ /\ ip = <<"kernel_thread_func", 22>> /\ sp = <<"task1", 0>>
        /\ rg["rbx"] = <<"init", 1>> /\ rg["rdi"] = Arg
     \/ ip = <<"init", 1>> /\ sp = <<"task1", 1>> /\ rg["rdi"] = Arg
     \/ /\ ip = <<"do_execve", 1>> /\ sp = <<"task1", 25>> /\ rg["rdi"] = <<"task1", 24>>
        /\ mem["task1"][25] = <<"ret_system_call", 1>>

\* in ret_system_call, with the registers E of D to be given to the user
Leaving(rg, ip, sp, s, E, D) ==
  \/ /\ ip = <<"ret_system_call", 1>> /\ sp = <<s, 24>> /\ rg["rax"] = E["rax"]
     /\ Holds(s, 0, E, D \ {"rax"}, 24)
  \/ \E j \in 1 .. 20 : /\ ip = <<"ret_system_call", j + 1>>
                        /\ Popping(j, s, 0, E, D, rg, sp)
  \/ /\ ip = <<"ret_system_call", 22>> /\ sp = <<s, 0>>
     /\ \A r \in D : rg[r] = E[r]

ExecFields == {"rax", "rcx", "rdx", "ds", "es"}
ExecRegs == [r \in Registers |-> IF r = "rax" THEN Num(0) ELSE UserFrame(r)]

InExec(rg, ip, sp) ==
  asked = <<>> /\ tss = "task1" /\ Leaving(rg, ip, sp, "task1", ExecRegs, ExecFields)

InUser(rg, ip, sp) ==
  /\ asked = <<>> /\ tss = "task1" /\ sp = UserStack
  /\ \/ /\ ip = <<User, 1>> /\ rg["ds"] = Num(0) /\ rg["es"] = Num(0)
        /\ rg["rax"] = Num(0)
     \/ ip = <<User, 2>> /\ rg["rdx"] = UserReturn /\ rg["rcx"] = UserStack
     \/ ip = UserReturn

\* what system_call_function returns, and the registers of the user then
Answer == IF asked[1]["rax"] = Num(1) THEN Num(0) ELSE Word("-1")
Answered == [asked[1] EXCEPT !["rax"] = Answer]

InCall(rg, ip, sp) ==
  /\ asked # <<>> /\ tss = "task1"
  /\ asked[1]["rdx"] = UserReturn /\ asked[1]["rcx"] = UserStack
  /\ \/ ip = <<"system_call", 1>> /\ sp = <<"task0", 0>> /\ rg = asked[1]
     \/ ip = <<"system_call", 2>> /\ sp = <<"task0", 7>> /\ rg = asked[1]
     \/ \E j \in 1 .. 24 : /\ ip = <<"system_call", j + 2>>
                           /\ Saving(j, "task0", 0, asked[1], rg, sp)
     \/ /\ ip = <<"system_call_function", 1>> /\ sp = <<"task0", 25>>
        /\ rg["rdi"] = <<"task0", 24>> /\ mem["task0"][25] = <<"system_call", 27>>
        /\ Holds("task0", 0, asked[1], Registers, 24)
     \/ /\ ip = <<"system_call", 27>> /\ sp = <<"task0", 24>> /\ rg["rax"] = Answer
        /\ Holds("task0", 0, asked[1], Registers, 24)
     \/ Leaving(rg, ip, sp, "task0", Answered, Registers)

Base(rg, ring, ip, sp) ==
  /\ ring = IF ip[1] = User THEN USER_CS ELSE KERNEL_CS
  /\ \/ InSwitch(rg, ip, sp) \/ InThread(rg, ip, sp) \/ InExec(rg, ip, sp)
     \/ InUser(rg, ip, sp) \/ InCall(rg, ip, sp)

-----------------------------------------------------------------------------
(* Where the handler is that interrupted context c.                        *)

\* the stack it uses, and how many words lie below its frame
StackOf(c) == IF c.cs = USER_CS THEN tss ELSE c.rsp[1]
Below(c) == IF c.cs = USER_CS THEN 0 ELSE c.rsp[2] + (c.rsp[2] % 2)

\* what the processor pushed
Pushed(c, s, b) ==
  /\ mem[s][b + 5] = c.rip /\ mem[s][b + 4] = c.cs
  /\ mem[s][b + 3] = Word("IF") /\ mem[s][b + 2] = c.rsp

Handling(c, s, b) ==
  \/ rip = <<"Build_IRQ", 1>> /\ rsp = <<s, b + 5>> /\ regs = c.regs
  \/ /\ mem[s][b + 6] = Num(0)
     /\ \/ rip = <<"Build_IRQ", 2>> /\ rsp = <<s, b + 6>> /\ regs = c.regs
        \/ rip = <<"Build_IRQ", 3>> /\ rsp = <<s, b + 7>> /\ regs = c.regs
        \/ \E j \in 1 .. 24 : /\ rip = <<"Build_IRQ", j + 3>>
                              /\ Saving(j, s, b, c.regs, regs, rsp)
        \/ /\ rip = <<"Build_IRQ", 28>> /\ rsp = <<s, b + 24>>
           /\ regs["rax"] = <<"ret_from_intr", 1>> /\ regs["rdi"] = <<s, b + 24>>
           /\ Holds(s, b, c.regs, Registers, 24)
        \/ /\ rip \in {<<"Build_IRQ", 29>>, <<"Build_IRQ", 30>>, <<"do_IRQ", 1>>}
           /\ rsp = <<s, b + 25>> /\ mem[s][b + 25] = <<"ret_from_intr", 1>>
           /\ regs["rdi"] = <<s, b + 24>> /\ Holds(s, b, c.regs, Registers, 24)
  \/ \E j \in 1 .. 20 : /\ rip = <<"ret_from_intr", j>>
                        /\ Popping(j, s, b, c.regs, Registers, regs, rsp)
  \/ rip = <<"ret_from_intr", 21>> /\ rsp = <<s, b + 5>> /\ regs = c.regs

Overlay(c) ==
  /\ c.regs \in [Registers -> Words] /\ c.rip # <<"system_call", 1>>
  /\ cs = KERNEL_CS /\ iflag = FALSE
  /\ Pushed(c, StackOf(c), Below(c)) /\ Handling(c, StackOf(c), Below(c))
  /\ Live(mem, c.rsp) = c.live

-----------------------------------------------------------------------------
(* The inductive invariant.                                                *)

Shapes ==
  /\ regs \in [Registers -> Words] /\ mem \in [Stacks -> [1 .. Depth -> Words]]
  /\ tss \in Stacks /\ printed \in Seq(Words)
  /\ asked # <<>> => asked[1] \in [Registers -> Words] /\ asked = <<asked[1]>>

Running ==
  /\ saved = <<>> /\ Base(regs, cs, rip, rsp)
  /\ iflag = (rip # <<"system_call", 1>>)

Interrupted ==
  \E c : saved = <<c>> /\ Base(c.regs, c.cs, c.rip, c.rsp) /\ Overlay(c)

\* init has lost control
Astray ==
  /\ rip = Nowhere /\ offset # 0 /\ saved = <<>> /\ asked = <<>>
  /\ cs = KERNEL_CS /\ iflag = TRUE /\ rsp = <<"task1", 1>>

IInv == Shapes /\ offset \in 0 .. 7 /\ (Running \/ Interrupted \/ Astray)

-----------------------------------------------------------------------------
(* The instructions.                                                       *)

\* The code, read off the lists.
LEMMA PopListing ==
  Len(PopAll) = 19 /\ \A j \in 1 .. 19 : PopAll[j] = PopInstr(j)
<1>1. /\ Len(PopAll) = 19
      /\ \A j \in 1 .. 14 : PopAll[j] = <<"pop", pt_regs[j]>>
      /\ PopAll[15] = <<"pop", "rax">> /\ PopAll[16] = <<"mov", "rax", "ds">>
      /\ PopAll[17] = <<"pop", "rax">> /\ PopAll[18] = <<"mov", "rax", "es">>
      /\ PopAll[19] = <<"pop", "rax">>
  BY DEF PopAll, Pops, pt_regs
<1>2. QED
  BY <1>1 DEF PopInstr

LEMMA SaveListing ==
  /\ DOMAIN Build_IRQ = 1 .. 30
  /\ Build_IRQ[1] = <<"push_value", Num(0)>>
  /\ Build_IRQ[2] = <<"push", "rax">> /\ Build_IRQ[3] = <<"push", "rax">>
  /\ \A j \in 1 .. 23 : Build_IRQ[j + 3] = SaveInstr(j)
  /\ Build_IRQ[27] = <<"set", "rax", <<"ret_from_intr", 1>>>>
  /\ Build_IRQ[28] = <<"push", "rax">>
  /\ Build_IRQ[29] = <<"set", "rsi", Word("nr")>>
  /\ Build_IRQ[30] = <<"jmp", "do_IRQ">>
<1>1. /\ Build_IRQ[1] = <<"push_value", Num(0)>>
      /\ Build_IRQ[2] = <<"push", "rax">> /\ Build_IRQ[3] = <<"push", "rax">>
      /\ Build_IRQ[4] = SaveInstr(1) /\ Build_IRQ[5] = SaveInstr(2)
      /\ Build_IRQ[6] = SaveInstr(3) /\ Build_IRQ[7] = SaveInstr(4)
      /\ Build_IRQ[8] = SaveInstr(5)
  BY DEF Build_IRQ, SAVE_ALL_REGS, Pushes, SaveInstr
<1>2. \A j \in 6 .. 19 : Build_IRQ[j + 3] = <<"push", pt_regs[20 - j]>>
  BY DEF Build_IRQ, SAVE_ALL_REGS, Pushes, pt_regs
<1>3. /\ Build_IRQ[23] = SaveInstr(20) /\ Build_IRQ[24] = SaveInstr(21)
      /\ Build_IRQ[25] = SaveInstr(22) /\ Build_IRQ[26] = SaveInstr(23)
      /\ Build_IRQ[27] = <<"set", "rax", <<"ret_from_intr", 1>>>>
      /\ Build_IRQ[28] = <<"push", "rax">>
      /\ Build_IRQ[29] = <<"set", "rsi", Word("nr")>>
      /\ Build_IRQ[30] = <<"jmp", "do_IRQ">>
  BY DEF Build_IRQ, SAVE_ALL_REGS, Pushes, SaveInstr
<1>4. DOMAIN Build_IRQ = 1 .. 30
  BY DEF Build_IRQ, SAVE_ALL_REGS, Pushes
<1>5. \A j \in 6 .. 19 : SaveInstr(j) = <<"push", pt_regs[20 - j]>>
  BY DEF SaveInstr
<1>6. \A j \in 1 .. 23 : Build_IRQ[j + 3] = SaveInstr(j)
  <2>1. SUFFICES ASSUME NEW j \in 1 .. 23 PROVE Build_IRQ[j + 3] = SaveInstr(j)
    OBVIOUS
  <2>3. CASE j \in 6 .. 19
    BY <1>2, <1>5, <2>3
  <2>4. CASE j \in 1 .. 5
    BY <1>1, <2>4
  <2>5. CASE j \in 20 .. 23
    BY <1>3, <2>5
  <2>6. QED
    BY <2>3, <2>4, <2>5
<1>7. QED
  BY <1>1, <1>3, <1>4, <1>6

LEMMA CallListing ==
  /\ DOMAIN system_call = 1 .. 27
  /\ system_call[1] = <<"sti_sub_rsp", 7>> /\ system_call[2] = <<"push", "rax">>
  /\ \A j \in 1 .. 23 : system_call[j + 2] = SaveInstr(j)
  /\ system_call[26] = <<"call", "system_call_function">>
  /\ system_call[27] = <<"jmp", "ret_system_call">>
<1>1. /\ system_call[1] = <<"sti_sub_rsp", 7>> /\ system_call[2] = <<"push", "rax">>
      /\ system_call[3] = SaveInstr(1) /\ system_call[4] = SaveInstr(2)
      /\ system_call[5] = SaveInstr(3) /\ system_call[6] = SaveInstr(4)
      /\ system_call[7] = SaveInstr(5)
  BY DEF system_call, Pushes, SaveInstr
<1>2. \A j \in 6 .. 19 : system_call[j + 2] = <<"push", pt_regs[20 - j]>>
  BY DEF system_call, Pushes, pt_regs
<1>3. /\ system_call[22] = SaveInstr(20) /\ system_call[23] = SaveInstr(21)
      /\ system_call[24] = SaveInstr(22) /\ system_call[25] = SaveInstr(23)
      /\ system_call[26] = <<"call", "system_call_function">>
      /\ system_call[27] = <<"jmp", "ret_system_call">>
  BY DEF system_call, Pushes, SaveInstr
<1>4. DOMAIN system_call = 1 .. 27
  BY DEF system_call, Pushes
<1>5. \A j \in 6 .. 19 : SaveInstr(j) = <<"push", pt_regs[20 - j]>>
  BY DEF SaveInstr
<1>6. \A j \in 1 .. 23 : system_call[j + 2] = SaveInstr(j)
  <2>1. SUFFICES ASSUME NEW j \in 1 .. 23 PROVE system_call[j + 2] = SaveInstr(j)
    OBVIOUS
  <2>3. CASE j \in 6 .. 19
    BY <1>2, <1>5, <2>3
  <2>4. CASE j \in 1 .. 5
    BY <1>1, <2>4
  <2>5. CASE j \in 20 .. 23
    BY <1>3, <2>5
  <2>6. QED
    BY <2>3, <2>4, <2>5
<1>7. QED
  BY <1>1, <1>3, <1>4, <1>6

LEMMA ExitListing ==
  /\ DOMAIN ret_from_intr = 1 .. 21 /\ DOMAIN kernel_thread_func = 1 .. 22
  /\ DOMAIN ret_system_call = 1 .. 22
  /\ \A j \in 1 .. 19 : /\ ret_from_intr[j] = PopInstr(j)
                         /\ kernel_thread_func[j] = PopInstr(j)
                         /\ ret_system_call[j + 1] = PopInstr(j)
  /\ ret_from_intr[20] = <<"add_rsp", 2>> /\ ret_from_intr[21] = <<"sti_iretq">>
  /\ kernel_thread_func[20] = <<"add_rsp", 7>>
  /\ kernel_thread_func[21] = <<"mov", "rdx", "rdi">>
  /\ kernel_thread_func[22] = <<"call_rbx">>
  /\ ret_system_call[1] = <<"store_rax", 16>>
  /\ ret_system_call[21] = <<"add_rsp", 7>> /\ ret_system_call[22] = <<"sysexit">>
<1>1. /\ DOMAIN ret_from_intr = 1 .. 21
      /\ \A j \in 1 .. 19 : ret_from_intr[j] = PopAll[j]
      /\ ret_from_intr[20] = <<"add_rsp", 2>> /\ ret_from_intr[21] = <<"sti_iretq">>
  BY DEF ret_from_intr, PopAll, Pops
<1>2. /\ DOMAIN kernel_thread_func = 1 .. 22
      /\ \A j \in 1 .. 19 : kernel_thread_func[j] = PopAll[j]
      /\ kernel_thread_func[20] = <<"add_rsp", 7>>
      /\ kernel_thread_func[21] = <<"mov", "rdx", "rdi">>
      /\ kernel_thread_func[22] = <<"call_rbx">>
  BY DEF kernel_thread_func, PopAll, Pops
<1>3. /\ DOMAIN ret_system_call = 1 .. 22
      /\ \A j \in 1 .. 19 : ret_system_call[j + 1] = PopAll[j]
      /\ ret_system_call[1] = <<"store_rax", 16>>
      /\ ret_system_call[21] = <<"add_rsp", 7>> /\ ret_system_call[22] = <<"sysexit">>
  BY DEF ret_system_call, PopAll, Pops
<1>4. QED
  BY <1>1, <1>2, <1>3, PopListing

LEMMA SwitchListing ==
  /\ DOMAIN switch_to = 1 .. 6
  /\ switch_to[1] = <<"push", "rbp">> /\ switch_to[2] = <<"push", "rax">>
  /\ switch_to[3] = <<"switch_rsp">>
  /\ switch_to[4] = <<"set", "rax", <<"switch_to", 7>>>>
  /\ switch_to[5] = <<"push_value", <<"kernel_thread_func", 1>>>>
  /\ switch_to[6] = <<"jmp", "__switch_to">>
  BY DEF switch_to

\* Every label has its own code.
LEMMA Labels ==
  /\ CodeOf("Build_IRQ") = Build_IRQ /\ CodeOf("ret_from_intr") = ret_from_intr
  /\ CodeOf("system_call") = system_call /\ CodeOf("ret_system_call") = ret_system_call
  /\ CodeOf("kernel_thread_func") = kernel_thread_func
  /\ CodeOf("switch_to") = switch_to
  BY DEF CodeOf

\* The instruction decides which action a step is.
LEMMA Dispatch ==
  ASSUME Step, rip[1] \in Assembly
  PROVE  /\ Instr[1] = "push" => Push
         /\ Instr[1] = "push_value" => PushValue
         /\ Instr[1] = "pop" => Pop
         /\ Instr[1] \in {"mov", "set", "lea_rsp"} => Mov
         /\ Instr[1] = "store_rax" => StoreRax
         /\ Instr[1] = "add_rsp" => AddRsp
         /\ Instr[1] = "sti_sub_rsp" => StiSubRsp
         /\ Instr[1] = "switch_rsp" => SwitchRsp
         /\ Instr[1] = "jmp" => Jmp
         /\ Instr[1] \in {"call", "call_rbx"} => Call
         /\ Instr[1] = "sti_iretq" => StiIretq
         /\ Instr[1] = "sysexit" => Sysexit
<1>1. /\ ~__switch_to /\ ~init /\ ~do_execve /\ ~system_call_function /\ ~do_IRQ
      /\ ~Sysenter /\ \A nr \in Calls : ~UserPrepares(nr)
  BY DEF Assembly, In, __switch_to, init, do_execve, system_call_function, do_IRQ,
         Sysenter, UserPrepares, User
<1>2. \/ Push \/ PushValue \/ Pop \/ Mov \/ StoreRax \/ AddRsp \/ StiSubRsp
      \/ SwitchRsp \/ Jmp \/ Call \/ StiIretq \/ Sysexit
  BY <1>1 DEF Step
<1>3. /\ Push => Instr[1] = "push"
      /\ PushValue => Instr[1] = "push_value"
      /\ Pop => Instr[1] = "pop"
      /\ StoreRax => Instr[1] = "store_rax"
      /\ AddRsp => Instr[1] = "add_rsp"
      /\ StiSubRsp => Instr[1] = "sti_sub_rsp"
      /\ SwitchRsp => Instr[1] = "switch_rsp"
      /\ Jmp => Instr[1] = "jmp"
      /\ StiIretq => Instr[1] = "sti_iretq"
      /\ Sysexit => Instr[1] = "sysexit"
      /\ Mov => Instr[1] \in {"mov", "set", "lea_rsp"}
      /\ Call => Instr[1] \in {"call", "call_rbx"}
  BY DEF At, Push, PushValue, Pop, StoreRax, AddRsp, StiSubRsp, SwitchRsp, Jmp,
         StiIretq, Sysexit, Mov, Call
<1> HIDE DEF Instr
<1>4. QED
  BY <1>2, <1>3

\* So does the C function.
LEMMA DispatchC ==
  ASSUME Step
  PROVE  /\ In("__switch_to") => __switch_to
         /\ In("init") => init
         /\ In("do_execve") => do_execve
         /\ In("system_call_function") => system_call_function
         /\ In("do_IRQ") => do_IRQ
<1>1. ASSUME rip[1] \notin Assembly
      PROVE  /\ ~Push /\ ~PushValue /\ ~Pop /\ ~Mov /\ ~StoreRax /\ ~AddRsp /\ ~StiSubRsp
             /\ ~SwitchRsp /\ ~Jmp /\ ~Call /\ ~StiIretq /\ ~Sysexit
  BY <1>1 DEF At, Push, PushValue, Pop, StoreRax, AddRsp, StiSubRsp, SwitchRsp, Jmp,
         StiIretq, Sysexit, Mov, Call
<1>2. ASSUME rip[1] \notin Assembly
      PROVE  \/ __switch_to \/ init \/ do_execve \/ system_call_function \/ do_IRQ
             \/ Sysenter \/ \E nr \in Calls : UserPrepares(nr)
  BY <1>1, <1>2 DEF Step
<1>3. /\ __switch_to => In("__switch_to")
      /\ init => In("init")
      /\ do_execve => In("do_execve")
      /\ do_IRQ => In("do_IRQ")
      /\ system_call_function => In("system_call_function")
      /\ Sysenter => rip[1] = User
      /\ \A nr \in Calls : UserPrepares(nr) => rip[1] = User
  BY DEF __switch_to, init, do_execve, system_call_function, do_IRQ, Sysenter,
         UserPrepares
<1>4. /\ \A f : In(f) => rip[1] = f
      /\ \A f \in {"__switch_to", "init", "do_execve", "system_call_function", "do_IRQ"} :
           f \notin Assembly /\ f # User
  BY DEF In, Assembly, User
<1>5. QED
  BY <1>2, <1>3, <1>4

-----------------------------------------------------------------------------
(* What an instruction does.                                               *)

\* it touches no flag and no ghost
Plain ==
  /\ cs' = cs /\ iflag' = iflag /\ tss' = tss
  /\ printed' = printed /\ saved' = saved /\ asked' = asked

\* and no memory but word lo of stack s and what lies above it
Above(s, lo) ==
  \A t \in Stacks, m \in 1 .. Depth : t # s \/ m < lo => mem'[t][m] = mem[t][m]

\* the step is the instruction x
Does(x) == Step /\ rip[1] \in Assembly /\ Instr = x

\* The words that the code puts down are words.
LEMMA WordFacts ==
  /\ Junk \in Words /\ KERNEL_CS \in Words /\ USER_CS \in Words /\ KERNEL_DS \in Words
  /\ Word("USER_DS") \in Words /\ Word("IF") \in Words /\ Word("-1") \in Words
  /\ Word("nr") \in Words /\ Str \in Words /\ UserStack \in Words /\ Nowhere \in Words
  /\ \A k \in Nat : Num(k) \in Words /\ <<"context", k>> \in Words /\ <<User, k>> \in Words
  /\ \A x \in Assembly \cup CFunctions \cup Stacks \cup Registers, k \in Nat :
       <<x, k>> \in Words
  /\ \A w \in Words : w[2] \in Nat
<1> DEFINE N == Assembly \cup CFunctions \cup Stacks \cup Registers
             \cup {User, "lost", "user_stack", "context", "int", "junk", "str", "nr", "IF",
                   "-1", "KERNEL_CS", "USER_CS", "KERNEL_DS", "USER_DS"}
<1>1. Words = N \X Nat
  BY DEF Words
<1>2. /\ {"lost", "user_stack", "context", "int", "junk", "str", "nr", "IF", "-1",
          "KERNEL_CS", "USER_CS", "KERNEL_DS", "USER_DS", User} \subseteq N
      /\ Assembly \cup CFunctions \cup Stacks \cup Registers \subseteq N
  OBVIOUS
<1> HIDE DEF N
<1>3. \A x \in N, k \in Nat : <<x, k>> \in Words
  BY <1>1
<1>4. \A w \in Words : w[2] \in Nat
  BY <1>1
<1>5. QED
  BY <1>2, <1>3, <1>4 DEF Junk, KERNEL_CS, USER_CS, KERNEL_DS, Word, Str, UserStack, Nowhere, Num

LEMMA Put ==
  ASSUME NEW M \in [Stacks -> [1 .. Depth -> Words]], NEW s \in Stacks,
         NEW k \in 1 .. Depth, NEW w \in Words
  PROVE  LET N == [M EXCEPT ![s][k] = w] IN
         /\ N \in [Stacks -> [1 .. Depth -> Words]] /\ N[s][k] = w
         /\ \A t \in Stacks, m \in 1 .. Depth : t # s \/ m # k => N[t][m] = M[t][m]
<1> DEFINE row == [M[s] EXCEPT ![k] = w]
           N == [M EXCEPT ![s] = row]
<1>1. /\ row \in [1 .. Depth -> Words] /\ row[k] = w
      /\ \A m \in 1 .. Depth : m # k => row[m] = M[s][m]
  OBVIOUS
<1> HIDE DEF row
<1>2. /\ N \in [Stacks -> [1 .. Depth -> Words]] /\ N[s] = row
      /\ \A t \in Stacks : t # s => N[t] = M[t]
  BY <1>1
<1>3. N = [M EXCEPT ![s][k] = w]
  BY DEF row
<1> HIDE DEF N
<1>4. QED
  BY <1>1, <1>2, <1>3

LEMMA DoesPush ==
  ASSUME Shapes, NEW r \in Registers, Does(<<"push", r>>),
         NEW s \in Stacks, NEW h \in Nat, rsp = <<s, h>>, h < Depth
  PROVE  /\ Shapes' /\ Plain /\ rip' = <<rip[1], rip[2] + 1>> /\ regs' = regs
         /\ rsp' = <<s, h + 1>> /\ mem'[s][h + 1] = regs[r] /\ Above(s, h + 1)
<1>1. Push
  BY Dispatch DEF Does
<1>2. /\ Plain /\ rip' = <<rip[1], rip[2] + 1>> /\ regs' = regs /\ rsp' = <<s, h + 1>>
      /\ mem' = [mem EXCEPT ![s][h + 1] = regs[r]]
  BY <1>1 DEF Push, PushWord, Advance, Plain, ghosts, Does
<1>3. h + 1 \in 1 .. Depth /\ regs[r] \in Words
  BY BoundsAssumption DEF Shapes
<1>4. /\ mem' \in [Stacks -> [1 .. Depth -> Words]] /\ mem'[s][h + 1] = regs[r]
      /\ Above(s, h + 1)
  <2>1. mem \in [Stacks -> [1 .. Depth -> Words]]
    BY DEF Shapes
  <2>2. /\ mem' \in [Stacks -> [1 .. Depth -> Words]] /\ mem'[s][h + 1] = regs[r]
        /\ \A t \in Stacks, m \in 1 .. Depth : t # s \/ m # h + 1 => mem'[t][m] = mem[t][m]
    BY <1>2, <1>3, <2>1, Put
  <2>3. QED
    BY <1>3, <2>2 DEF Above
<1>5. Shapes'
  BY <1>2, <1>4 DEF Shapes, Plain
<1>6. QED
  BY <1>2, <1>4, <1>5

LEMMA DoesPushValue ==
  ASSUME Shapes, NEW w \in Words, Does(<<"push_value", w>>),
         NEW s \in Stacks, NEW h \in Nat, rsp = <<s, h>>, h < Depth
  PROVE  /\ Shapes' /\ Plain /\ rip' = <<rip[1], rip[2] + 1>> /\ regs' = regs
         /\ rsp' = <<s, h + 1>> /\ mem'[s][h + 1] = w /\ Above(s, h + 1)
<1>1. PushValue
  BY Dispatch DEF Does
<1>2. /\ Plain /\ rip' = <<rip[1], rip[2] + 1>> /\ regs' = regs /\ rsp' = <<s, h + 1>>
      /\ mem' = [mem EXCEPT ![s][h + 1] = w]
  BY <1>1 DEF PushValue, PushWord, Advance, Plain, ghosts, Does
<1>3. h + 1 \in 1 .. Depth
  BY BoundsAssumption
<1>4. /\ mem' \in [Stacks -> [1 .. Depth -> Words]] /\ mem'[s][h + 1] = w
      /\ Above(s, h + 1)
  <2>1. mem \in [Stacks -> [1 .. Depth -> Words]]
    BY DEF Shapes
  <2>2. /\ mem' \in [Stacks -> [1 .. Depth -> Words]] /\ mem'[s][h + 1] = w
        /\ \A t \in Stacks, m \in 1 .. Depth : t # s \/ m # h + 1 => mem'[t][m] = mem[t][m]
    BY <1>2, <1>3, <2>1, Put
  <2>3. QED
    BY <1>3, <2>2 DEF Above
<1>5. Shapes'
  BY <1>2, <1>4 DEF Shapes, Plain
<1>6. QED
  BY <1>2, <1>4, <1>5

\* What Drop leaves of the memory.
LEMMA Dropped ==
  ASSUME Shapes, NEW s \in Stacks, NEW h \in Nat, NEW k \in Nat, k <= h, h <= Depth,
         rsp = <<s, h>>, Drop(k)
  PROVE  /\ mem' \in [Stacks -> [1 .. Depth -> Words]] /\ rsp' = <<s, h - k>>
         /\ Above(s, h - k + 1)
<1>1. mem' = [mem EXCEPT ![s] = [m \in 1 .. Depth |->
                IF m \in h - k + 1 .. h THEN Junk ELSE mem[s][m]]]
  BY DEF Drop, Clear, Shapes
<1>2. Junk \in Words
  BY WordFacts
<1> DEFINE row == [m \in 1 .. Depth |-> IF m \in h - k + 1 .. h THEN Junk ELSE mem[s][m]]
<1>3. mem \in [Stacks -> [1 .. Depth -> Words]]
  BY DEF Shapes
<1>4. /\ row \in [1 .. Depth -> Words]
      /\ \A m \in 1 .. Depth : m < h - k + 1 => row[m] = mem[s][m]
  BY <1>2, <1>3, BoundsAssumption
<1> HIDE DEF row
<1>5. mem' = [mem EXCEPT ![s] = row]
  BY <1>1 DEF row
<1>6. QED
  BY <1>3, <1>4, <1>5 DEF Above, Drop

LEMMA DoesPop ==
  ASSUME Shapes, NEW r \in Registers, Does(<<"pop", r>>),
         NEW s \in Stacks, NEW h \in 1 .. Depth, rsp = <<s, h>>
  PROVE  /\ Shapes' /\ Plain /\ rip' = <<rip[1], rip[2] + 1>>
         /\ regs' = [regs EXCEPT ![r] = mem[s][h]]
         /\ rsp' = <<s, h - 1>> /\ Above(s, h)
<1>1. Pop
  BY Dispatch DEF Does
<1>2. /\ Plain /\ rip' = <<rip[1], rip[2] + 1>> /\ Drop(1)
      /\ regs' = [regs EXCEPT ![r] = mem[s][h]]
  BY <1>1 DEF Pop, Advance, Plain, ghosts, Does, Stack
<1>3. h \in Nat /\ 1 <= h /\ h <= Depth /\ h - 1 + 1 = h
  BY BoundsAssumption
<1>4. /\ mem' \in [Stacks -> [1 .. Depth -> Words]] /\ rsp' = <<s, h - 1>>
      /\ Above(s, h)
  BY <1>2, <1>3, Dropped
<1>5. regs' \in [Registers -> Words]
  BY <1>2 DEF Shapes
<1>6. Shapes'
  BY <1>2, <1>4, <1>5 DEF Shapes, Plain
<1>7. QED
  BY <1>2, <1>4, <1>6

LEMMA DoesMov ==
  ASSUME Shapes, NEW r \in Registers, NEW q \in Registers, Does(<<"mov", q, r>>)
  PROVE  /\ Shapes' /\ Plain /\ rip' = <<rip[1], rip[2] + 1>>
         /\ regs' = [regs EXCEPT ![r] = regs[q]] /\ rsp' = rsp /\ mem' = mem
<1>1. Mov
  BY Dispatch DEF Does
<1>2. /\ Plain /\ rip' = <<rip[1], rip[2] + 1>>
      /\ regs' = [regs EXCEPT ![r] = regs[q]] /\ rsp' = rsp /\ mem' = mem
  BY <1>1 DEF Mov, At, Advance, Plain, ghosts, Does
<1>3. Shapes'
  BY <1>2 DEF Shapes, Plain
<1>4. QED
  BY <1>2, <1>3

LEMMA DoesSet ==
  ASSUME Shapes, NEW r \in Registers, NEW w \in Words, Does(<<"set", r, w>>)
  PROVE  /\ Shapes' /\ Plain /\ rip' = <<rip[1], rip[2] + 1>>
         /\ regs' = [regs EXCEPT ![r] = w] /\ rsp' = rsp /\ mem' = mem
<1>1. Mov
  BY Dispatch DEF Does
<1>2. /\ Plain /\ rip' = <<rip[1], rip[2] + 1>>
      /\ regs' = [regs EXCEPT ![r] = w] /\ rsp' = rsp /\ mem' = mem
  BY <1>1 DEF Mov, At, Advance, Plain, ghosts, Does
<1>3. Shapes'
  BY <1>2 DEF Shapes, Plain
<1>4. QED
  BY <1>2, <1>3

LEMMA DoesLea ==
  ASSUME Shapes, NEW r \in Registers, rsp \in Words, Does(<<"lea_rsp", r>>)
  PROVE  /\ Shapes' /\ Plain /\ rip' = <<rip[1], rip[2] + 1>>
         /\ regs' = [regs EXCEPT ![r] = rsp] /\ rsp' = rsp /\ mem' = mem
<1>1. Mov
  BY Dispatch DEF Does
<1>2. /\ Plain /\ rip' = <<rip[1], rip[2] + 1>>
      /\ regs' = [regs EXCEPT ![r] = rsp] /\ rsp' = rsp /\ mem' = mem
  BY <1>1 DEF Mov, At, Advance, Plain, ghosts, Does
<1>3. Shapes'
  BY <1>2 DEF Shapes, Plain
<1>4. QED
  BY <1>2, <1>3

-----------------------------------------------------------------------------
(* Saving and restoring.                                                   *)

\* struct pt_regs: 14 general registers, ds, es and rax come first.
LEMMA Fields ==
  /\ \A i \in 1 .. 14 : pt_regs[i] \in GPRs \ {"rax"}
  /\ \A r \in GPRs \ {"rax"} : \E i \in 1 .. 14 : pt_regs[i] = r
  /\ \A i, k \in 1 .. 14 : pt_regs[i] = pt_regs[k] => i = k
  /\ pt_regs[15] = "ds" /\ pt_regs[16] = "es" /\ pt_regs[17] = "rax"
  /\ pt_regs[11] = "rdx" /\ pt_regs[13] = "rdi" /\ pt_regs[9] = "rbx" /\ pt_regs[10] = "rcx"
  /\ {"rax", "rdx", "rdi", "rsi", "rbx", "rcx"} \subseteq GPRs
  /\ "ds" \notin GPRs /\ "es" \notin GPRs
  /\ Registers = GPRs \cup {"ds", "es"}
<1>1. \A i \in 1 .. 14 : pt_regs[i] \in GPRs \ {"rax"}
  BY DEF pt_regs, GPRs
<1>2. \A r \in GPRs \ {"rax"} : \E i \in 1 .. 14 : pt_regs[i] = r
  <2>1. /\ pt_regs[1] = "r15" /\ pt_regs[2] = "r14" /\ pt_regs[3] = "r13"
        /\ pt_regs[4] = "r12" /\ pt_regs[5] = "r11" /\ pt_regs[6] = "r10"
        /\ pt_regs[7] = "r9" /\ pt_regs[8] = "r8" /\ pt_regs[9] = "rbx"
        /\ pt_regs[10] = "rcx" /\ pt_regs[11] = "rdx" /\ pt_regs[12] = "rsi"
        /\ pt_regs[13] = "rdi" /\ pt_regs[14] = "rbp"
    BY DEF pt_regs
  <2>2. QED
    BY <2>1 DEF GPRs
<1>3. \A i, k \in 1 .. 14 : pt_regs[i] = pt_regs[k] => i = k
  BY DEF pt_regs
<1>4. /\ pt_regs[15] = "ds" /\ pt_regs[16] = "es" /\ pt_regs[17] = "rax"
      /\ pt_regs[11] = "rdx" /\ pt_regs[13] = "rdi" /\ pt_regs[9] = "rbx"
      /\ pt_regs[10] = "rcx"
  BY DEF pt_regs
<1>5. /\ {"rax", "rdx", "rdi", "rsi", "rbx", "rcx"} \subseteq GPRs
      /\ "ds" \notin GPRs /\ "es" \notin GPRs /\ Registers = GPRs \cup {"ds", "es"}
  BY DEF GPRs, Registers, Segments
<1>6. QED
  BY <1>1, <1>2, <1>3, <1>4, <1>5

\* Words of the frame below what a step touches stay.
LEMMA HoldsKept ==
  ASSUME NEW s \in Stacks, NEW b \in Nat, NEW E, NEW D, NEW h \in Nat, NEW h2 \in Nat,
         NEW lo \in Nat, Holds(s, b, E, D, h2), h <= h2, Above(s, lo), b + h < lo,
         b + h <= Depth
  PROVE  Holds(s, b, E, D, h)'
  BY BoundsAssumption DEF Holds, Above

\* A register that is pushed becomes the next word.
LEMMA HoldsPush ==
  ASSUME NEW s \in Stacks, NEW b \in Nat, NEW E, NEW D, NEW h \in 7 .. 23,
         Holds(s, b, E, D, h), Above(s, b + h + 1), b + 24 <= Depth,
         mem'[s][b + h + 1] = E[pt_regs[24 - h]]
  PROVE  Holds(s, b, E, D, h + 1)'
<1>1. SUFFICES ASSUME NEW k \in 8 .. h + 1, pt_regs[25 - k] \in D
               PROVE  mem'[s][b + k] = E[pt_regs[25 - k]]
  BY DEF Holds
<1>2. CASE k = h + 1
  <2>1. b + k = b + h + 1 /\ 25 - k = 24 - h
    BY <1>2
  <2>2. QED
    BY <2>1
<1>3. CASE k # h + 1
  <2>1. k \in 8 .. h /\ b + k \in 1 .. Depth /\ b + k < b + h + 1
    BY <1>3, BoundsAssumption
  <2>2. mem[s][b + k] = E[pt_regs[25 - k]]
    BY <1>1, <2>1 DEF Holds
  <2>3. QED
    BY <2>1, <2>2 DEF Above
<1>4. QED
  BY <1>2, <1>3

LEMMA SaveStep ==
  ASSUME Shapes, NEW j \in 1 .. 23, NEW s \in Stacks, NEW b \in Nat, b + 24 <= Depth,
         NEW E, Saving(j, s, b, E, regs, rsp), Does(SaveInstr(j))
  PROVE  /\ Shapes' /\ Plain /\ rip' = <<rip[1], rip[2] + 1>> /\ Above(s, b + 9)
         /\ Saving(j + 1, s, b, E, regs, rsp)'
<1> DEFINE h == SaveHeight(j)
<1>1. h \in 8 .. 24 /\ rsp = <<s, b + h>> /\ b + h \in Nat
  BY DEF SaveHeight, Saving
<1>2. Holds(s, b, E, Registers, h) /\ regs \in [Registers -> Words]
  BY DEF Saving, Shapes
<1>3. CASE j \in {1, 3, 5, 20, 21, 22, 23}
  <2>1. SaveHeight(j + 1) = h
    BY <1>3 DEF SaveHeight
  <2>2. ASSUME mem' = mem PROVE Above(s, b + 9) /\ Holds(s, b, E, Registers, SaveHeight(j + 1))'
    BY <1>2, <2>1, <2>2 DEF Above, Holds
  <2>3. CASE j \in {1, 3}
    <3> DEFINE q == IF j = 1 THEN "es" ELSE "ds"
    <3>1. SaveInstr(j) = <<"mov", q, "rax">> /\ q \in Registers /\ "rax" \in Registers
      BY <2>3, Fields DEF SaveInstr
    <3> HIDE DEF q
    <3>2. /\ Shapes' /\ Plain /\ rip' = <<rip[1], rip[2] + 1>> /\ mem' = mem /\ rsp' = rsp
          /\ regs' = [regs EXCEPT !["rax"] = regs[q]]
      BY <3>1, DoesMov
    <3>3. QED
      BY <1>1, <1>2, <2>1, <2>2, <2>3, <3>2, Fields DEF Saving, q
  <2>4. CASE j \in {21, 22}
    <3> DEFINE q == IF j = 21 THEN "ds" ELSE "es"
    <3>1. SaveInstr(j) = <<"mov", "rdx", q>> /\ q \in Registers /\ "rdx" \in Registers
          /\ q \notin GPRs
      BY <2>4, Fields DEF SaveInstr
    <3> HIDE DEF q
    <3>2. /\ Shapes' /\ Plain /\ rip' = <<rip[1], rip[2] + 1>> /\ mem' = mem /\ rsp' = rsp
          /\ regs' = [regs EXCEPT ![q] = regs["rdx"]]
      BY <3>1, DoesMov
    <3>3. QED
      BY <1>1, <1>2, <2>1, <2>2, <2>4, <3>1, <3>2, Fields DEF Saving
  <2>5. CASE j = 5
    <3>1. SaveInstr(j) = <<"set", "rax", Num(0)>> /\ "rax" \in Registers
      BY <2>5, Fields DEF SaveInstr
    <3>2. /\ Shapes' /\ Plain /\ rip' = <<rip[1], rip[2] + 1>> /\ mem' = mem /\ rsp' = rsp
          /\ regs' = [regs EXCEPT !["rax"] = Num(0)]
      BY <3>1, DoesSet, WordFacts
    <3>3. QED
      BY <1>1, <1>2, <2>1, <2>2, <2>5, <3>2, Fields DEF Saving
  <2>6. CASE j = 20
    <3>1. SaveInstr(j) = <<"set", "rdx", KERNEL_DS>> /\ "rdx" \in Registers
      BY <2>6, Fields DEF SaveInstr
    <3>2. /\ Shapes' /\ Plain /\ rip' = <<rip[1], rip[2] + 1>> /\ mem' = mem /\ rsp' = rsp
          /\ regs' = [regs EXCEPT !["rdx"] = KERNEL_DS]
      BY <3>1, DoesSet, WordFacts
    <3>3. QED
      BY <1>1, <1>2, <2>1, <2>2, <2>6, <3>2, Fields DEF Saving
  <2>7. CASE j = 23
    <3>1. SaveInstr(j) = <<"lea_rsp", "rdi">> /\ "rdi" \in Registers /\ rsp \in Words
      BY <1>1, <2>7, Fields, WordFacts DEF SaveInstr
    <3>2. /\ Shapes' /\ Plain /\ rip' = <<rip[1], rip[2] + 1>> /\ mem' = mem /\ rsp' = rsp
          /\ regs' = [regs EXCEPT !["rdi"] = rsp]
      BY <3>1, DoesLea
    <3>3. h = 24
      BY <2>7 DEF SaveHeight
    <3>4. QED
      BY <1>1, <1>2, <2>1, <2>2, <2>7, <3>2, <3>3, Fields DEF Saving
  <2>8. QED
    BY <1>3, <2>3, <2>4, <2>5, <2>6, <2>7
<1>4. CASE j \in {2, 4} \cup (6 .. 19)
  <2> DEFINE r == pt_regs[24 - h]
             q == IF j \in {2, 4} THEN "rax" ELSE r
  <2>1. h \in 8 .. 23 /\ SaveHeight(j + 1) = h + 1
    BY <1>4 DEF SaveHeight
  <2>2. SaveInstr(j) = <<"push", q>> /\ q \in Registers /\ regs[q] = E[r]
    <3>1. CASE j = 2
      <4>1. h = 8 /\ r = "es"
        BY <3>1, Fields DEF SaveHeight
      <4>2. QED
        BY <3>1, <4>1, Fields DEF SaveInstr, Saving
    <3>2. CASE j = 4
      <4>1. h = 9 /\ r = "ds"
        BY <3>2, Fields DEF SaveHeight
      <4>2. QED
        BY <3>2, <4>1, Fields DEF SaveInstr, Saving
    <3>3. CASE j \in 6 .. 19
      <4>1. h = j + 4 /\ 24 - h = 20 - j /\ 20 - j \in 1 .. 14 /\ q = r
        BY <3>3 DEF SaveHeight
      <4>2. r = pt_regs[20 - j] /\ r \in GPRs \ {"rax"}
        BY <4>1, Fields
      <4>3. regs[r] = E[r]
        BY <3>3, <4>2 DEF Saving
      <4>4. SaveInstr(j) = <<"push", pt_regs[20 - j]>>
        BY <3>3 DEF SaveInstr
      <4>5. QED
        BY <4>1, <4>2, <4>3, <4>4, Fields
    <3>4. QED
      BY <1>4, <3>1, <3>2, <3>3
  <2> HIDE DEF q, r, h
  <2>3. b + h < Depth
    BY <2>1, BoundsAssumption
  <2>4. /\ Shapes' /\ Plain /\ rip' = <<rip[1], rip[2] + 1>> /\ regs' = regs
        /\ rsp' = <<s, b + h + 1>> /\ mem'[s][b + h + 1] = E[r] /\ Above(s, b + h + 1)
    BY <1>1, <2>2, <2>3, DoesPush
  <2>5. Holds(s, b, E, Registers, h + 1)'
    BY <1>2, <2>1, <2>4, HoldsPush DEF r
  <2>6. Above(s, b + 9)
    BY <2>1, <2>4 DEF Above
  <2>7. Saving(j + 1, s, b, E, regs, rsp)'
    BY <1>4, <2>1, <2>4, <2>5 DEF Saving
  <2>8. QED
    BY <2>4, <2>6, <2>7
<1>5. QED
  BY <1>3, <1>4

LEMMA PopStep ==
  ASSUME Shapes, NEW j \in 1 .. 19, NEW s \in Stacks, NEW b \in Nat, b + 24 <= Depth,
         NEW E, NEW D, Popping(j, s, b, E, D, regs, rsp), Does(PopInstr(j))
  PROVE  /\ Shapes' /\ Plain /\ rip' = <<rip[1], rip[2] + 1>> /\ Above(s, b + 8)
         /\ Popping(j + 1, s, b, E, D, regs, rsp)'
<1> DEFINE h == PopHeight(j)
<1>1. h \in 8 .. 24 /\ rsp = <<s, b + h>> /\ b + h \in 1 .. Depth
  BY BoundsAssumption DEF PopHeight, Popping
<1>2. Holds(s, b, E, D, h) /\ regs \in [Registers -> Words]
  BY DEF Popping, Shapes
<1>3. CASE j \in {16, 18}
  <2> DEFINE q == IF j = 16 THEN "ds" ELSE "es"
  <2>1. PopHeight(j + 1) = h
    BY <1>3 DEF PopHeight
  <2>2. PopInstr(j) = <<"mov", "rax", q>> /\ q \in Registers /\ q \notin GPRs
        /\ "rax" \in Registers
    BY <1>3, Fields DEF PopInstr
  <2> HIDE DEF q
  <2>3. /\ Shapes' /\ Plain /\ rip' = <<rip[1], rip[2] + 1>> /\ mem' = mem /\ rsp' = rsp
        /\ regs' = [regs EXCEPT ![q] = regs["rax"]]
    BY <2>2, DoesMov
  <2>4. Holds(s, b, E, D, PopHeight(j + 1))' /\ Above(s, b + 8)
    BY <1>2, <2>1, <2>3 DEF Above, Holds
  <2>5. \A r \in GPRs : regs'[r] = regs[r]
    BY <1>2, <2>2, <2>3, Fields
  <2>6. \A i \in 1 .. 14 :
          i < j + 1 /\ pt_regs[i] \in D => regs'[pt_regs[i]] = E[pt_regs[i]]
    BY <1>3, <2>5, Fields DEF Popping
  <2>7. QED
    BY <1>1, <1>2, <1>3, <2>1, <2>2, <2>3, <2>4, <2>6, Fields DEF Popping, q
<1>4. CASE j \in 1 .. 15 \cup {17, 19}
  <2> DEFINE r == IF j <= 14 THEN pt_regs[j] ELSE "rax"
             f == pt_regs[25 - h]
  <2>1. PopHeight(j + 1) = h - 1
    BY <1>4 DEF PopHeight
  <2>2. PopInstr(j) = <<"pop", r>> /\ r \in GPRs /\ r \in Registers
    <3>1. CASE j \in 1 .. 14
      BY <3>1, Fields DEF PopInstr
    <3>2. CASE j \in {15, 17, 19}
      BY <3>2, Fields DEF PopInstr
    <3>3. QED
      BY <1>4, <3>1, <3>2
  <2>3. f = IF j <= 14 THEN pt_regs[j] ELSE IF j = 15 THEN "ds"
            ELSE IF j = 17 THEN "es" ELSE "rax"
    BY <1>4, Fields DEF PopHeight
  <2> HIDE DEF r, f, h
  <2>4. /\ Shapes' /\ Plain /\ rip' = <<rip[1], rip[2] + 1>>
        /\ regs' = [regs EXCEPT ![r] = mem[s][b + h]]
        /\ rsp' = <<s, b + h - 1>> /\ Above(s, b + h)
    BY <1>1, <2>2, DoesPop
  <2>5. f \in D => mem[s][b + h] = E[f]
    BY <1>1, <1>2 DEF Holds, f
  <2>6. Holds(s, b, E, D, PopHeight(j + 1))' /\ Above(s, b + 8)
    <3>1. Above(s, b + 8)
      BY <1>1, <2>4 DEF Above
    <3>2. h - 1 \in Nat /\ h \in Nat /\ b + h \in Nat /\ h - 1 <= h /\ b + (h - 1) < b + h
          /\ b + (h - 1) <= Depth
      BY <1>1, BoundsAssumption
    <3>3. Holds(s, b, E, D, h - 1)'
      BY <1>2, <2>4, <3>2, HoldsKept
    <3>4. QED
      BY <2>1, <3>1, <3>3
  <2>7. rsp' = <<s, b + PopHeight(j + 1)>>
    BY <1>1, <2>1, <2>4
  <2>8. /\ regs'[r] = mem[s][b + h]
        /\ \A x \in Registers : x # r => regs'[x] = regs[x]
    BY <1>2, <2>2, <2>4
  <2>9. \A i \in 1 .. 14 :
          i < j + 1 /\ pt_regs[i] \in D => regs'[pt_regs[i]] = E[pt_regs[i]]
    <3>1. SUFFICES ASSUME NEW i \in 1 .. 14, i < j + 1, pt_regs[i] \in D
                   PROVE  regs'[pt_regs[i]] = E[pt_regs[i]]
      OBVIOUS
    <3>2. CASE i = j
      BY <2>3, <2>5, <2>8, <3>1, <3>2 DEF r
    <3>3. CASE i # j
      <4>1. i < j /\ pt_regs[i] \in Registers /\ pt_regs[i] # r
        BY <3>1, <3>3, Fields DEF r
      <4>2. regs[pt_regs[i]] = E[pt_regs[i]]
        BY <3>1, <4>1 DEF Popping
      <4>3. QED
        BY <2>8, <4>1, <4>2
    <3>4. QED
      BY <3>2, <3>3
  <2>10. /\ j + 1 = 16 /\ "ds" \in D => regs'["rax"] = E["ds"]
         /\ j + 1 >= 17 /\ "ds" \in D => regs'["ds"] = E["ds"]
         /\ j + 1 = 18 /\ "es" \in D => regs'["rax"] = E["es"]
         /\ j + 1 >= 19 /\ "es" \in D => regs'["es"] = E["es"]
         /\ j + 1 = 20 /\ "rax" \in D => regs'["rax"] = E["rax"]
    BY <1>4, <2>2, <2>3, <2>5, <2>8, Fields DEF Popping, r
  <2>11. Popping(j + 1, s, b, E, D, regs, rsp)'
    BY <2>6, <2>7, <2>9, <2>10 DEF Popping
  <2>12. QED
    BY <2>4, <2>6, <2>11
<1>5. QED
  BY <1>3, <1>4

-----------------------------------------------------------------------------
(* The handler.                                                            *)

LEMMA DoesAdd ==
  ASSUME Shapes, NEW k \in Nat, Does(<<"add_rsp", k>>),
         NEW s \in Stacks, NEW h \in Nat, rsp = <<s, h>>, k <= h, h <= Depth
  PROVE  /\ Shapes' /\ Plain /\ rip' = <<rip[1], rip[2] + 1>> /\ regs' = regs
         /\ rsp' = <<s, h - k>> /\ Above(s, h - k + 1)
<1>1. AddRsp
  BY Dispatch DEF Does
<1>2. Plain /\ rip' = <<rip[1], rip[2] + 1>> /\ regs' = regs /\ Drop(k)
  BY <1>1 DEF AddRsp, Advance, Plain, ghosts, Does
<1>3. /\ mem' \in [Stacks -> [1 .. Depth -> Words]] /\ rsp' = <<s, h - k>>
      /\ Above(s, h - k + 1)
  BY <1>2, Dropped
<1>4. Shapes'
  BY <1>2, <1>3 DEF Shapes, Plain
<1>5. QED
  BY <1>2, <1>3, <1>4

LEMMA DoesJmp ==
  ASSUME Shapes, NEW f, Does(<<"jmp", f>>)
  PROVE  Shapes' /\ Plain /\ rip' = <<f, 1>> /\ regs' = regs /\ rsp' = rsp /\ mem' = mem
<1>1. Jmp
  BY Dispatch DEF Does
<1>2. Plain /\ rip' = <<f, 1>> /\ regs' = regs /\ rsp' = rsp /\ mem' = mem
  BY <1>1 DEF Jmp, Plain, ghosts, Does
<1>3. Shapes'
  BY <1>2 DEF Shapes, Plain
<1>4. QED
  BY <1>2, <1>3

\* A C function leaves the registers it must save, and words in the others.
LEMMA Clobbers ==
  ASSUME Shapes, NEW w \in Words
  PROVE  Clobbered(w) \in [Registers -> Words] /\ Clobbered(w)["rax"] = w
  BY WordFacts, Fields DEF Shapes, Clobbered

\* One instruction of the handler, or do_IRQ as a whole, leads to the next one
\* and leaves what lies below errcode alone.
LEMMA HandlerMoves ==
  ASSUME Shapes, NEW c, NEW s \in Stacks, NEW b \in Nat, b + 25 <= Depth,
         c.regs \in [Registers -> Words], Handling(c, s, b), Step,
         rip # <<"ret_from_intr", 21>>
  PROVE  Shapes' /\ Plain /\ Above(s, b + 6) /\ Handling(c, s, b)'
<1> DEFINE lab == "Build_IRQ"
           err == mem[s][b + 6] = Num(0)
           full == Holds(s, b, c.regs, Registers, 24)
<1>1. ASSUME NEW i \in 1 .. 30, rip = <<"Build_IRQ", i>>
      PROVE  rip[1] \in Assembly /\ Instr = Build_IRQ[i]
  BY <1>1, Labels DEF Instr, Assembly
<1>2. ASSUME NEW i \in 1 .. 21, rip = <<"ret_from_intr", i>>
      PROVE  rip[1] \in Assembly /\ Instr = ret_from_intr[i]
  BY <1>2, Labels DEF Instr, Assembly
<1>3. b + 24 <= Depth /\ b + 6 \in 1 .. Depth /\ b + 25 \in 1 .. Depth /\ Depth \in Nat
  BY BoundsAssumption
<1>4. ASSUME NEW lo \in Nat, Above(s, lo), lo >= b + 6 PROVE Above(s, b + 6)
  BY <1>4 DEF Above
<1>5. ASSUME NEW lo \in Nat, Above(s, lo), lo > b + 6, err PROVE err'
  BY <1>3, <1>5 DEF Above
<1>6. CASE rip = <<"Build_IRQ", 1>> /\ rsp = <<s, b + 5>> /\ regs = c.regs
  <2>1. Does(<<"push_value", Num(0)>>)
    BY <1>1, <1>6, SaveListing DEF Does
  <2>2. b + 5 \in Nat /\ b + 5 < Depth /\ b + 5 + 1 = b + 6
    BY <1>3
  <2>3. /\ Shapes' /\ Plain /\ rip' = <<rip[1], rip[2] + 1>> /\ regs' = regs
        /\ rsp' = <<s, b + 6>> /\ mem'[s][b + 6] = Num(0) /\ Above(s, b + 6)
    <3>1. Num(0) \in Words
      BY WordFacts
    <3> HIDE DEF Num
    <3>2. QED
      BY <1>6, <2>1, <2>2, <3>1, DoesPushValue
  <2>4. rip' = <<"Build_IRQ", 2>>
    BY <1>6, <2>3
  <2>5. QED
    BY <1>6, <2>3, <2>4 DEF Handling
<1>7. CASE err /\ rip = <<"Build_IRQ", 2>> /\ rsp = <<s, b + 6>> /\ regs = c.regs
  <2>1. Does(<<"push", "rax">>) /\ "rax" \in Registers
    BY <1>1, <1>7, SaveListing, Fields DEF Does
  <2>2. b + 6 \in Nat /\ b + 6 < Depth /\ b + 6 + 1 = b + 7 /\ b + 7 \in Nat
    BY <1>3
  <2>3. /\ Shapes' /\ Plain /\ rip' = <<rip[1], rip[2] + 1>> /\ regs' = regs
        /\ rsp' = <<s, b + 7>> /\ Above(s, b + 7)
    BY <1>7, <2>1, <2>2, DoesPush
  <2>4. rip' = <<"Build_IRQ", 3>>
    BY <1>7, <2>3
  <2>5. err' /\ Above(s, b + 6)
    BY <1>4, <1>5, <1>7, <2>2, <2>3
  <2>6. QED
    BY <1>7, <2>3, <2>4, <2>5 DEF Handling
<1>8. CASE err /\ rip = <<"Build_IRQ", 3>> /\ rsp = <<s, b + 7>> /\ regs = c.regs
  <2>1. Does(<<"push", "rax">>) /\ "rax" \in Registers
    BY <1>1, <1>8, SaveListing, Fields DEF Does
  <2>2. b + 7 \in Nat /\ b + 7 < Depth /\ b + 7 + 1 = b + 8 /\ b + 8 \in Nat
    BY <1>3
  <2>3. /\ Shapes' /\ Plain /\ rip' = <<rip[1], rip[2] + 1>> /\ regs' = regs
        /\ rsp' = <<s, b + 8>> /\ mem'[s][b + 8] = regs["rax"] /\ Above(s, b + 8)
    BY <1>8, <2>1, <2>2, DoesPush
  <2>4. rip' = <<"Build_IRQ", 1 + 3>>
    BY <1>8, <2>3
  <2>5. err' /\ Above(s, b + 6)
    BY <1>4, <1>5, <1>8, <2>2, <2>3
  <2>6. Holds(s, b, c.regs, Registers, 8)'
    BY <1>8, <2>3, Fields DEF Holds
  <2>7. Saving(1, s, b, c.regs, regs, rsp)'
    BY <1>8, <2>3, <2>6, Fields DEF Saving, SaveHeight
  <2>8. QED
    BY <2>3, <2>4, <2>5, <2>7 DEF Handling
<1>9. CASE err /\ \E j \in 1 .. 24 : /\ rip = <<"Build_IRQ", j + 3>>
                                    /\ Saving(j, s, b, c.regs, regs, rsp)
  <2>1. PICK j \in 1 .. 24 : rip = <<"Build_IRQ", j + 3>> /\ Saving(j, s, b, c.regs, regs, rsp)
    BY <1>9
  <2>2. CASE j # 24
    <3>1. j \in 1 .. 23 /\ j + 3 \in 1 .. 30 /\ j + 1 \in 1 .. 24 /\ j + 3 + 1 = j + 1 + 3
      BY <2>2
    <3>2. Does(SaveInstr(j))
      BY <1>1, <2>1, <3>1, SaveListing DEF Does
    <3>3. /\ Shapes' /\ Plain /\ rip' = <<rip[1], rip[2] + 1>> /\ Above(s, b + 9)
          /\ Saving(j + 1, s, b, c.regs, regs, rsp)'
      BY <1>3, <2>1, <3>1, <3>2, SaveStep
    <3>4. rip' = <<"Build_IRQ", j + 1 + 3>>
      BY <2>1, <3>1, <3>3
    <3>5. err' /\ Above(s, b + 6)
      <4>1. b + 9 \in Nat /\ b + 9 > b + 6
        OBVIOUS
      <4>2. QED
        BY <1>4, <1>5, <1>9, <3>3, <4>1
    <3>6. QED
      BY <3>1, <3>3, <3>4, <3>5 DEF Handling
  <2>3. CASE j = 24
    <3>1. rip = <<"Build_IRQ", 27>> /\ rsp = <<s, b + 24>> /\ full /\ regs["rdi"] = <<s, b + 24>>
      BY <2>1, <2>3 DEF Saving, SaveHeight
    <3>2. Does(<<"set", "rax", <<"ret_from_intr", 1>>>>)
      <4>1. rip[1] \in Assembly /\ Instr = Build_IRQ[27]
        BY <1>1, <3>1
      <4>2. QED
        BY <4>1, SaveListing DEF Does
    <3>3. <<"ret_from_intr", 1>> \in Words /\ "rax" \in Registers
      BY WordFacts, Fields DEF Assembly
    <3>4. /\ Shapes' /\ Plain /\ rip' = <<rip[1], rip[2] + 1>> /\ mem' = mem /\ rsp' = rsp
          /\ regs' = [regs EXCEPT !["rax"] = <<"ret_from_intr", 1>>]
      BY <3>2, <3>3, DoesSet
    <3>5. rip' = <<"Build_IRQ", 28>>
      BY <3>1, <3>4
    <3>6. err' /\ full' /\ Above(s, b + 6)
      BY <1>9, <3>1, <3>4 DEF Holds, Above
    <3>7. regs'["rax"] = <<"ret_from_intr", 1>> /\ regs'["rdi"] = <<s, b + 24>>
      BY <3>1, <3>3, <3>4, Fields DEF Shapes
    <3>8. QED
      BY <3>1, <3>4, <3>5, <3>6, <3>7 DEF Handling
  <2>4. QED
    BY <2>2, <2>3
<1>10. CASE /\ err /\ rip = <<"Build_IRQ", 28>> /\ rsp = <<s, b + 24>>
            /\ regs["rax"] = <<"ret_from_intr", 1>> /\ regs["rdi"] = <<s, b + 24>> /\ full
  <2>1. Does(<<"push", "rax">>) /\ "rax" \in Registers
    BY <1>1, <1>10, SaveListing, Fields DEF Does
  <2>2. b + 24 \in Nat /\ b + 24 < Depth /\ b + 24 + 1 = b + 25 /\ b + 25 \in Nat
    BY <1>3
  <2>3. /\ Shapes' /\ Plain /\ rip' = <<rip[1], rip[2] + 1>> /\ regs' = regs
        /\ rsp' = <<s, b + 25>> /\ mem'[s][b + 25] = regs["rax"] /\ Above(s, b + 25)
    BY <1>10, <2>1, <2>2, DoesPush
  <2>4. rip' = <<"Build_IRQ", 29>>
    BY <1>10, <2>3
  <2>5. err' /\ Above(s, b + 6)
    BY <1>4, <1>5, <1>10, <2>2, <2>3
  <2>6. full'
    BY <1>3, <1>10, <2>2, <2>3, HoldsKept
  <2>7. QED
    BY <1>10, <2>3, <2>4, <2>5, <2>6 DEF Handling
<1>11. CASE /\ err /\ rip \in {<<"Build_IRQ", 29>>, <<"Build_IRQ", 30>>, <<"do_IRQ", 1>>}
            /\ rsp = <<s, b + 25>> /\ mem[s][b + 25] = <<"ret_from_intr", 1>>
            /\ regs["rdi"] = <<s, b + 24>> /\ full
  <2>1. CASE rip = <<"Build_IRQ", 29>>
    <3>1. Does(<<"set", "rsi", Word("nr")>>) /\ "rsi" \in Registers
      BY <1>1, <2>1, SaveListing, Fields DEF Does
    <3>2. /\ Shapes' /\ Plain /\ rip' = <<rip[1], rip[2] + 1>> /\ mem' = mem /\ rsp' = rsp
          /\ regs' = [regs EXCEPT !["rsi"] = Word("nr")]
      BY <3>1, WordFacts, DoesSet
    <3>3. rip' = <<"Build_IRQ", 30>> /\ regs'["rdi"] = regs["rdi"]
      BY <2>1, <3>2, Fields DEF Shapes
    <3>4. err' /\ full' /\ Above(s, b + 6) /\ mem'[s][b + 25] = mem[s][b + 25]
      BY <1>11, <3>2 DEF Holds, Above
    <3>5. QED
      BY <1>11, <3>2, <3>3, <3>4 DEF Handling
  <2>2. CASE rip = <<"Build_IRQ", 30>>
    <3>1. Does(<<"jmp", "do_IRQ">>)
      BY <1>1, <2>2, SaveListing DEF Does
    <3>2. /\ Shapes' /\ Plain /\ rip' = <<"do_IRQ", 1>> /\ mem' = mem /\ rsp' = rsp
          /\ regs' = regs
      BY <3>1, DoesJmp
    <3>3. err' /\ full' /\ Above(s, b + 6) /\ mem'[s][b + 25] = mem[s][b + 25]
      BY <1>11, <3>2 DEF Holds, Above
    <3>4. QED
      BY <1>11, <3>2, <3>3 DEF Handling
  <2>3. CASE rip = <<"do_IRQ", 1>>
    <3>1. do_IRQ
      BY <2>3, DispatchC DEF In
    <3>2. Plain /\ regs' = Clobbered(Junk) /\ Drop(1) /\ rip' = <<"ret_from_intr", 1>>
      BY <1>11, <3>1 DEF do_IRQ, Return, Stack, Plain, ghosts
    <3>3. b + 25 \in Nat /\ 1 <= b + 25 /\ b + 25 - 1 = b + 24 /\ b + 24 + 1 = b + 25
      BY <1>3
    <3>4. /\ mem' \in [Stacks -> [1 .. Depth -> Words]] /\ rsp' = <<s, b + 24>>
          /\ Above(s, b + 25)
      BY <1>11, <3>2, <3>3, Dropped
    <3>5. Shapes'
      BY <3>2, <3>4, Clobbers, WordFacts DEF Shapes, Plain
    <3>6. Above(s, b + 6)
      BY <1>4, <3>3, <3>4
    <3>7. full'
      BY <1>3, <1>11, <3>3, <3>4, HoldsKept
    <3>8. Popping(1, s, b, c.regs, Registers, regs, rsp)'
      BY <3>4, <3>7 DEF Popping, PopHeight
    <3>9. QED
      BY <3>2, <3>5, <3>6, <3>8 DEF Handling
  <2>4. QED
    BY <1>11, <2>1, <2>2, <2>3
<1>12. CASE \E j \in 1 .. 20 : /\ rip = <<"ret_from_intr", j>>
                               /\ Popping(j, s, b, c.regs, Registers, regs, rsp)
  <2>1. PICK j \in 1 .. 20 : /\ rip = <<"ret_from_intr", j>>
                            /\ Popping(j, s, b, c.regs, Registers, regs, rsp)
    BY <1>12
  <2>2. CASE j # 20
    <3>1. j \in 1 .. 19 /\ j \in 1 .. 21 /\ j + 1 \in 1 .. 20
      BY <2>2
    <3>2. Does(PopInstr(j))
      BY <1>2, <2>1, <3>1, ExitListing DEF Does
    <3>3. /\ Shapes' /\ Plain /\ rip' = <<rip[1], rip[2] + 1>> /\ Above(s, b + 8)
          /\ Popping(j + 1, s, b, c.regs, Registers, regs, rsp)'
      BY <1>3, <2>1, <3>1, <3>2, PopStep
    <3>4. rip' = <<"ret_from_intr", j + 1>>
      BY <2>1, <3>3
    <3>5. Above(s, b + 6)
      BY <1>4, <3>3
    <3>6. QED
      BY <3>1, <3>3, <3>4, <3>5 DEF Handling
  <2>3. CASE j = 20
    <3>1. rip = <<"ret_from_intr", 20>> /\ rsp = <<s, b + 7>>
      BY <2>1, <2>3 DEF Popping, PopHeight
    <3>2. regs = c.regs
      <4>1. \A r \in Registers : regs[r] = c.regs[r]
        BY <2>1, <2>3, Fields DEF Popping
      <4>2. QED
        BY <4>1 DEF Shapes
    <3>3. Does(<<"add_rsp", 2>>)
      BY <1>2, <3>1, ExitListing DEF Does
    <3>4. b + 7 \in Nat /\ 2 <= b + 7 /\ b + 7 <= Depth /\ b + 7 - 2 = b + 5 /\ b + 5 + 1 = b + 6
      BY <1>3
    <3>5. /\ Shapes' /\ Plain /\ rip' = <<rip[1], rip[2] + 1>> /\ regs' = regs
          /\ rsp' = <<s, b + 5>> /\ Above(s, b + 6)
      BY <3>1, <3>3, <3>4, DoesAdd
    <3>6. rip' = <<"ret_from_intr", 21>>
      BY <3>1, <3>5
    <3>7. QED
      BY <3>2, <3>5, <3>6 DEF Handling
  <2>4. QED
    BY <2>2, <2>3
<1>13. QED
  BY <1>6, <1>7, <1>8, <1>9, <1>10, <1>11, <1>12 DEF Handling

-----------------------------------------------------------------------------
(* The interrupted context.                                                *)

\* A thread in the kernel has room for a handler above its words; a thread of
\* the user has the whole stack of its task.
LEMMA BaseRoom ==
  ASSUME NEW rg, NEW ring, NEW ip, NEW sp, Shapes, Base(rg, ring, ip, sp)
  PROVE  \/ ring = KERNEL_CS /\ \E s \in Stacks, h \in 0 .. Context + 25 : sp = <<s, h>>
         \/ ring = USER_CS /\ sp = UserStack
<1>1. Context \in Nat /\ "task0" \in Stacks /\ "task1" \in Stacks
  BY BoundsAssumption DEF Stacks
<1>2. CASE InSwitch(rg, ip, sp)
  <2>1. ip[1] # User
    BY <1>2 DEF InSwitch, User
  <2>2. \E s \in Stacks, h \in 0 .. Context + 25 : sp = <<s, h>>
    BY <1>1, <1>2 DEF InSwitch
  <2>3. QED
    BY <2>1, <2>2 DEF Base
<1>3. CASE InThread(rg, ip, sp)
  <2>1. ip[1] # User
    BY <1>3 DEF InThread, User
  <2>2. \E s \in Stacks, h \in 0 .. Context + 25 : sp = <<s, h>>
    BY <1>1, <1>3 DEF InThread, Popping, PopHeight
  <2>3. QED
    BY <2>1, <2>2 DEF Base
<1>4. ASSUME NEW s \in Stacks, NEW E, NEW D, Leaving(rg, ip, sp, s, E, D)
      PROVE  ip[1] # User /\ \E h \in 0 .. Context + 25 : sp = <<s, h>>
  <2>1. ip[1] # User
    BY <1>4 DEF Leaving, User
  <2>2. \E h \in 0 .. Context + 25 : sp = <<s, h>>
    BY <1>1, <1>4 DEF Leaving, Popping, PopHeight
  <2>3. QED
    BY <2>1, <2>2
<1>5. CASE InExec(rg, ip, sp)
  BY <1>1, <1>4, <1>5 DEF InExec, Base
<1>6. CASE InUser(rg, ip, sp)
  BY <1>6 DEF InUser, Base, UserReturn
<1>7. CASE InCall(rg, ip, sp)
  <2>1. CASE Leaving(rg, ip, sp, "task0", Answered, Registers)
    BY <1>1, <1>4, <2>1 DEF Base
  <2>2. CASE ~Leaving(rg, ip, sp, "task0", Answered, Registers)
    <3>1. ip[1] # User
      BY <1>7, <2>2 DEF InCall, User
    <3>2. \E h \in 0 .. Context + 25 : sp = <<"task0", h>>
      BY <1>1, <1>7, <2>2 DEF InCall, Saving, SaveHeight
    <3>3. QED
      BY <1>1, <3>1, <3>2 DEF Base
  <2>3. QED
    BY <2>1, <2>2
<1>8. QED
  BY <1>2, <1>3, <1>5, <1>6, <1>7 DEF Base

\* The stack of the handler and what lies below it.
LEMMA Room ==
  ASSUME NEW c, Shapes, Base(c.regs, c.cs, c.rip, c.rsp)
  PROVE  /\ StackOf(c) \in Stacks /\ Below(c) \in Nat /\ Below(c) + 25 <= Depth
         /\ \/ /\ c.cs = KERNEL_CS /\ StackOf(c) = c.rsp[1]
               /\ \E s \in Stacks, h \in 0 .. Context + 25 : c.rsp = <<s, h>> /\ h <= Below(c)
            \/ c.cs = USER_CS /\ c.rsp = UserStack /\ StackOf(c) = tss /\ Below(c) = 0
<1>1. KERNEL_CS # USER_CS
  BY DEF KERNEL_CS, USER_CS, Word
<1>2. \/ c.cs = KERNEL_CS /\ \E s \in Stacks, h \in 0 .. Context + 25 : c.rsp = <<s, h>>
      \/ c.cs = USER_CS /\ c.rsp = UserStack
  BY BaseRoom
<1>3. Context \in Nat /\ Depth \in Nat /\ Context + 60 <= Depth
  BY BoundsAssumption
<1>4. CASE c.cs = USER_CS /\ c.rsp = UserStack
  BY <1>3, <1>4 DEF StackOf, Below, Shapes
<1>5. ASSUME NEW s \in Stacks, NEW h \in 0 .. Context + 25, c.rsp = <<s, h>>, c.cs = KERNEL_CS
      PROVE  /\ StackOf(c) = s /\ Below(c) \in Nat /\ Below(c) + 25 <= Depth /\ h <= Below(c)
  <2>1. StackOf(c) = s /\ Below(c) = h + (h % 2)
    BY <1>1, <1>5 DEF StackOf, Below
  <2>2. h \in Nat /\ h % 2 \in 0 .. 1
    BY <1>3
  <2>3. QED
    BY <1>3, <2>1, <2>2
<1>6. CASE c.cs = KERNEL_CS /\ \E s \in Stacks, h \in 0 .. Context + 25 : c.rsp = <<s, h>>
  <2>1. PICK s \in Stacks, h \in 0 .. Context + 25 : c.rsp = <<s, h>>
    BY <1>6
  <2>2. c.rsp[1] = s
    BY <2>1
  <2>3. QED
    BY <1>5, <1>6, <2>1, <2>2
<1>7. QED
  BY <1>2, <1>4, <1>6

\* A step that stays above the words of the thread leaves it where it is.
LEMMA BaseKept ==
  ASSUME NEW rg, NEW ring, NEW ip, NEW sp, Shapes, Base(rg, ring, ip, sp),
         tss' = tss, asked' = asked, NEW s \in Stacks, NEW lo \in Nat, Above(s, lo),
         ring = USER_CS \/ (s = sp[1] /\ sp[2] < lo)
  PROVE  Base(rg, ring, ip, sp)'
<1>1. Context \in Nat /\ Depth \in Nat /\ Context + 60 <= Depth /\ KERNEL_CS # USER_CS
      /\ "task0" \in Stacks /\ "task1" \in Stacks
  BY BoundsAssumption DEF Stacks, KERNEL_CS, USER_CS, Word
<1>2. ring = IF ip[1] = User THEN USER_CS ELSE KERNEL_CS
  BY DEF Base
<1>3. ASSUME NEW t \in Stacks, NEW h \in 0 .. Context + 25, sp = <<t, h>>, ip[1] # User
      PROVE  \A m \in 1 .. h : mem'[t][m] = mem[t][m]
  BY <1>1, <1>2, <1>3 DEF Above
<1>4. CASE InUser(rg, ip, sp)
  <2>1. InUser(rg, ip, sp)'
    BY <1>4 DEF InUser
  <2>2. QED
    BY <1>2, <2>1 DEF Base
<1>5. CASE InSwitch(rg, ip, sp)
  <2>1. ip[1] # User /\ asked' = <<>>
    BY <1>5 DEF InSwitch, User
  <2>2. ASSUME \A m \in 1 .. 24 : mem'["task1"][m] = mem["task1"][m] PROVE ThreadWords'
    BY <1>5, <2>2 DEF InSwitch, ThreadWords
  <2>3. CASE \E i \in 1 .. 3 : ip = <<"switch_to", i>> /\ sp = <<"task0", Context + (i - 1)>>
    <3>1. s # "task1"
      BY <1>2, <1>1, <2>1, <2>3
    <3>2. \A m \in 1 .. 24 : mem'["task1"][m] = mem["task1"][m]
      BY <1>1, <3>1 DEF Above
    <3>3. InSwitch(rg, ip, sp)'
      BY <2>1, <2>2, <2>3, <3>2 DEF InSwitch
    <3>4. QED
      BY <1>2, <3>3 DEF Base
  <2>4. CASE \E i \in 4 .. 5 : ip = <<"switch_to", i>> /\ sp = <<"task1", 24>>
    <3>1. 24 \in 0 .. Context + 25 /\ sp = <<"task1", 24>>
      BY <1>1, <2>4
    <3>2. \A m \in 1 .. 24 : mem'["task1"][m] = mem["task1"][m]
      BY <1>1, <1>3, <2>1, <3>1
    <3>3. InSwitch(rg, ip, sp)'
      BY <2>1, <2>2, <2>4, <3>2 DEF InSwitch
    <3>4. QED
      BY <1>2, <3>3 DEF Base
  <2>5. CASE /\ ip \in {<<"switch_to", 6>>, <<"__switch_to", 1>>} /\ sp = <<"task1", 25>>
             /\ mem["task1"][25] = <<"kernel_thread_func", 1>>
    <3>1. 25 \in 0 .. Context + 25 /\ sp = <<"task1", 25>>
      BY <1>1, <2>5
    <3>2. \A m \in 1 .. 25 : mem'["task1"][m] = mem["task1"][m]
      BY <1>1, <1>3, <2>1, <3>1
    <3>3. \A m \in 1 .. 24 : mem'["task1"][m] = mem["task1"][m]
      BY <3>2
    <3>4. ThreadWords' /\ mem'["task1"][25] = <<"kernel_thread_func", 1>>
      BY <2>2, <2>5, <3>2, <3>3
    <3>5. InSwitch(rg, ip, sp)'
      BY <2>1, <2>5, <3>4 DEF InSwitch
    <3>6. QED
      BY <1>2, <3>5 DEF Base
  <2>6. QED
    BY <1>5, <2>3, <2>4, <2>5 DEF InSwitch
<1>6. ASSUME NEW t \in Stacks, NEW E, NEW D, NEW h \in 0 .. 24, Holds(t, 0, E, D, h),
             \A m \in 1 .. h : mem'[t][m] = mem[t][m]
      PROVE  Holds(t, 0, E, D, h)'
  BY <1>6 DEF Holds
<1>7. ASSUME NEW t \in Stacks, NEW E, NEW D, NEW j \in 1 .. 20, ip[1] # User,
             Popping(j, t, 0, E, D, rg, sp)
      PROVE  Popping(j, t, 0, E, D, rg, sp)'
  <2>1. PopHeight(j) \in 0 .. 24 /\ 0 + PopHeight(j) = PopHeight(j)
    BY DEF PopHeight
  <2>2. sp = <<t, PopHeight(j)>> /\ PopHeight(j) \in 0 .. Context + 25
    BY <1>1, <1>7, <2>1 DEF Popping
  <2>3. Holds(t, 0, E, D, PopHeight(j))'
    BY <1>3, <1>6, <1>7, <2>1, <2>2 DEF Popping
  <2>4. QED
    BY <1>7, <2>3 DEF Popping
<1>8. ASSUME NEW t \in Stacks, NEW E, NEW D, Leaving(rg, ip, sp, t, E, D)
      PROVE  Leaving(rg, ip, sp, t, E, D)' /\ ip[1] # User
  <2>1. ip[1] # User
    BY <1>8 DEF Leaving, User
  <2>2. CASE /\ ip = <<"ret_system_call", 1>> /\ sp = <<t, 24>> /\ rg["rax"] = E["rax"]
             /\ Holds(t, 0, E, D \ {"rax"}, 24)
    <3>1. \A m \in 1 .. 24 : mem'[t][m] = mem[t][m]
      BY <1>1, <1>3, <2>1, <2>2
    <3>2. Holds(t, 0, E, D \ {"rax"}, 24)'
      <4>1. PICK DD : DD = D \ {"rax"}
        OBVIOUS
      <4>2. Holds(t, 0, E, DD, 24)
        BY <2>2, <4>1
      <4>3. 24 \in 0 .. 24
        OBVIOUS
      <4>4. Holds(t, 0, E, DD, 24)'
        BY <1>6, <3>1, <4>2, <4>3
      <4>5. QED
        BY <4>1, <4>4 DEF Holds
    <3>3. QED
      BY <2>1, <2>2, <3>2 DEF Leaving
  <2>3. CASE \E j \in 1 .. 20 : /\ ip = <<"ret_system_call", j + 1>>
                                /\ Popping(j, t, 0, E, D, rg, sp)
    BY <1>7, <2>1, <2>3 DEF Leaving
  <2>4. CASE /\ ip = <<"ret_system_call", 22>> /\ sp = <<t, 0>>
             /\ \A r \in D : rg[r] = E[r]
    BY <2>1, <2>4 DEF Leaving
  <2>5. QED
    BY <1>8, <2>2, <2>3, <2>4 DEF Leaving
<1>9. CASE InThread(rg, ip, sp)
  <2>1. ip[1] # User
    BY <1>9 DEF InThread, User
  <2>2. CASE \E j \in 1 .. 20 : /\ ip = <<"kernel_thread_func", j>>
                        /\ Popping(j, "task1", 0, ThreadRegs, {"rbx", "rdx"}, rg, sp)
    <3>1. ThreadRegs' = ThreadRegs
      BY DEF ThreadRegs
    <3>2. QED
      BY <1>1, <1>2, <1>7, <1>9, <2>1, <2>2, <3>1 DEF InThread, Base
  <2>3. CASE /\ ip = <<"do_execve", 1>> /\ sp = <<"task1", 25>> /\ rg["rdi"] = <<"task1", 24>>
             /\ mem["task1"][25] = <<"ret_system_call", 1>>
    <3>1. mem'["task1"][25] = mem["task1"][25]
      BY <1>1, <1>3, <2>1, <2>3
    <3>2. QED
      BY <1>2, <1>9, <2>3, <3>1 DEF InThread, Base
  <2>4. CASE \/ /\ ip = <<"kernel_thread_func", 21>> /\ sp = <<"task1", 0>>
                /\ rg["rbx"] = <<"init", 1>> /\ rg["rdx"] = Arg
             \/ /\ ip = <<"kernel_thread_func", 22>> /\ sp = <<"task1", 0>>
                /\ rg["rbx"] = <<"init", 1>> /\ rg["rdi"] = Arg
             \/ ip = <<"init", 1>> /\ sp = <<"task1", 1>> /\ rg["rdi"] = Arg
    BY <1>2, <1>9, <2>4 DEF InThread, Base
  <2>5. QED
    BY <1>9, <2>2, <2>3, <2>4 DEF InThread
<1>10. CASE InExec(rg, ip, sp)
  <2>1. ExecRegs' = ExecRegs
    BY DEF ExecRegs
  <2>2. QED
    BY <1>1, <1>2, <1>8, <1>10, <2>1 DEF InExec, Base
<1>11. CASE InCall(rg, ip, sp)
  <2>1. Answer' = Answer /\ Answered' = Answered
    BY DEF Answer, Answered
  <2>2. CASE Leaving(rg, ip, sp, "task0", Answered, Registers)
    <3>1. PICK E : E = Answered
      OBVIOUS
    <3>2. Leaving(rg, ip, sp, "task0", E, Registers)'
      BY <1>1, <1>8, <2>2, <3>1
    <3>3. Leaving(rg, ip, sp, "task0", Answered, Registers)'
      BY <2>1, <3>1, <3>2 DEF Leaving
    <3>4. QED
      BY <1>2, <1>11, <3>3 DEF InCall, Base
  <2>3. CASE \E j \in 1 .. 24 : /\ ip = <<"system_call", j + 2>>
                                /\ Saving(j, "task0", 0, asked[1], rg, sp)
    <3>1. PICK j \in 1 .. 24 : /\ ip = <<"system_call", j + 2>>
                               /\ Saving(j, "task0", 0, asked[1], rg, sp)
      BY <2>3
    <3>2. ip[1] # User
      BY <3>1 DEF User
    <3>3. SaveHeight(j) \in 0 .. 24 /\ 0 + SaveHeight(j) = SaveHeight(j)
      BY DEF SaveHeight
    <3>4. sp = <<"task0", SaveHeight(j)>> /\ SaveHeight(j) \in 0 .. Context + 25
      BY <1>1, <3>1, <3>3 DEF Saving
    <3>5. \A m \in 1 .. SaveHeight(j) : mem'["task0"][m] = mem["task0"][m]
      BY <1>1, <1>3, <3>2, <3>4
    <3>6. Holds("task0", 0, asked[1], Registers, SaveHeight(j))'
      BY <3>1, <3>3, <3>5 DEF Holds, Saving
    <3>7. Saving(j, "task0", 0, asked[1], rg, sp)'
      BY <3>1, <3>6 DEF Saving
    <3>8. QED
      BY <1>2, <1>11, <3>1, <3>7 DEF InCall, Base
  <2>4. CASE /\ ip = <<"system_call_function", 1>> /\ sp = <<"task0", 25>>
             /\ rg["rdi"] = <<"task0", 24>> /\ mem["task0"][25] = <<"system_call", 27>>
             /\ Holds("task0", 0, asked[1], Registers, 24)
    <3>1. \A m \in 1 .. 25 : mem'["task0"][m] = mem["task0"][m]
      BY <1>1, <1>3, <2>4 DEF User
    <3>2. Holds("task0", 0, asked[1], Registers, 24)'
      BY <2>4, <3>1 DEF Holds
    <3>3. mem'["task0"][25] = <<"system_call", 27>>
      BY <2>4, <3>1
    <3>4. asked' # <<>> /\ asked'[1]["rdx"] = UserReturn /\ asked'[1]["rcx"] = UserStack
          /\ tss' = "task1"
      BY <1>11 DEF InCall
    <3>5. InCall(rg, ip, sp)'
      BY <2>4, <3>2, <3>3, <3>4 DEF InCall
    <3>6. QED
      BY <1>2, <3>5 DEF Base
  <2>5. CASE /\ ip = <<"system_call", 27>> /\ sp = <<"task0", 24>> /\ rg["rax"] = Answer
             /\ Holds("task0", 0, asked[1], Registers, 24)
    <3>1. \A m \in 1 .. 24 : mem'["task0"][m] = mem["task0"][m]
      BY <1>1, <1>3, <2>5 DEF User
    <3>2. Holds("task0", 0, asked[1], Registers, 24)'
      BY <2>5, <3>1 DEF Holds
    <3>3. QED
      BY <1>2, <1>11, <2>1, <2>5, <3>2 DEF InCall, Base
  <2>6. QED
    BY <1>2, <1>11, <2>2, <2>3, <2>4, <2>5 DEF InCall, Base
<1>12. QED
  BY <1>4, <1>5, <1>9, <1>10, <1>11 DEF Base

\* It leaves the words in use below it, too.
LEMMA LiveKept ==
  ASSUME NEW sp, Shapes, Shapes', NEW s \in Stacks, NEW lo \in Nat, Above(s, lo),
         \/ sp = UserStack
         \/ sp[1] = s /\ sp[2] < lo /\ sp[2] \in 0 .. Depth
  PROVE  Live(mem', sp) = Live(mem, sp)
<1>1. CASE sp = UserStack
  BY <1>1 DEF Live, UserStack, Stacks
<1>2. CASE sp[1] = s /\ sp[2] < lo /\ sp[2] \in 0 .. Depth
  <2>1. PICK h : h = sp[2]
    OBVIOUS
  <2>2. PICK m0 : m0 = mem[s]
    OBVIOUS
  <2>3. PICK m1 : m1 = mem'[s]
    OBVIOUS
  <2>4. h \in 0 .. Depth /\ Depth \in Nat /\ \A m \in 1 .. h : m0[m] = m1[m]
    BY <1>2, <2>1, <2>2, <2>3, BoundsAssumption DEF Above
  <2>5. m0 \in Seq(Words) /\ m1 \in Seq(Words) /\ Len(m0) = Depth /\ Len(m1) = Depth
    <3>1. m0 \in [1 .. Depth -> Words] /\ m1 \in [1 .. Depth -> Words]
      BY <2>2, <2>3 DEF Shapes
    <3>2. QED
      BY <2>4, <3>1
  <2>6. SubSeq(m0, 1, h) = SubSeq(m1, 1, h)
    BY <2>4, <2>5
  <2>7. QED
    BY <1>2, <2>1, <2>2, <2>3, <2>6 DEF Live
<1>3. QED
  BY <1>1, <1>2

\* A thread that is given back its registers is where it was.
LEMMA Resumes ==
  ASSUME NEW rg, NEW ring, NEW ip, NEW sp, Base(rg, ring, ip, sp)',
         regs' = rg, cs' = ring, rip' = ip, rsp' = sp
  PROVE  Base(regs, cs, rip, rsp)'
<1>1. ASSUME NEW t \in Stacks, NEW E, NEW D, Leaving(rg, ip, sp, t, E, D)'
      PROVE  Leaving(regs, rip, rsp, t, E, D)'
  BY <1>1, Zenon DEF Leaving, Popping
<1>2. ASSUME InSwitch(rg, ip, sp)' PROVE InSwitch(regs, rip, rsp)'
  BY <1>2, Zenon DEF InSwitch
<1>3. ASSUME InThread(rg, ip, sp)' PROVE InThread(regs, rip, rsp)'
  BY <1>3, Zenon DEF InThread, Popping
<1>4. ASSUME InExec(rg, ip, sp)' PROVE InExec(regs, rip, rsp)'
  <2>1. /\ asked' = <<>> /\ tss' = "task1"
        /\ Leaving(rg, ip, sp, "task1", ExecRegs, ExecFields)'
    BY <1>4, Zenon DEF InExec
  <2>2. Leaving(regs, rip, rsp, "task1", ExecRegs, ExecFields)'
    BY <2>1, Zenon DEF Leaving, Popping
  <2>3. QED
    BY <2>1, <2>2 DEF InExec
<1>5. ASSUME InUser(rg, ip, sp)' PROVE InUser(regs, rip, rsp)'
  BY <1>5 DEF InUser
<1>6. ASSUME InCall(rg, ip, sp)' PROVE InCall(regs, rip, rsp)'
  <2>1. /\ asked' # <<>> /\ tss' = "task1"
        /\ asked'[1]["rdx"] = UserReturn /\ asked'[1]["rcx"] = UserStack
    BY <1>6 DEF InCall
  <2>2. CASE Leaving(rg, ip, sp, "task0", Answered, Registers)'
    <3>1. Leaving(regs, rip, rsp, "task0", Answered, Registers)'
      BY <2>2, Zenon DEF Leaving, Popping
    <3>2. QED
      BY <2>1, <3>1, Zenon DEF InCall
  <2>3. CASE \E j \in 1 .. 24 : /\ ip = <<"system_call", j + 2>>
                                /\ Saving(j, "task0", 0, asked[1], rg, sp)'
    <3>1. PICK j \in 1 .. 24 : /\ ip = <<"system_call", j + 2>>
                               /\ Saving(j, "task0", 0, asked[1], rg, sp)'
      BY <2>3
    <3>2. Saving(j, "task0", 0, asked[1], regs, rsp)'
      BY <3>1 DEF Saving
    <3>3. QED
      BY <2>1, <3>1, <3>2 DEF InCall
  <2>4. CASE ~ \/ Leaving(rg, ip, sp, "task0", Answered, Registers)'
               \/ \E j \in 1 .. 24 : /\ ip = <<"system_call", j + 2>>
                                     /\ Saving(j, "task0", 0, asked[1], rg, sp)'
    BY <1>6, <2>1, <2>4 DEF InCall
  <2>5. QED
    BY <2>2, <2>3, <2>4
<1>7. QED
  BY <1>2, <1>3, <1>4, <1>5, <1>6, Zenon DEF Base

\* Outside system calls no handler comes near the words of task 0.
LEMMA AboveContext ==
  ASSUME NEW c, Shapes, Base(c.regs, c.cs, c.rip, c.rsp), asked = <<>>
  PROVE  StackOf(c) = "task1" \/ Context <= Below(c)
<1>1. Context \in Nat /\ KERNEL_CS # USER_CS /\ UserStack[1] \notin Stacks
  BY BoundsAssumption DEF KERNEL_CS, USER_CS, Word, UserStack, Stacks
<1>2. \/ InSwitch(c.regs, c.rip, c.rsp) \/ InThread(c.regs, c.rip, c.rsp)
      \/ InExec(c.regs, c.rip, c.rsp) \/ InUser(c.regs, c.rip, c.rsp)
  BY DEF Base, InCall
<1>3. CASE c.cs = USER_CS
  <2>1. ~InSwitch(c.regs, c.rip, c.rsp)
    BY <1>1, <1>3 DEF InSwitch, Base, User
  <2>2. tss = "task1"
    BY <1>2, <2>1 DEF InThread, InExec, InUser
  <2>3. QED
    BY <1>3, <2>2 DEF StackOf
<1>4. CASE c.cs # USER_CS
  <2>1. StackOf(c) = c.rsp[1] /\ Below(c) = c.rsp[2] + (c.rsp[2] % 2)
    BY <1>4 DEF StackOf, Below
  <2>2. CASE InSwitch(c.regs, c.rip, c.rsp)
    <3>1. CASE c.rsp[1] = "task1"
      BY <2>1, <3>1
    <3>2. CASE c.rsp[1] # "task1"
      <4>1. PICK i \in 1 .. 3 : c.rsp = <<"task0", Context + (i - 1)>>
        BY <2>2, <3>2 DEF InSwitch
      <4>2. PICK h : h = Context + (i - 1)
        OBVIOUS
      <4>3. h \in Nat /\ Context <= h /\ c.rsp[2] = h
        BY <1>1, <4>1, <4>2
      <4>4. h % 2 \in 0 .. 1
        BY <4>3
      <4>5. QED
        BY <1>1, <2>1, <4>3, <4>4
    <3>3. QED
      BY <3>1, <3>2
  <2>3. CASE InThread(c.regs, c.rip, c.rsp)
    <3>1. c.rsp[1] = "task1"
      <4>1. CASE \E j \in 1 .. 20 :
                   Popping(j, "task1", 0, ThreadRegs, {"rbx", "rdx"}, c.regs, c.rsp)
        BY <4>1 DEF Popping
      <4>2. CASE \E h : c.rsp = <<"task1", h>>
        BY <4>2
      <4>3. QED
        BY <2>3, <4>1, <4>2 DEF InThread
    <3>2. QED
      BY <2>1, <3>1
  <2>4. CASE InExec(c.regs, c.rip, c.rsp)
    <3>1. c.rsp[1] = "task1"
      <4>1. CASE \E j \in 1 .. 20 :
                   Popping(j, "task1", 0, ExecRegs, ExecFields, c.regs, c.rsp)
        BY <4>1 DEF Popping
      <4>2. CASE \E h : c.rsp = <<"task1", h>>
        BY <4>2
      <4>3. QED
        BY <2>4, <4>1, <4>2 DEF InExec, Leaving
    <3>2. QED
      BY <2>1, <3>1
  <2>5. CASE InUser(c.regs, c.rip, c.rsp)
    BY <1>4, <2>5 DEF InUser, Base, UserReturn
  <2>6. QED
    BY <1>2, <2>2, <2>3, <2>4, <2>5
<1>5. QED
  BY <1>3, <1>4

\* what task 0 left on its stack stays, outside system calls
KeepsTask0 ==
  asked = <<>> => \A n \in 1 .. Context : mem'["task0"][n] = mem["task0"][n]

\* A step of the handler leads to its next instruction, or back to the context
\* that it interrupted.
LEMMA HandlerStep ==
  ASSUME Shapes, NEW c, saved = <<c>>, Base(c.regs, c.cs, c.rip, c.rsp), Overlay(c), Step
  PROVE  /\ Shapes' /\ (Running' \/ Interrupted') /\ KeepsTask0 /\ asked' = asked
         /\ saved' = <<>> => /\ regs' = c.regs /\ cs' = c.cs /\ rip' = c.rip /\ rsp' = c.rsp
                             /\ iflag' = TRUE /\ Live(mem', rsp') = c.live
<1>1. PICK s : s = StackOf(c)
  OBVIOUS
<1>2. PICK b : b = Below(c)
  OBVIOUS
<1>3. /\ s \in Stacks /\ b \in Nat /\ b + 25 <= Depth
      /\ \/ c.cs = USER_CS /\ c.rsp = UserStack
         \/ s = c.rsp[1] /\ c.rsp[2] <= b /\ c.rsp[2] \in Nat
  BY <1>1, <1>2, Room, BoundsAssumption
<1>4. Depth \in Nat /\ Context \in Nat /\ Context <= Depth
  BY BoundsAssumption
<1>5. /\ c.regs \in [Registers -> Words] /\ c.rip # <<"system_call", 1>>
      /\ cs = KERNEL_CS /\ iflag = FALSE
      /\ Pushed(c, s, b) /\ Handling(c, s, b) /\ Live(mem, c.rsp) = c.live
  BY <1>1, <1>2 DEF Overlay
<1>6. ASSUME Above(s, b + 1), Shapes', tss' = tss, asked' = asked
      PROVE  /\ Base(c.regs, c.cs, c.rip, c.rsp)' /\ Live(mem', c.rsp) = c.live
             /\ KeepsTask0
  <2>1. b + 1 \in Nat /\ (c.rsp = UserStack \/ (c.rsp[1] = s /\ c.rsp[2] < b + 1 /\ c.rsp[2] \in 0 .. Depth))
        /\ (c.cs = USER_CS \/ (s = c.rsp[1] /\ c.rsp[2] < b + 1))
    BY <1>3, <1>4
  <2>2. Base(c.regs, c.cs, c.rip, c.rsp)'
    BY <1>3, <1>6, <2>1, BaseKept
  <2>3. Live(mem', c.rsp) = Live(mem, c.rsp)
    BY <1>3, <1>6, <2>1, LiveKept
  <2>4. KeepsTask0
    <3>1. asked = <<>> => s = "task1" \/ Context <= b
      BY <1>1, <1>2, AboveContext
    <3>2. "task0" \in Stacks /\ "task0" # "task1" /\ \A n \in 1 .. Context : n \in 1 .. Depth
      BY <1>4 DEF Stacks
    <3>3. QED
      BY <1>3, <1>4, <1>6, <3>1, <3>2 DEF KeepsTask0, Above
  <2>5. QED
    BY <1>5, <2>2, <2>3, <2>4
<1>7. CASE rip # <<"ret_from_intr", 21>>
  <2>1. Shapes' /\ Plain /\ Above(s, b + 6) /\ Handling(c, s, b)'
    BY <1>3, <1>5, <1>7, HandlerMoves
  <2>2. Above(s, b + 1) /\ tss' = tss /\ asked' = asked
    BY <1>3, <1>4, <2>1 DEF Above, Plain
  <2>3. Pushed(c, s, b)'
    <3>1. \A k \in 2 .. 5 : mem'[s][b + k] = mem[s][b + k]
      BY <1>3, <1>4, <2>1 DEF Above
    <3>2. QED
      BY <1>5, <3>1 DEF Pushed
  <2>4. /\ Base(c.regs, c.cs, c.rip, c.rsp)' /\ Live(mem', c.rsp) = c.live
        /\ KeepsTask0
    BY <1>6, <2>1, <2>2
  <2>5. StackOf(c)' = s /\ Below(c)' = b
    BY <1>1, <1>2, <2>2 DEF StackOf, Below
  <2>6. Overlay(c)'
    BY <1>5, <2>1, <2>3, <2>4, <2>5 DEF Overlay, Plain
  <2>7. saved' = <<c>> /\ saved' # <<>>
    BY <2>1 DEF Plain
  <2>8. Interrupted'
    BY <2>4, <2>6, <2>7 DEF Interrupted
  <2>9. QED
    BY <2>1, <2>2, <2>4, <2>7, <2>8
<1>8. CASE rip = <<"ret_from_intr", 21>>
  <2>1. rsp = <<s, b + 5>> /\ regs = c.regs
    <3>1. 21 \notin 1 .. 20
      OBVIOUS
    <3>2. QED
      BY <1>5, <1>8, <3>1 DEF Handling
  <2>2. StiIretq
    <3>1. rip[1] \in Assembly /\ Instr = <<"sti_iretq">>
      BY <1>8, Labels, ExitListing DEF Instr, Assembly
    <3>2. QED
      BY <3>1, Dispatch
  <2>4. /\ rip' = c.rip /\ cs' = c.cs /\ iflag' = TRUE /\ rsp' = c.rsp /\ regs' = c.regs
        /\ saved' = <<>> /\ tss' = tss /\ printed' = printed /\ asked' = asked
        /\ mem' = Clear(mem, s, b + 1, b + 5)
    <3>1. /\ rsp[1] = s /\ rsp[2] = b + 5 /\ rsp[2] - 1 = b + 4 /\ rsp[2] - 2 = b + 3
          /\ rsp[2] - 3 = b + 2 /\ rsp[2] - 4 = b + 1
      BY <1>3, <2>1
    <3>2. /\ rip' = mem[s][b + 5] /\ cs' = mem[s][b + 4] /\ rsp' = mem[s][b + 2]
          /\ mem' = Clear(mem, s, b + 1, b + 5)
          /\ saved' = <<>> /\ tss' = tss /\ printed' = printed /\ asked' = asked /\ regs' = regs
      BY <2>2, <3>1 DEF StiIretq, Stack
    <3>3. iflag' = (mem[s][b + 3] = Word("IF"))
      BY <2>2, <3>1 DEF StiIretq, Stack
    <3>4. QED
      BY <1>5, <2>1, <3>2, <3>3 DEF Pushed
  <2>5. mem' \in [Stacks -> [1 .. Depth -> Words]] /\ Above(s, b + 1)
    <3> DEFINE row == [m \in 1 .. Depth |-> IF m \in b + 1 .. b + 5 THEN Junk ELSE mem[s][m]]
    <3>1. mem' = [mem EXCEPT ![s] = row] /\ mem \in [Stacks -> [1 .. Depth -> Words]]
      BY <1>3, <2>4 DEF Clear, Shapes
    <3>2. Junk \in Words
      BY WordFacts
    <3>3. /\ row \in [1 .. Depth -> Words]
          /\ \A m \in 1 .. Depth : m < b + 1 => row[m] = mem[s][m]
      BY <1>3, <1>4, <3>1, <3>2
    <3> HIDE DEF row
    <3>4. QED
      BY <1>3, <3>1, <3>3 DEF Above
  <2>6. Shapes'
    BY <1>5, <2>4, <2>5 DEF Shapes
  <2>7. /\ Base(c.regs, c.cs, c.rip, c.rsp)' /\ Live(mem', c.rsp) = c.live
        /\ KeepsTask0
    BY <1>6, <2>4, <2>5, <2>6
  <2>8. Base(regs, cs, rip, rsp)'
    BY <2>4, <2>7, Resumes
  <2>9. iflag' = (rip' # <<"system_call", 1>>)
    BY <1>5, <2>4
  <2>10. Running'
    BY <2>4, <2>8, <2>9 DEF Running
  <2>11. QED
    BY <2>4, <2>6, <2>7, <2>10
<1>9. QED
  BY <1>7, <1>8

\* ip is an instruction of the code
InCode(ip) ==
  \/ \E l \in Assembly, i \in Nat : ip = <<l, i>> /\ i \in DOMAIN CodeOf(l)
  \/ \E f \in CFunctions : ip = <<f, 1>>
  \/ \E i \in 1 .. 3 : ip = <<User, i>>

LEMMA Lines ==
  /\ \A i \in 1 .. 30 : InCode(<<"Build_IRQ", i>>)
  /\ \A i \in 1 .. 21 : InCode(<<"ret_from_intr", i>>)
  /\ \A i \in 1 .. 27 : InCode(<<"system_call", i>>)
  /\ \A i \in 1 .. 22 : InCode(<<"ret_system_call", i>>)
  /\ \A i \in 1 .. 22 : InCode(<<"kernel_thread_func", i>>)
  /\ \A i \in 1 .. 6 : InCode(<<"switch_to", i>>)
<1>1. ASSUME NEW l \in Assembly, NEW n \in Nat, DOMAIN CodeOf(l) = 1 .. n
      PROVE  \A i \in 1 .. n : InCode(<<l, i>>)
  BY <1>1 DEF InCode
<1>2. {"Build_IRQ", "ret_from_intr", "system_call", "ret_system_call",
       "kernel_thread_func", "switch_to"} \subseteq Assembly
  BY DEF Assembly
<1>3. QED
  BY <1>1, <1>2, Labels, SaveListing, CallListing, ExitListing, SwitchListing

LEMMA CodeWords ==
  ASSUME NEW ip, InCode(ip)
  PROVE  ip \in Words
<1>1. CASE \E l \in Assembly, i \in Nat : ip = <<l, i>> /\ i \in DOMAIN CodeOf(l)
  BY <1>1, WordFacts
<1>2. CASE \E f \in CFunctions : ip = <<f, 1>>
  BY <1>2, WordFacts
<1>3. CASE \E i \in 1 .. 3 : ip = <<User, i>>
  <2>1. PICK i \in Nat : ip = <<User, i>>
    BY <1>3
  <2>2. QED
    BY <2>1, WordFacts
<1>4. QED
  BY <1>1, <1>2, <1>3 DEF InCode

LEMMA BaseInCode ==
  ASSUME NEW rg, NEW ring, NEW ip, NEW sp, Base(rg, ring, ip, sp)
  PROVE  InCode(ip)
<1>1. {"__switch_to", "init", "do_execve", "system_call_function"} \subseteq CFunctions
  BY DEF CFunctions
<1>2. \A f \in CFunctions : InCode(<<f, 1>>)
  BY DEF InCode
<1>3. InCode(<<User, 1>>) /\ InCode(<<User, 2>>) /\ InCode(UserReturn)
  BY DEF InCode, UserReturn
<1>4. CASE InSwitch(rg, ip, sp)
  <2>1. (\E i \in 1 .. 6 : ip = <<"switch_to", i>>) \/ ip = <<"__switch_to", 1>>
    BY <1>4 DEF InSwitch
  <2>2. QED
    BY <1>1, <1>2, <2>1, Lines
<1>5. CASE InThread(rg, ip, sp)
  <2>1. \/ \E i \in 1 .. 22 : ip = <<"kernel_thread_func", i>>
        \/ ip = <<"init", 1>> \/ ip = <<"do_execve", 1>>
    BY <1>5 DEF InThread
  <2>2. QED
    BY <1>1, <1>2, <2>1, Lines
<1>6. ASSUME NEW s, NEW E, NEW D, Leaving(rg, ip, sp, s, E, D) PROVE InCode(ip)
  <2>1. \E i \in 1 .. 22 : ip = <<"ret_system_call", i>>
    BY <1>6 DEF Leaving
  <2>2. QED
    BY <2>1, Lines
<1>7. CASE InExec(rg, ip, sp)
  BY <1>6, <1>7 DEF InExec
<1>8. CASE InUser(rg, ip, sp)
  BY <1>3, <1>8 DEF InUser
<1>9. CASE InCall(rg, ip, sp)
  <2>1. CASE Leaving(rg, ip, sp, "task0", Answered, Registers)
    BY <1>6, <2>1
  <2>2. CASE ~Leaving(rg, ip, sp, "task0", Answered, Registers)
    <3>1. (\E i \in 1 .. 27 : ip = <<"system_call", i>>) \/ ip = <<"system_call_function", 1>>
      BY <1>9, <2>2 DEF InCall
    <3>2. QED
      BY <1>1, <1>2, <3>1, Lines
  <2>3. QED
    BY <2>1, <2>2
<1>10. QED
  BY <1>4, <1>5, <1>7, <1>8, <1>9 DEF Base

\* Where the handler is, and how far its stack reaches.
LEMMA HandlingInCode ==
  ASSUME NEW c, NEW s, NEW b \in Nat, Handling(c, s, b)
  PROVE  /\ InCode(rip) /\ rip[1] \in {"Build_IRQ", "ret_from_intr", "do_IRQ"}
         /\ \E k \in 0 .. 25 : rsp = <<s, b + k>>
<1>1. \/ \E i \in 1 .. 30 : rip = <<"Build_IRQ", i>>
      \/ rip = <<"do_IRQ", 1>>
      \/ \E i \in 1 .. 21 : rip = <<"ret_from_intr", i>>
  BY DEF Handling
<1>2. InCode(<<"do_IRQ", 1>>)
  BY DEF InCode, CFunctions
<1>3. InCode(rip) /\ rip[1] \in {"Build_IRQ", "ret_from_intr", "do_IRQ"}
  <2>1. CASE \E i \in 1 .. 30 : rip = <<"Build_IRQ", i>>
    <3>1. PICK i \in 1 .. 30 : rip = <<"Build_IRQ", i>>
      BY <2>1
    <3>2. InCode(<<"Build_IRQ", i>>)
      BY Lines
    <3>3. rip[1] = "Build_IRQ"
      BY <3>1
    <3>4. QED
      BY <3>1, <3>2, <3>3
  <2>2. CASE rip = <<"do_IRQ", 1>>
    BY <1>2, <2>2
  <2>3. CASE \E i \in 1 .. 21 : rip = <<"ret_from_intr", i>>
    <3>1. PICK i \in 1 .. 21 : rip = <<"ret_from_intr", i>>
      BY <2>3
    <3>2. InCode(<<"ret_from_intr", i>>)
      BY Lines
    <3>3. rip[1] = "ret_from_intr"
      BY <3>1
    <3>4. QED
      BY <3>1, <3>2, <3>3
  <2>4. QED
    BY <1>1, <2>1, <2>2, <2>3
<1>4. \A j \in 1 .. 24 : SaveHeight(j) \in 0 .. 25 /\ PopHeight(j) \in 0 .. 25
  BY DEF SaveHeight, PopHeight
<1>5. \E k \in 0 .. 25 : rsp = <<s, b + k>>
  <2>1. CASE \E j \in 1 .. 24 : Saving(j, s, b, c.regs, regs, rsp)
    BY <1>4, <2>1 DEF Saving
  <2>2. CASE \E j \in 1 .. 20 : Popping(j, s, b, c.regs, Registers, regs, rsp)
    BY <1>4, <2>2 DEF Popping
  <2>3. CASE \E k \in {5, 6, 7, 24, 25} : rsp = <<s, b + k>>
    BY <2>3
  <2>4. QED
    BY <2>1, <2>2, <2>3 DEF Handling
<1>6. QED
  BY <1>3, <1>5

\* An interrupt starts a handler.
LEMMA EnterStep ==
  ASSUME Shapes, Running, Interrupt
  PROVE  Shapes' /\ Interrupted' /\ KeepsTask0 /\ asked' = asked /\ saved' # <<>>
<1>1. PICK c : c = [regs |-> regs, cs |-> cs, rip |-> rip, rsp |-> rsp,
                    live |-> Live(mem, rsp)]
  OBVIOUS
<1>2. /\ c.regs = regs /\ c.cs = cs /\ c.rip = rip /\ c.rsp = rsp
      /\ c.live = Live(mem, rsp)
  BY <1>1
<1>3. Base(c.regs, c.cs, c.rip, c.rsp) /\ c.rip # <<"system_call", 1>>
  <2>1. Base(regs, cs, rip, rsp) /\ iflag = (rip # <<"system_call", 1>>) /\ iflag
    BY DEF Running, Interrupt, Enter
  <2>2. QED
    BY <1>2, <2>1
<1>4. PICK s : s = StackOf(c)
  OBVIOUS
<1>5. PICK b : b = Below(c)
  OBVIOUS
<1>6. /\ s \in Stacks /\ b \in Nat /\ b + 25 <= Depth
      /\ \/ c.cs = USER_CS /\ c.rsp = UserStack
         \/ c.cs = KERNEL_CS /\ s = c.rsp[1] /\ c.rsp[2] <= b /\ c.rsp[2] \in Nat
  BY <1>3, <1>4, <1>5, Room, BoundsAssumption
<1>7. Depth \in Nat /\ Context \in Nat /\ Context <= Depth
  BY BoundsAssumption
<1>8. PICK frame : frame = <<IF cs = USER_CS THEN Word("USER_DS") ELSE KERNEL_DS, rsp,
                             Word("IF"), cs, rip>>
  OBVIOUS
<1>9. s = (IF cs = USER_CS THEN tss ELSE rsp[1])
      /\ b = (IF cs = USER_CS THEN 0 ELSE rsp[2] + (rsp[2] % 2))
  BY <1>2, <1>4, <1>5 DEF StackOf, Below
<1>10. /\ mem' = [mem EXCEPT ![s] = [n \in 1 .. Depth |->
                    IF n \in b + 1 .. b + 5 THEN frame[n - b] ELSE mem[s][n]]]
       /\ rsp' = <<s, b + 5>> /\ rip' = <<"Build_IRQ", 1>> /\ cs' = KERNEL_CS
       /\ iflag' = FALSE /\ saved' = <<c>> /\ regs' = regs /\ tss' = tss
       /\ printed' = printed /\ asked' = asked
  <2>1. mem[s] = mem[IF cs = USER_CS THEN tss ELSE rsp[1]] /\ DOMAIN mem = Stacks
    BY <1>9 DEF Shapes
  <2>2. QED
    BY <1>1, <1>6, <1>8, <1>9, <2>1 DEF Interrupt, Enter
<1>11. frame \in [1 .. 5 -> Words]
  <2>1. rip \in Words
    BY <1>2, <1>3, BaseInCode, CodeWords
  <2>2. rsp \in Words
    <3>1. CASE c.rsp = UserStack
      BY <1>2, <3>1, WordFacts
    <3>2. CASE c.rsp # UserStack
      BY <1>2, <1>3, <3>2, BaseRoom, BoundsAssumption, WordFacts
    <3>3. QED
      BY <3>1, <3>2
  <2>3. cs \in Words
    BY <1>2, <1>6, WordFacts
  <2>4. Word("USER_DS") \in Words /\ KERNEL_DS \in Words /\ Word("IF") \in Words
    BY WordFacts
  <2> HIDE DEF KERNEL_DS, Word
  <2>5. QED
    BY <1>8, <2>1, <2>2, <2>3, <2>4
<1>12. frame[2] = c.rsp /\ frame[3] = Word("IF") /\ frame[4] = c.cs /\ frame[5] = c.rip
  BY <1>2, <1>8
<1>13. /\ mem' \in [Stacks -> [1 .. Depth -> Words]] /\ Above(s, b + 1)
       /\ \A k \in 1 .. 5 : mem'[s][b + k] = frame[k]
  <2> DEFINE row == [n \in 1 .. Depth |-> IF n \in b + 1 .. b + 5 THEN frame[n - b]
                                         ELSE mem[s][n]]
  <2>1. mem \in [Stacks -> [1 .. Depth -> Words]]
    BY DEF Shapes
  <2>2. \A n \in b + 1 .. b + 5 : n - b \in 1 .. 5
    BY <1>6
  <2>3. row \in [1 .. Depth -> Words]
    BY <1>6, <1>11, <2>1, <2>2
  <2>4. \A n \in 1 .. Depth : n < b + 1 => row[n] = mem[s][n]
    BY <1>6, <1>7
  <2>5. \A k \in 1 .. 5 : row[b + k] = frame[k]
    <3>1. SUFFICES ASSUME NEW k \in 1 .. 5 PROVE row[b + k] = frame[k]
      OBVIOUS
    <3>2. b + k \in 1 .. Depth /\ b + k \in b + 1 .. b + 5 /\ b + k - b = k
      BY <1>6, <1>7
    <3>3. QED
      BY <1>6, <3>2
  <2> HIDE DEF row
  <2>6. mem' = [mem EXCEPT ![s] = row]
    BY <1>10 DEF row
  <2>7. QED
    BY <1>6, <2>1, <2>3, <2>4, <2>5, <2>6 DEF Above
<1>14. Shapes'
  BY <1>10, <1>13 DEF Shapes
<1>15. Base(c.regs, c.cs, c.rip, c.rsp)'
  <2>1. b + 1 \in Nat /\ (c.cs = USER_CS \/ (s = c.rsp[1] /\ c.rsp[2] < b + 1))
    BY <1>6
  <2>2. QED
    BY <1>3, <1>6, <1>10, <1>13, <2>1, BaseKept
<1>16. Live(mem', c.rsp) = c.live
  <2>1. b + 1 \in Nat
        /\ (c.rsp = UserStack \/ (c.rsp[1] = s /\ c.rsp[2] < b + 1 /\ c.rsp[2] \in 0 .. Depth))
    BY <1>6, <1>7
  <2>2. Live(mem', c.rsp) = Live(mem, c.rsp)
    BY <1>6, <1>13, <1>14, <2>1, LiveKept
  <2>3. QED
    BY <1>2, <2>2
<1>17. Pushed(c, s, b)' /\ Handling(c, s, b)'
  BY <1>2, <1>10, <1>12, <1>13 DEF Pushed, Handling
<1>18. Overlay(c)'
  <2>1. StackOf(c)' = s /\ Below(c)' = b
    BY <1>4, <1>5, <1>10 DEF StackOf, Below
  <2>2. QED
    BY <1>2, <1>3, <1>10, <1>16, <1>17, <2>1 DEF Overlay, Shapes
<1>19. KeepsTask0
  <2>1. asked = <<>> => s = "task1" \/ Context <= b
    BY <1>3, <1>4, <1>5, AboveContext
  <2>2. "task0" \in Stacks /\ "task0" # "task1" /\ \A n \in 1 .. Context : n \in 1 .. Depth
    BY <1>7 DEF Stacks
  <2>3. QED
    BY <1>6, <1>7, <1>13, <2>1, <2>2 DEF KeepsTask0, Above
<1>20. QED
  BY <1>10, <1>14, <1>15, <1>18, <1>19 DEF Interrupted

-----------------------------------------------------------------------------
(* The thread.                                                             *)

LEMMA Fetch ==
  /\ \A i : rip = <<"switch_to", i>> => rip[1] \in Assembly /\ Instr = switch_to[i]
  /\ \A i : rip = <<"kernel_thread_func", i>> =>
              rip[1] \in Assembly /\ Instr = kernel_thread_func[i]
  /\ \A i : rip = <<"system_call", i>> => rip[1] \in Assembly /\ Instr = system_call[i]
  /\ \A i : rip = <<"ret_system_call", i>> =>
              rip[1] \in Assembly /\ Instr = ret_system_call[i]
<1>1. {"switch_to", "kernel_thread_func", "system_call", "ret_system_call"} \subseteq Assembly
  BY DEF Assembly
<1>2. QED
  BY <1>1, Labels DEF Instr

\* A step of the user program.
LEMMA DispatchUser ==
  ASSUME Step, rip[1] = User
  PROVE  Sysenter \/ \E nr \in Calls : UserPrepares(nr)
<1>1. User \notin Assembly
      /\ User \notin {"__switch_to", "init", "do_execve", "system_call_function", "do_IRQ"}
  BY DEF User, Assembly
<1>2. /\ ~Push /\ ~PushValue /\ ~Pop /\ ~Mov /\ ~StoreRax /\ ~AddRsp /\ ~StiSubRsp
      /\ ~SwitchRsp /\ ~Jmp /\ ~Call /\ ~StiIretq /\ ~Sysexit
  BY <1>1 DEF At, Push, PushValue, Pop, StoreRax, AddRsp, StiSubRsp, SwitchRsp, Jmp,
         StiIretq, Sysexit, Mov, Call
<1>3. \A f \in {"__switch_to", "init", "do_execve", "system_call_function", "do_IRQ"} : ~In(f)
  BY <1>1 DEF In
<1>4. ~__switch_to /\ ~init /\ ~do_execve /\ ~system_call_function /\ ~do_IRQ
  BY <1>3 DEF __switch_to, init, do_execve, system_call_function, do_IRQ
<1>5. QED
  BY <1>2, <1>4 DEF Step

LEMMA DoesCall ==
  ASSUME Shapes, NEW x, NEW f, Does(x),
         \/ x = <<"call", f[1]>> /\ f[2] = 1
         \/ x = <<"call_rbx">> /\ regs["rbx"] = f,
         f = <<f[1], f[2]>>, <<rip[1], rip[2] + 1>> \in Words,
         NEW s \in Stacks, NEW h \in Nat, rsp = <<s, h>>, h < Depth
  PROVE  /\ Shapes' /\ Plain /\ rip' = f /\ regs' = regs
         /\ rsp' = <<s, h + 1>> /\ mem'[s][h + 1] = <<rip[1], rip[2] + 1>>
         /\ Above(s, h + 1)
<1>1. Instr[1] \in {"call", "call_rbx"}
  BY DEF Does
<1>2. Call
  BY <1>1, Dispatch DEF Does
<1>3. rip' = f
  <2>1. CASE x = <<"call", f[1]>> /\ f[2] = 1
    BY <1>2, <2>1 DEF Call, At, Does
  <2>2. CASE x = <<"call_rbx">> /\ regs["rbx"] = f
    BY <1>2, <2>2 DEF Call, At, Does
  <2>3. QED
    BY <2>1, <2>2
<1>4. PICK w \in Words : w = <<rip[1], rip[2] + 1>>
  OBVIOUS
<1>5. /\ Plain /\ regs' = regs /\ rsp' = <<s, h + 1>>
      /\ mem' = [mem EXCEPT ![s][h + 1] = w]
  BY <1>2, <1>4 DEF Call, PushWord, Plain, ghosts
<1>6. h + 1 \in 1 .. Depth /\ mem \in [Stacks -> [1 .. Depth -> Words]]
  BY BoundsAssumption DEF Shapes
<1>7. /\ mem' \in [Stacks -> [1 .. Depth -> Words]] /\ mem'[s][h + 1] = w
      /\ Above(s, h + 1)
  <2>1. /\ mem' \in [Stacks -> [1 .. Depth -> Words]] /\ mem'[s][h + 1] = w
        /\ \A t \in Stacks, m \in 1 .. Depth : t # s \/ m # h + 1 => mem'[t][m] = mem[t][m]
    BY <1>5, <1>6, Put
  <2>2. QED
    BY <1>6, <2>1 DEF Above
<1>8. Shapes'
  BY <1>5, <1>7 DEF Shapes, Plain
<1>9. QED
  BY <1>3, <1>4, <1>5, <1>7, <1>8

\* The place of a field in struct pt_regs.
LEMMA FieldPlace ==
  /\ Len(pt_regs) = 24 /\ DOMAIN pt_regs = 1 .. 24
  /\ \A i \in 1 .. 24 : Field(pt_regs[i]) = i
  /\ \A r \in Registers : Field(r) \in 1 .. 17 /\ pt_regs[Field(r)] = r
  /\ Field("errcode") = 19 /\ Field("rip") = 20 /\ Field("cs") = 21 /\ Field("rsp") = 23
<1>1. Len(pt_regs) = 24 /\ DOMAIN pt_regs = 1 .. 24
  BY DEF pt_regs
<1>2. \A i, k \in 1 .. 24 : pt_regs[i] = pt_regs[k] => i = k
  BY DEF pt_regs
<1>3. ASSUME NEW i \in 1 .. 24 PROVE Field(pt_regs[i]) = i
  <2>1. \E k \in DOMAIN pt_regs : pt_regs[k] = pt_regs[i]
    BY <1>1
  <2> DEFINE k == CHOOSE k \in DOMAIN pt_regs : pt_regs[k] = pt_regs[i]
  <2>2. k \in DOMAIN pt_regs /\ pt_regs[k] = pt_regs[i]
    BY <2>1
  <2> HIDE DEF k
  <2>3. k = i
    BY <1>1, <1>2, <2>2
  <2>4. QED
    BY <2>3 DEF k, Field
<1>4. \A r \in Registers : \E i \in 1 .. 17 : pt_regs[i] = r
  BY Fields
<1>5. \A r \in Registers : Field(r) \in 1 .. 17 /\ pt_regs[Field(r)] = r
  <2>1. SUFFICES ASSUME NEW r \in Registers
                 PROVE  Field(r) \in 1 .. 17 /\ pt_regs[Field(r)] = r
    OBVIOUS
  <2>2. PICK i \in 1 .. 17 : pt_regs[i] = r
    BY <1>4
  <2>3. Field(pt_regs[i]) = i
    BY <1>3
  <2>4. QED
    BY <2>2, <2>3
<1>6. pt_regs[19] = "errcode" /\ pt_regs[20] = "rip" /\ pt_regs[21] = "cs"
      /\ pt_regs[23] = "rsp"
  BY DEF pt_regs
<1>7. /\ Field("errcode") = 19 /\ Field("rip") = 20 /\ Field("cs") = 21
      /\ Field("rsp") = 23
  <2>1. /\ Field(pt_regs[19]) = 19 /\ Field(pt_regs[20]) = 20 /\ Field(pt_regs[21]) = 21
        /\ Field(pt_regs[23]) = 23
    BY <1>3
  <2>2. QED
    BY <1>6, <2>1
<1>8. QED
  BY <1>1, <1>3, <1>5, <1>7

\* Task 0's words stay when a step touches the other stack only, or stays
\* above them.
LEMMA Keeping ==
  ASSUME NEW s \in Stacks, NEW lo \in Nat, Above(s, lo), s = "task1" \/ Context < lo
  PROVE  KeepsTask0
<1>1. "task0" \in Stacks /\ "task0" # "task1" /\ \A n \in 1 .. Context : n \in 1 .. Depth
  BY BoundsAssumption DEF Stacks
<1>2. QED
  BY <1>1, BoundsAssumption DEF KeepsTask0, Above

\* what a step of the thread leads to
Proceeds == Shapes' /\ Running' /\ KeepsTask0

\* A step in the kernel that does not come to the entry of system_call.
LEMMA Proceeding ==
  ASSUME Running, rip # <<"system_call", 1>>, saved' = saved, iflag' = iflag, cs' = cs,
         rip'[1] \notin {User, "system_call"}, rip[1] # User,
         \/ InSwitch(regs, rip, rsp)' \/ InThread(regs, rip, rsp)' \/ InExec(regs, rip, rsp)'
         \/ InCall(regs, rip, rsp)'
  PROVE  Running'
<1>1. saved' = <<>> /\ cs' = KERNEL_CS /\ iflag' = TRUE /\ rip' # <<"system_call", 1>>
  <2>1. saved = <<>> /\ iflag = (rip # <<"system_call", 1>>) /\ Base(regs, cs, rip, rsp)
    BY DEF Running
  <2>2. iflag = TRUE
    BY <2>1
  <2>3. cs = KERNEL_CS
    BY <2>1 DEF Base
  <2>4. QED
    BY <2>1, <2>2, <2>3
<1>2. Base(regs, cs, rip, rsp)'
  BY <1>1 DEF Base
<1>3. QED
  BY <1>1, <1>2 DEF Running

LEMMA SwitchSteps ==
  ASSUME Shapes, Running, InSwitch(regs, rip, rsp), Step
  PROVE  Proceeds /\ asked' = asked /\ saved' = <<>>
<1>1. /\ asked = <<>> /\ ThreadWords /\ saved = <<>>
      /\ "task0" \in Stacks /\ "task1" \in Stacks
      /\ {"rax", "rbp"} \subseteq Registers
  BY DEF InSwitch, Running, Stacks, Registers, GPRs
<1>2. Context \in Nat /\ Depth \in Nat /\ Context + 60 <= Depth
  BY BoundsAssumption
<1>3. ASSUME \A m \in 1 .. 24 : mem'["task1"][m] = mem["task1"][m] PROVE ThreadWords'
  BY <1>1, <1>3 DEF ThreadWords
<1>4. ASSUME NEW i \in 1 .. 2, rip = <<"switch_to", i>>, rsp = <<"task0", Context + (i - 1)>>
      PROVE  Proceeds /\ asked' = asked /\ saved' = <<>>
  <2>1. PICK r \in {"rax", "rbp"} : Does(<<"push", r>>)
    <3>1. Instr = switch_to[i] /\ rip[1] \in Assembly
      BY <1>4, Fetch
    <3>2. switch_to[i] \in {<<"push", "rax">>, <<"push", "rbp">>}
      BY SwitchListing
    <3>3. QED
      BY <3>1, <3>2 DEF Does
  <2>2. PICK h : h = Context + (i - 1)
    OBVIOUS
  <2>3. h \in Nat /\ h < Depth /\ Context < h + 1 /\ h + 1 = Context + (i + 1 - 1) /\ h + 1 \in Nat
    BY <1>2, <2>2
  <2>4. /\ Shapes' /\ Plain /\ rip' = <<rip[1], rip[2] + 1>> /\ regs' = regs
        /\ rsp' = <<"task0", h + 1>> /\ Above("task0", h + 1)
    BY <1>1, <1>4, <2>1, <2>2, <2>3, DoesPush
  <2>5. rip' = <<"switch_to", i + 1>> /\ rsp' = <<"task0", Context + (i + 1 - 1)>>
    BY <1>4, <2>3, <2>4
  <2>6. ThreadWords'
    <3>1. \A m \in 1 .. Depth : mem'["task1"][m] = mem["task1"][m]
      BY <1>1, <1>2, <2>4 DEF Above, Stacks
    <3>2. QED
      BY <1>2, <1>3, <3>1
  <2>7. InSwitch(regs, rip, rsp)'
    <3>1. i + 1 \in 1 .. 3 /\ asked' = <<>>
      BY <1>1, <2>4 DEF Plain
    <3>2. QED
      BY <2>5, <2>6, <3>1 DEF InSwitch
  <2>8. KeepsTask0
    BY <1>1, <2>3, <2>4, Keeping
  <2>9. QED
    BY <1>1, <1>4, <2>4, <2>5, <2>7, <2>8, Proceeding DEF Proceeds, Plain, User
<1>5. CASE rip = <<"switch_to", 3>>
  <2>1. Does(<<"switch_rsp">>)
    BY <1>5, Fetch, SwitchListing DEF Does
  <2>2. SwitchRsp
    BY <2>1, Dispatch DEF Does
  <2>3. Plain /\ rip' = <<"switch_to", 4>> /\ rsp' = <<"task1", 24>> /\ mem' = mem /\ regs' = regs
    BY <1>5, <2>2, FieldPlace DEF SwitchRsp, Advance, Plain, ghosts, Frame
  <2>4. Shapes' /\ KeepsTask0 /\ ThreadWords'
    BY <1>1, <2>3 DEF Shapes, Plain, KeepsTask0, ThreadWords
  <2>5. InSwitch(regs, rip, rsp)'
    BY <1>1, <2>3, <2>4 DEF InSwitch, Plain
  <2>6. QED
    BY <1>1, <1>5, <2>3, <2>4, <2>5, Proceeding DEF Proceeds, Plain, User
<1>6. CASE rip = <<"switch_to", 4>> /\ rsp = <<"task1", 24>>
  <2>1. Does(<<"set", "rax", <<"switch_to", 7>>>>)
    BY <1>6, Fetch, SwitchListing DEF Does
  <2>2. <<"switch_to", 7>> \in Words
    BY WordFacts DEF Assembly
  <2>3. /\ Shapes' /\ Plain /\ rip' = <<rip[1], rip[2] + 1>> /\ rsp' = rsp /\ mem' = mem
    BY <1>1, <2>1, <2>2, DoesSet
  <2>4. rip' = <<"switch_to", 5>> /\ KeepsTask0 /\ ThreadWords'
    BY <1>1, <1>6, <2>3 DEF KeepsTask0, ThreadWords
  <2>5. InSwitch(regs, rip, rsp)'
    BY <1>1, <1>6, <2>3, <2>4 DEF InSwitch, Plain
  <2>6. QED
    BY <1>1, <1>6, <2>3, <2>4, <2>5, Proceeding DEF Proceeds, Plain, User
<1>7. CASE rip = <<"switch_to", 5>> /\ rsp = <<"task1", 24>>
  <2>1. Does(<<"push_value", <<"kernel_thread_func", 1>>>>)
    BY <1>7, Fetch, SwitchListing DEF Does
  <2>2. PICK w \in Words : w = <<"kernel_thread_func", 1>>
    BY WordFacts DEF Assembly
  <2>3. 24 < Depth
    BY <1>2
  <2>4. /\ Shapes' /\ Plain /\ rip' = <<rip[1], rip[2] + 1>>
        /\ rsp' = <<"task1", 24 + 1>> /\ mem'["task1"][24 + 1] = w /\ Above("task1", 24 + 1)
    BY <1>1, <1>7, <2>1, <2>2, <2>3, DoesPushValue
  <2>5. rip' = <<"switch_to", 6>> /\ rsp' = <<"task1", 25>> /\ mem'["task1"][25] = w
    BY <1>7, <2>4
  <2>6. ThreadWords' /\ KeepsTask0
    <3>1. 24 + 1 = 25 /\ \A m \in 1 .. 24 : m \in 1 .. Depth /\ m < 25
      BY <1>2
    <3>2. \A m \in 1 .. 24 : mem'["task1"][m] = mem["task1"][m]
      BY <1>1, <2>4, <3>1 DEF Above
    <3>3. QED
      BY <1>1, <1>3, <2>4, <3>2, Keeping
  <2>7. InSwitch(regs, rip, rsp)'
    BY <1>1, <2>2, <2>4, <2>5, <2>6 DEF InSwitch, Plain
  <2>8. QED
    BY <1>1, <1>7, <2>4, <2>5, <2>6, <2>7, Proceeding DEF Proceeds, Plain, User
<1>8. CASE /\ rip = <<"switch_to", 6>> /\ rsp = <<"task1", 25>>
           /\ mem["task1"][25] = <<"kernel_thread_func", 1>>
  <2>1. Does(<<"jmp", "__switch_to">>)
    BY <1>8, Fetch, SwitchListing DEF Does
  <2>2. /\ Shapes' /\ Plain /\ rip' = <<"__switch_to", 1>> /\ rsp' = rsp /\ mem' = mem
    BY <2>1, DoesJmp
  <2>3. KeepsTask0 /\ ThreadWords'
    BY <1>1, <2>2 DEF KeepsTask0, ThreadWords
  <2>4. InSwitch(regs, rip, rsp)'
    BY <1>1, <1>8, <2>2, <2>3 DEF InSwitch, Plain
  <2>5. QED
    BY <1>1, <1>8, <2>2, <2>3, <2>4, Proceeding DEF Proceeds, Plain, User
<1>9. CASE /\ rip = <<"__switch_to", 1>> /\ rsp = <<"task1", 25>>
           /\ mem["task1"][25] = <<"kernel_thread_func", 1>>
  <2>1. __switch_to
    BY <1>9, DispatchC DEF In
  <2>2. /\ tss' = "task1" /\ regs' = Clobbered(Junk) /\ Drop(1) /\ cs' = cs /\ iflag' = iflag
        /\ printed' = printed /\ saved' = saved /\ asked' = asked
        /\ rip' = <<"kernel_thread_func", 1>>
    BY <1>9, <2>1 DEF __switch_to, Return, Stack, ghosts
  <2>3. 25 \in Nat /\ 1 \in Nat /\ 1 <= 25 /\ 25 <= Depth /\ 25 - 1 = 24 /\ 25 - 1 + 1 = 25
    BY <1>2
  <2>4. /\ mem' \in [Stacks -> [1 .. Depth -> Words]] /\ rsp' = <<"task1", 24>>
        /\ Above("task1", 25)
    BY <1>1, <1>9, <2>2, <2>3, Dropped
  <2>5. Shapes'
    BY <1>1, <2>2, <2>4, Clobbers, WordFacts DEF Shapes
  <2>6. KeepsTask0
    BY <1>1, <2>4, Keeping
  <2>7. ThreadWords'
    <3>1. \A m \in 1 .. 24 : m \in 1 .. Depth /\ m < 25
      BY <1>2
    <3>2. \A m \in 1 .. 24 : mem'["task1"][m] = mem["task1"][m]
      BY <1>1, <2>4, <3>1 DEF Above
    <3>3. QED
      BY <1>3, <3>2
  <2>8. Holds("task1", 0, ThreadRegs, {"rbx", "rdx"}, 24)'
    <3>1. SUFFICES ASSUME NEW k \in 8 .. 24, pt_regs[25 - k] \in {"rbx", "rdx"}
                   PROVE  mem'["task1"][0 + k] = ThreadRegs[pt_regs[25 - k]]
      BY DEF Holds
    <3>2. pt_regs[25 - k] \in Registers
      BY <3>1, Fields
    <3>3. ThreadRegs[pt_regs[25 - k]] = ThreadFrame(pt_regs[25 - k])
      BY <3>2 DEF ThreadRegs
    <3>4. QED
      BY <2>7, <3>3 DEF ThreadWords
  <2>9. Popping(1, "task1", 0, ThreadRegs, {"rbx", "rdx"}, regs, rsp)'
    BY <2>4, <2>8 DEF Popping, PopHeight
  <2>10. InThread(regs, rip, rsp)'
    BY <1>1, <2>2, <2>9 DEF InThread
  <2>11. QED
    BY <1>1, <1>9, <2>2, <2>5, <2>6, <2>10, Proceeding DEF Proceeds, User
<1>10. QED
  <2>1. CASE \E i \in 1 .. 3 : rip = <<"switch_to", i>> /\ rsp = <<"task0", Context + (i - 1)>>
    <3>1. PICK i \in 1 .. 3 : rip = <<"switch_to", i>> /\ rsp = <<"task0", Context + (i - 1)>>
      BY <2>1
    <3>2. i \in 1 .. 2 \/ i = 3
      OBVIOUS
    <3>3. QED
      BY <1>4, <1>5, <3>1, <3>2
  <2>2. CASE \E i \in 4 .. 5 : rip = <<"switch_to", i>> /\ rsp = <<"task1", 24>>
    BY <1>6, <1>7, <2>2
  <2>3. QED
    BY <1>8, <1>9, <2>1, <2>2 DEF InSwitch

\* ret_system_call puts the result into the frame and restores the registers.
LEMMA LeavingStep ==
  ASSUME Shapes, NEW s \in Stacks, NEW E, NEW D, D \subseteq Registers, "rax" \in D,
         Leaving(regs, rip, rsp, s, E, D), Step, rip # <<"ret_system_call", 22>>
  PROVE  /\ Shapes' /\ Plain /\ Leaving(regs, rip, rsp, s, E, D)' /\ Above(s, 1)
         /\ rip'[1] = "ret_system_call"
<1>1. Depth \in Nat /\ 24 <= Depth /\ 0 + 24 <= Depth
  BY BoundsAssumption
<1>2. CASE /\ rip = <<"ret_system_call", 1>> /\ rsp = <<s, 24>> /\ regs["rax"] = E["rax"]
           /\ Holds(s, 0, E, D \ {"rax"}, 24)
  <2>1. Does(<<"store_rax", 16>>)
    BY <1>2, Fetch, ExitListing DEF Does
  <2>2. StoreRax
    BY <2>1, Dispatch DEF Does
  <2>3. rsp[1] = s /\ rsp[2] - 16 = 8 /\ Instr[2] = 16
    BY <1>2, <2>1 DEF Does
  <2>4. /\ Plain /\ rip' = <<"ret_system_call", 2>> /\ regs' = regs /\ rsp' = rsp
        /\ mem' = [mem EXCEPT ![s][8] = regs["rax"]]
    BY <1>2, <2>2, <2>3 DEF StoreRax, Advance, Plain, ghosts
  <2>5. regs["rax"] \in Words /\ 8 \in 1 .. Depth /\ mem \in [Stacks -> [1 .. Depth -> Words]]
    BY <1>1, Fields DEF Shapes
  <2>6. /\ mem' \in [Stacks -> [1 .. Depth -> Words]] /\ mem'[s][8] = regs["rax"]
        /\ \A t \in Stacks, m \in 1 .. Depth : t # s \/ m # 8 => mem'[t][m] = mem[t][m]
    BY <2>4, <2>5, Put
  <2>7. Shapes'
    BY <2>4, <2>6 DEF Shapes, Plain
  <2>8. Above(s, 1)
    BY <1>1, <2>6 DEF Above
  <2>9. Holds(s, 0, E, D, 24)'
    <3>1. SUFFICES ASSUME NEW k \in 8 .. 24, pt_regs[25 - k] \in D
                   PROVE  mem'[s][0 + k] = E[pt_regs[25 - k]]
      BY DEF Holds
    <3>2. CASE k = 8
      <4>1. pt_regs[25 - k] = "rax" /\ 0 + k = 8
        BY <3>2, Fields
      <4>2. QED
        BY <1>2, <2>6, <4>1
    <3>3. CASE k # 8
      <4>1. 25 - k \in 1 .. 16 /\ k \in 1 .. Depth /\ 0 + k = k
        BY <1>1, <3>3
      <4>2. pt_regs[25 - k] # "rax"
        BY <4>1, Fields
      <4>3. mem[s][0 + k] = E[pt_regs[25 - k]]
        BY <1>2, <3>1, <4>2 DEF Holds
      <4>4. QED
        BY <2>6, <3>3, <4>1, <4>3
    <3>4. QED
      BY <3>2, <3>3
  <2>10. Popping(1, s, 0, E, D, regs, rsp)'
    BY <1>2, <2>4, <2>9 DEF Popping, PopHeight
  <2>11. Leaving(regs, rip, rsp, s, E, D)'
    BY <2>4, <2>10 DEF Leaving
  <2>12. QED
    BY <2>4, <2>7, <2>8, <2>11
<1>3. CASE \E j \in 1 .. 20 : /\ rip = <<"ret_system_call", j + 1>>
                              /\ Popping(j, s, 0, E, D, regs, rsp)
  <2>1. PICK j \in 1 .. 20 : /\ rip = <<"ret_system_call", j + 1>>
                            /\ Popping(j, s, 0, E, D, regs, rsp)
    BY <1>3
  <2>2. CASE j # 20
    <3>1. j \in 1 .. 19 /\ j + 1 \in 1 .. 20 /\ 0 \in Nat
      BY <2>2
    <3>2. Does(PopInstr(j))
      BY <2>1, <3>1, Fetch, ExitListing DEF Does
    <3>3. /\ Shapes' /\ Plain /\ rip' = <<rip[1], rip[2] + 1>> /\ Above(s, 0 + 8)
          /\ Popping(j + 1, s, 0, E, D, regs, rsp)'
      BY <1>1, <2>1, <3>1, <3>2, PopStep
    <3>4. rip' = <<"ret_system_call", j + 1 + 1>>
      BY <2>1, <3>3
    <3>5. Above(s, 1)
      BY <1>1, <3>3 DEF Above
    <3>6. Leaving(regs, rip, rsp, s, E, D)'
      BY <3>1, <3>3, <3>4 DEF Leaving
    <3>7. QED
      BY <3>3, <3>4, <3>5, <3>6
  <2>3. CASE j = 20
    <3>1. rip = <<"ret_system_call", 21>> /\ rsp = <<s, 7>>
      BY <2>1, <2>3 DEF Popping, PopHeight
    <3>2. \A r \in D : regs[r] = E[r]
      BY <2>1, <2>3, Fields DEF Popping
    <3>3. Does(<<"add_rsp", 7>>)
      BY <3>1, Fetch, ExitListing DEF Does
    <3>4. 7 \in Nat /\ 7 <= 7 /\ 7 <= Depth /\ 7 - 7 = 0 /\ 0 + 1 = 1
      BY <1>1
    <3>5. /\ Shapes' /\ Plain /\ rip' = <<rip[1], rip[2] + 1>> /\ regs' = regs
          /\ rsp' = <<s, 0>> /\ Above(s, 1)
      BY <3>1, <3>3, <3>4, DoesAdd
    <3>6. rip' = <<"ret_system_call", 22>>
      BY <3>1, <3>5
    <3>7. Leaving(regs, rip, rsp, s, E, D)'
      BY <3>2, <3>5, <3>6 DEF Leaving
    <3>8. QED
      BY <3>5, <3>6, <3>7
  <2>4. QED
    BY <2>2, <2>3
<1>4. QED
  BY <1>2, <1>3 DEF Leaving

\* sysexit gives the user the registers that were to be given to it.
LEMMA LeavingEnds ==
  ASSUME Shapes, NEW s \in Stacks, NEW E, NEW D, Leaving(regs, rip, rsp, s, E, D), Step,
         rip = <<"ret_system_call", 22>>, {"rdx", "rcx"} \subseteq D
  PROVE  /\ Shapes' /\ \A r \in D : regs[r] = E[r]
         /\ regs' = regs /\ mem' = mem /\ rip' = E["rdx"] /\ rsp' = E["rcx"]
         /\ cs' = USER_CS /\ asked' = <<>> /\ iflag' = iflag /\ tss' = tss
         /\ saved' = saved
<1>1. \A r \in D : regs[r] = E[r]
  <2>1. \A j \in 1 .. 20 : rip # <<"ret_system_call", j + 1>>
    OBVIOUS
  <2>2. QED
    BY <2>1 DEF Leaving
<1>2. Does(<<"sysexit">>)
  BY Fetch, ExitListing DEF Does
<1>3. Sysexit
  BY <1>2, Dispatch DEF Does
<1>4. QED
  BY <1>1, <1>3 DEF Sysexit, Shapes

LEMMA ExecSteps ==
  ASSUME Shapes, Running, InExec(regs, rip, rsp), Step
  PROVE  Proceeds /\ asked' = asked /\ saved' = <<>>
<1>1. /\ asked = <<>> /\ tss = "task1" /\ saved = <<>> /\ "task1" \in Stacks
      /\ ExecFields \subseteq Registers /\ {"rax", "rdx", "rcx"} \subseteq ExecFields
      /\ rip[1] = "ret_system_call"
      /\ Leaving(regs, rip, rsp, "task1", ExecRegs, ExecFields)
  BY Fields DEF InExec, Running, Stacks, ExecFields, Leaving
<1>2. CASE rip # <<"ret_system_call", 22>>
  <2>1. /\ Shapes' /\ Plain /\ Leaving(regs, rip, rsp, "task1", ExecRegs, ExecFields)'
        /\ Above("task1", 1) /\ rip'[1] = "ret_system_call"
    BY <1>1, <1>2, LeavingStep
  <2>2. InExec(regs, rip, rsp)' /\ saved' = <<>>
    BY <1>1, <2>1 DEF InExec, Plain
  <2>3. KeepsTask0
    BY <1>1, <2>1, Keeping
  <2>4. Running'
    <3>1. rip'[1] \notin {User, "system_call"} /\ rip # <<"system_call", 1>> /\ rip[1] # User
      BY <1>1, <2>1 DEF User
    <3>2. QED
      BY <2>1, <2>2, <3>1, Proceeding DEF Plain
  <2>5. QED
    BY <2>1, <2>2, <2>3, <2>4 DEF Proceeds, Plain
<1>3. CASE rip = <<"ret_system_call", 22>>
  <2>1. /\ Shapes' /\ \A r \in ExecFields : regs[r] = ExecRegs[r]
        /\ regs' = regs /\ mem' = mem /\ rip' = ExecRegs["rdx"] /\ rsp' = ExecRegs["rcx"]
        /\ cs' = USER_CS /\ asked' = <<>> /\ iflag' = iflag /\ tss' = tss
        /\ saved' = saved
    BY <1>1, <1>3, LeavingEnds
  <2>2. /\ ExecRegs["rdx"] = <<User, 1>> /\ ExecRegs["rcx"] = UserStack
        /\ ExecRegs["rax"] = Num(0) /\ ExecRegs["ds"] = Num(0) /\ ExecRegs["es"] = Num(0)
    BY Fields DEF ExecRegs, UserFrame
  <2>3. regs["ds"] = Num(0) /\ regs["es"] = Num(0) /\ regs["rax"] = Num(0)
    BY <2>1, <2>2 DEF ExecFields
  <2>4. InUser(regs, rip, rsp)'
    BY <1>1, <2>1, <2>2, <2>3 DEF InUser
  <2>5. iflag = TRUE
    <3>1. iflag = (rip # <<"system_call", 1>>)
      BY DEF Running
    <3>2. QED
      BY <1>3, <3>1
  <2>6. rip' = <<User, 1>> /\ rip' # <<"system_call", 1>> /\ rip'[1] = User
    BY <2>1, <2>2 DEF User
  <2>7. Base(regs, cs, rip, rsp)'
    BY <2>1, <2>4, <2>6 DEF Base
  <2>8. Running'
    BY <1>1, <2>1, <2>5, <2>6, <2>7 DEF Running
  <2>9. QED
    BY <1>1, <2>1, <2>8 DEF Proceeds, KeepsTask0
<1>4. QED
  BY <1>2, <1>3

\* do_execve writes its five fields into the frame and returns 0.
LEMMA ExecWrites ==
  ASSUME Shapes, do_execve, rsp = <<"task1", 25>>, regs["rdi"] = <<"task1", 24>>
  PROVE  /\ mem' \in [Stacks -> [1 .. Depth -> Words]] /\ Above("task1", 1)
         /\ Holds("task1", 0, ExecRegs, ExecFields \ {"rax"}, 24)'
<1> DEFINE written == {"rdx", "rcx", "rax", "ds", "es"}
           slot(f) == 24 - (Field(f) - 1)
           pick(n) == CHOOSE f \in written : n = slot(f)
           row == [n \in 1 .. Depth |-> IF n = 25 THEN Junk
                     ELSE IF \E f \in written : n = slot(f) THEN UserFrame(pick(n))
                     ELSE mem["task1"][n]]
<1>1. "task1" \in Stacks /\ written \subseteq Registers /\ Depth \in Nat /\ 25 <= Depth
      /\ Junk \in Words
  BY Fields, BoundsAssumption, WordFacts DEF Stacks
<1>2. mem' = [mem EXCEPT !["task1"] = row] /\ mem \in [Stacks -> [1 .. Depth -> Words]]
  BY <1>1 DEF do_execve, Shapes
<1>3. \A f \in written : /\ UserFrame(f) \in Words
                         /\ f # "rax" => UserFrame(f) = ExecRegs[f]
  <2>1. <<User, 1>> \in Words /\ UserStack \in Words /\ Num(1) \in Words /\ Num(0) \in Words
    BY WordFacts
  <2>2. QED
    BY <1>1, <2>1 DEF UserFrame, ExecRegs
<1>4. \A f \in written : slot(f) = 25 - Field(f) /\ Field(f) \in 1 .. 17 /\ pt_regs[Field(f)] = f
  BY <1>1, FieldPlace
<1>5. ASSUME NEW n, \E f \in written : n = slot(f)
      PROVE  pick(n) \in written /\ n = slot(pick(n))
  BY <1>5
<1> HIDE DEF slot, pick
<1>6. row \in [1 .. Depth -> Words]
  <2>1. \A n \in 1 .. Depth : mem["task1"][n] \in Words
    BY <1>1, <1>2
  <2>2. QED
    BY <1>1, <1>3, <1>5, <2>1
<1>7. ASSUME NEW k \in 8 .. 24, pt_regs[25 - k] \in ExecFields \ {"rax"}
      PROVE  row[k] = ExecRegs[pt_regs[25 - k]]
  <2>1. PICK f : f = pt_regs[25 - k]
    OBVIOUS
  <2>2. f \in written /\ f # "rax"
    BY <1>7, <2>1 DEF ExecFields
  <2>3. 25 - k \in 1 .. 24 /\ k # 25 /\ k \in 1 .. Depth
    BY <1>1
  <2>4. Field(f) = 25 - k
    BY <2>1, <2>3, FieldPlace
  <2>5. k = slot(f)
    BY <1>4, <2>2, <2>4
  <2>6. pick(k) \in written /\ k = slot(pick(k))
    BY <1>5, <2>2, <2>5
  <2>7. Field(pick(k)) = 25 - k
    BY <1>4, <2>6
  <2>8. pick(k) = f
    BY <1>4, <2>2, <2>4, <2>6, <2>7
  <2>9. row[k] = UserFrame(pick(k))
    BY <2>2, <2>3, <2>5
  <2>10. QED
    BY <1>3, <2>1, <2>2, <2>8, <2>9
<1> HIDE DEF row
<1>8. mem' \in [Stacks -> [1 .. Depth -> Words]] /\ Above("task1", 1) /\ mem'["task1"] = row
  BY <1>1, <1>2, <1>6 DEF Above
<1>9. Holds("task1", 0, ExecRegs, ExecFields \ {"rax"}, 24)'
  <2>1. SUFFICES ASSUME NEW k \in 8 .. 24, pt_regs[25 - k] \in ExecFields \ {"rax"}
                 PROVE  mem'["task1"][0 + k] = ExecRegs[pt_regs[25 - k]]
    BY DEF Holds
  <2>2. 0 + k = k
    OBVIOUS
  <2>3. QED
    BY <1>7, <1>8, <2>1, <2>2
<1>10. QED
  BY <1>8, <1>9

\* init puts the return address of do_execve on its stack.
LEMMA InitCalls ==
  ASSUME Shapes, init
  PROVE  /\ mem' \in [Stacks -> [1 .. Depth -> Words]] /\ Above("task1", 1)
         /\ mem'["task1"][25] = <<"ret_system_call", 1>> /\ rsp' = <<"task1", 25>>
         /\ regs' \in [Registers -> Words] /\ regs'["rdi"] = <<"task1", 24>>
         /\ rip' = <<"do_execve", 1>> /\ Plain
<1> DEFINE row == [n \in 1 .. Depth |-> IF n = 25 THEN <<"ret_system_call", 1>> ELSE Junk]
<1>1. Frame + 1 = 25 /\ Frame = 24
  BY FieldPlace DEF Frame
<1>2. /\ "task1" \in Stacks /\ Depth \in Nat /\ 25 \in 1 .. Depth /\ Junk \in Words
      /\ <<"ret_system_call", 1>> \in Words /\ <<"task1", 24>> \in Words /\ "rdi" \in Registers
  BY BoundsAssumption, WordFacts, Fields DEF Stacks, Assembly
<1>3. /\ mem' = [mem EXCEPT !["task1"] = row] /\ rsp' = <<"task1", 25>>
      /\ regs' = [Clobbered(Junk) EXCEPT !["rdi"] = <<"task1", 24>>]
      /\ rip' = <<"do_execve", 1>> /\ Plain
  BY <1>1 DEF init, Plain, ghosts
<1>4. row \in [1 .. Depth -> Words] /\ row[25] = <<"ret_system_call", 1>>
  BY <1>2
<1> HIDE DEF row
<1>5. /\ mem' \in [Stacks -> [1 .. Depth -> Words]] /\ Above("task1", 1)
      /\ mem'["task1"] = row
  BY <1>2, <1>3, <1>4 DEF Shapes, Above
<1>6. regs' \in [Registers -> Words] /\ regs'["rdi"] = <<"task1", 24>>
  <2>1. Clobbered(Junk) \in [Registers -> Words]
    BY <1>2, Clobbers
  <2>2. QED
    BY <1>2, <1>3, <2>1
<1>7. QED
  BY <1>3, <1>4, <1>5, <1>6

LEMMA ThreadSteps ==
  ASSUME Shapes, Running, InThread(regs, rip, rsp), Step
  PROVE  Proceeds /\ asked' = asked /\ saved' = <<>>
<1>1. /\ asked = <<>> /\ tss = "task1" /\ saved = <<>> /\ "task1" \in Stacks
      /\ {"rax", "rdx", "rdi", "rbx"} \subseteq Registers
  BY Fields DEF InThread, Running, Stacks
<1>2. Depth \in Nat /\ 60 <= Depth /\ 0 + 24 <= Depth
  BY BoundsAssumption
<1>3. ThreadRegs["rbx"] = <<"init", 1>> /\ ThreadRegs["rdx"] = Arg
  BY <1>1 DEF ThreadRegs, ThreadFrame
<1>4. ASSUME Shapes', Plain, NEW lo \in Nat, Above("task1", lo), rip[1] \notin {User, "system_call"},
             rip'[1] \notin {User, "system_call"}, InThread(regs, rip, rsp)' \/ InExec(regs, rip, rsp)'
      PROVE  Proceeds /\ asked' = asked /\ saved' = <<>>
  <2>1. KeepsTask0
    BY <1>1, <1>4, Keeping
  <2>2. Running'
    BY <1>4, Proceeding DEF Plain
  <2>3. QED
    BY <1>1, <1>4, <2>1, <2>2 DEF Proceeds, Plain
<1>5. asked = <<>> /\ Plain => asked' = <<>> /\ tss' = "task1"
  BY <1>1 DEF Plain
<1>6. CASE \E j \in 1 .. 20 : /\ rip = <<"kernel_thread_func", j>>
                              /\ Popping(j, "task1", 0, ThreadRegs, {"rbx", "rdx"}, regs, rsp)
  <2>1. PICK j \in 1 .. 20 : /\ rip = <<"kernel_thread_func", j>>
                            /\ Popping(j, "task1", 0, ThreadRegs, {"rbx", "rdx"}, regs, rsp)
    BY <1>6
  <2>2. CASE j # 20
    <3>1. j \in 1 .. 19 /\ j + 1 \in 1 .. 20 /\ 0 \in Nat
      BY <2>2
    <3>2. Does(PopInstr(j))
      BY <2>1, <3>1, Fetch, ExitListing DEF Does
    <3>3. /\ Shapes' /\ Plain /\ rip' = <<rip[1], rip[2] + 1>> /\ Above("task1", 0 + 8)
          /\ Popping(j + 1, "task1", 0, ThreadRegs, {"rbx", "rdx"}, regs, rsp)'
      BY <1>1, <1>2, <2>1, <3>1, <3>2, PopStep
    <3>4. rip' = <<"kernel_thread_func", j + 1>>
      BY <2>1, <3>3
    <3>5. InThread(regs, rip, rsp)'
      BY <1>1, <1>5, <3>1, <3>3, <3>4 DEF InThread
    <3>6. QED
      BY <1>4, <2>1, <3>3, <3>4, <3>5 DEF User
  <2>3. CASE j = 20
    <3>1. rip = <<"kernel_thread_func", 20>> /\ rsp = <<"task1", 7>>
      BY <2>1, <2>3 DEF Popping, PopHeight
    <3>2. regs["rbx"] = <<"init", 1>> /\ regs["rdx"] = Arg
      <4>1. 9 \in 1 .. 14 /\ 11 \in 1 .. 14 /\ 9 < 20 /\ 11 < 20
        OBVIOUS
      <4>2. pt_regs[9] = "rbx" /\ pt_regs[11] = "rdx"
        BY Fields
      <4>3. regs["rbx"] = ThreadRegs["rbx"] /\ regs["rdx"] = ThreadRegs["rdx"]
        BY <2>1, <2>3, <4>1, <4>2 DEF Popping
      <4>4. QED
        BY <1>3, <4>3
    <3>3. Does(<<"add_rsp", 7>>)
      BY <3>1, Fetch, ExitListing DEF Does
    <3>4. 7 \in Nat /\ 7 <= 7 /\ 7 <= Depth /\ 7 - 7 = 0 /\ 0 + 1 = 1
      BY <1>2
    <3>5. /\ Shapes' /\ Plain /\ rip' = <<rip[1], rip[2] + 1>> /\ regs' = regs
          /\ rsp' = <<"task1", 0>> /\ Above("task1", 1)
      BY <1>1, <3>1, <3>3, <3>4, DoesAdd
    <3>6. rip' = <<"kernel_thread_func", 21>>
      BY <3>1, <3>5
    <3>7. InThread(regs, rip, rsp)'
      BY <1>1, <1>5, <3>2, <3>5, <3>6 DEF InThread
    <3>8. QED
      BY <1>4, <3>1, <3>5, <3>6, <3>7 DEF User
  <2>4. QED
    BY <2>2, <2>3
<1>7. CASE /\ rip = <<"kernel_thread_func", 21>> /\ rsp = <<"task1", 0>>
           /\ regs["rbx"] = <<"init", 1>> /\ regs["rdx"] = Arg
  <2>1. Does(<<"mov", "rdx", "rdi">>)
    BY <1>7, Fetch, ExitListing DEF Does
  <2>2. /\ Shapes' /\ Plain /\ rip' = <<rip[1], rip[2] + 1>>
        /\ regs' = [regs EXCEPT !["rdi"] = regs["rdx"]] /\ rsp' = rsp /\ mem' = mem
    BY <1>1, <2>1, DoesMov
  <2>3. rip' = <<"kernel_thread_func", 22>> /\ regs'["rbx"] = <<"init", 1>> /\ regs'["rdi"] = Arg
    BY <1>1, <1>7, <2>2 DEF Shapes
  <2>4. InThread(regs, rip, rsp)'
    BY <1>1, <1>5, <1>7, <2>2, <2>3 DEF InThread
  <2>5. Above("task1", 1) /\ 1 \in Nat
    BY <2>2 DEF Above
  <2>6. QED
    BY <1>4, <1>7, <2>2, <2>3, <2>4, <2>5 DEF User
<1>8. CASE /\ rip = <<"kernel_thread_func", 22>> /\ rsp = <<"task1", 0>>
           /\ regs["rbx"] = <<"init", 1>> /\ regs["rdi"] = Arg
  <2>1. Does(<<"call_rbx">>)
    BY <1>8, Fetch, ExitListing DEF Does
  <2>2. PICK f : f = <<"init", 1>>
    OBVIOUS
  <2>3. PICK x : x = <<"call_rbx">>
    OBVIOUS
  <2>4. <<rip[1], rip[2] + 1>> = <<"kernel_thread_func", 23>>
        /\ <<"kernel_thread_func", 23>> \in Words
    BY <1>8, WordFacts DEF Assembly
  <2>5. 0 \in Nat /\ 0 < Depth
    BY <1>2
  <2>6. /\ Shapes' /\ Plain /\ rip' = f /\ regs' = regs /\ rsp' = <<"task1", 0 + 1>>
        /\ Above("task1", 0 + 1)
    <3>1. f = <<f[1], f[2]>> /\ regs["rbx"] = f /\ Does(x)
      BY <1>8, <2>1, <2>2, <2>3
    <3>2. QED
      BY <1>1, <1>8, <2>3, <2>4, <2>5, <3>1, DoesCall
  <2>7. InThread(regs, rip, rsp)'
    BY <1>1, <1>5, <1>8, <2>2, <2>6 DEF InThread
  <2>8. QED
    BY <1>4, <1>8, <2>2, <2>6, <2>7 DEF User
<1>9. CASE rip = <<"init", 1>>
  <2>1. init
    BY <1>9, DispatchC DEF In
  <2>2. /\ mem' \in [Stacks -> [1 .. Depth -> Words]] /\ Above("task1", 1)
        /\ mem'["task1"][25] = <<"ret_system_call", 1>> /\ rsp' = <<"task1", 25>>
        /\ regs' \in [Registers -> Words] /\ regs'["rdi"] = <<"task1", 24>>
        /\ rip' = <<"do_execve", 1>> /\ Plain
    BY <2>1, InitCalls
  <2>3. Shapes'
    BY <2>2 DEF Shapes, Plain
  <2>4. InThread(regs, rip, rsp)'
    BY <1>1, <1>5, <2>2 DEF InThread
  <2>5. QED
    BY <1>4, <1>9, <2>2, <2>3, <2>4 DEF User
<1>10. CASE /\ rip = <<"do_execve", 1>> /\ rsp = <<"task1", 25>> /\ regs["rdi"] = <<"task1", 24>>
            /\ mem["task1"][25] = <<"ret_system_call", 1>>
  <2>1. do_execve
    BY <1>10, DispatchC DEF In
  <2>2. /\ mem' \in [Stacks -> [1 .. Depth -> Words]] /\ Above("task1", 1)
        /\ Holds("task1", 0, ExecRegs, ExecFields \ {"rax"}, 24)'
    BY <1>10, <2>1, ExecWrites
  <2>3. /\ regs' = Clobbered(Num(0)) /\ rsp' = <<"task1", 24>> /\ Plain
        /\ rip' = <<"ret_system_call", 1>>
    BY <1>10, <2>1 DEF do_execve, Return, Stack, Plain, ghosts
  <2>4. regs' \in [Registers -> Words] /\ regs'["rax"] = ExecRegs["rax"]
    <3>1. ExecRegs["rax"] = Num(0) /\ Num(0) \in Words
      BY <1>1, WordFacts DEF ExecRegs
    <3> HIDE DEF Num
    <3>2. QED
      BY <2>3, <3>1, Clobbers
  <2>5. Shapes'
    BY <2>2, <2>3, <2>4 DEF Shapes, Plain
  <2>6. InExec(regs, rip, rsp)'
    BY <1>1, <1>5, <2>2, <2>3, <2>4 DEF InExec, Leaving
  <2>7. QED
    BY <1>4, <1>10, <2>2, <2>3, <2>5, <2>6 DEF User
<1>11. QED
  BY <1>6, <1>7, <1>8, <1>9, <1>10 DEF InThread

\* The user program: up to sysenter, and sysenter.
LEMMA UserSteps ==
  ASSUME Shapes, Running, InUser(regs, rip, rsp), Step
  PROVE  Proceeds /\ saved' = <<>>
<1>1. asked = <<>> /\ tss = "task1" /\ saved = <<>> /\ rsp = UserStack
  BY DEF InUser, Running
<1>2. rip[1] = User /\ rip # <<"system_call", 1>>
  BY DEF InUser, UserReturn, User
<1>3. iflag = TRUE
  <2>1. iflag = (rip # <<"system_call", 1>>)
    BY DEF Running
  <2>2. QED
    BY <1>2, <2>1
<1>4. Sysenter \/ \E nr \in Calls : UserPrepares(nr)
  BY <1>2, DispatchUser
<1>5. ASSUME NEW nr \in Calls, UserPrepares(nr) PROVE Proceeds /\ saved' = <<>>
  <2>1. /\ rip' = <<User, 2>> /\ cs' = cs /\ cs = USER_CS /\ iflag' = iflag /\ rsp' = rsp
        /\ tss' = tss /\ mem' = mem /\ printed' = printed /\ saved' = saved /\ asked' = asked
    BY <1>5 DEF UserPrepares, ghosts
  <2>2. regs' \in [Registers -> Words] /\ regs'["rdx"] = UserReturn /\ regs'["rcx"] = UserStack
    <3>1. /\ nr \in Nat /\ Num(nr) \in Words /\ Str \in Words /\ UserReturn \in Words
          /\ UserStack \in Words /\ \A r \in Registers : <<r, 1>> \in Words /\ regs[r] \in Words
      <4>1. nr \in Nat
        BY BoundsAssumption
      <4>2. QED
        BY <4>1, WordFacts DEF UserReturn, Shapes
    <3>2. "rdx" \in Registers /\ "rcx" \in Registers
      BY Fields
    <3>3. regs' = [r \in Registers |->
               CASE r = "rax" -> Num(nr)
                 [] r = "rdi" -> Str
                 [] r = "rdx" -> UserReturn
                 [] r = "rcx" -> UserStack
                 [] r \in Segments -> regs[r]
                 [] OTHER -> <<r, 1>>]
      BY <1>1, <1>5 DEF UserPrepares
    <3> HIDE DEF Num, Str, UserReturn, UserStack
    <3>4. regs' \in [Registers -> Words]
      BY <3>1, <3>3
    <3>5. QED
      BY <3>2, <3>3, <3>4 DEF Segments
  <2>3. Shapes' /\ KeepsTask0
    BY <2>1, <2>2 DEF Shapes, KeepsTask0
  <2>4. InUser(regs, rip, rsp)'
    BY <1>1, <2>1, <2>2 DEF InUser
  <2>5. rip'[1] = User /\ rip' # <<"system_call", 1>>
    BY <2>1 DEF User
  <2>6. Base(regs, cs, rip, rsp)'
    BY <2>1, <2>4, <2>5 DEF Base
  <2>7. QED
    BY <1>1, <1>3, <2>1, <2>3, <2>5, <2>6 DEF Running, Proceeds
<1>6. ASSUME Sysenter PROVE Proceeds /\ saved' = <<>>
  <2>1. /\ rip = <<User, 2>> /\ rip' = <<"system_call", 1>> /\ rsp' = <<"task0", 0>>
        /\ cs' = KERNEL_CS /\ iflag' = FALSE /\ asked' = <<regs>> /\ regs' = regs /\ tss' = tss
        /\ mem' = mem /\ printed' = printed /\ saved' = saved
    BY <1>6 DEF Sysenter
  <2>2. regs["rdx"] = UserReturn /\ regs["rcx"] = UserStack
    BY <2>1 DEF InUser, UserReturn
  <2>3. asked' # <<>> /\ asked'[1] = regs
    BY <2>1
  <2>4. Shapes' /\ KeepsTask0
    BY <2>1, <2>3 DEF Shapes, KeepsTask0
  <2>5. InCall(regs, rip, rsp)'
    BY <1>1, <2>1, <2>2, <2>3 DEF InCall
  <2>6. rip'[1] # User
    BY <2>1 DEF User
  <2>7. Base(regs, cs, rip, rsp)'
    BY <2>1, <2>5, <2>6 DEF Base
  <2>8. QED
    BY <1>1, <2>1, <2>4, <2>7 DEF Running, Proceeds
<1>7. QED
  BY <1>4, <1>5, <1>6

\* A frame that holds the registers, read through a pointer to it.
LEMMA FrameReads ==
  ASSUME NEW s \in Stacks, NEW b \in Nat, NEW E, Holds(s, b, E, Registers, 24),
         NEW p, p = <<s, b + 24>>, NEW r \in Registers
  PROVE  FieldAt(p, r) = E[r]
<1>1. PICK i \in 1 .. 17 : i = Field(r) /\ pt_regs[i] = r
  BY FieldPlace
<1>2. PICK k : k = 25 - i
  OBVIOUS
<1>3. k \in 8 .. 24 /\ 25 - k = i /\ b + 24 - (i - 1) = b + k
  BY <1>2
<1>4. mem[s][b + k] = E[r]
  BY <1>1, <1>3 DEF Holds
<1>5. p[1] = s /\ p[2] = b + 24
  OBVIOUS
<1>6. QED
  BY <1>1, <1>3, <1>4, <1>5 DEF FieldAt

\* what the user gets back from a system call
Returned ==
  asked' = <<>> => regs' = Answered /\ rip' = UserReturn /\ rsp' = UserStack /\ iflag' = TRUE

LEMMA CallSteps ==
  ASSUME Shapes, Running, InCall(regs, rip, rsp), Step
  PROVE  Proceeds /\ Returned /\ saved' = <<>>
<1>1. /\ asked # <<>> /\ tss = "task1" /\ saved = <<>> /\ "task0" \in Stacks
      /\ asked[1]["rdx"] = UserReturn /\ asked[1]["rcx"] = UserStack
      /\ {"rax", "rdx", "rcx", "rdi"} \subseteq Registers
  BY Fields DEF InCall, Running, Stacks
<1>2. PICK E : E = asked[1]
  OBVIOUS
<1>3. E \in [Registers -> Words]
  BY <1>1, <1>2 DEF Shapes
<1>4. Depth \in Nat /\ 60 <= Depth /\ 0 + 24 <= Depth
  BY BoundsAssumption
<1>5. KeepsTask0
  BY <1>1 DEF KeepsTask0
<1>6. ASSUME asked' = asked, tss' = tss
      PROVE  /\ asked' # <<>> /\ tss' = "task1" /\ Answer' = Answer /\ Answered' = Answered
             /\ asked'[1] = E /\ E["rdx"] = UserReturn /\ E["rcx"] = UserStack
  BY <1>1, <1>2, <1>6 DEF Answer, Answered
<1>7. ASSUME Shapes', Plain, rip[1] # User, rip # <<"system_call", 1>>,
             rip'[1] # User, rip' # <<"system_call", 1>>, InCall(regs, rip, rsp)'
      PROVE  Proceeds /\ Returned /\ saved' = <<>>
  <2>1. saved = <<>> /\ iflag = (rip # <<"system_call", 1>>) /\ Base(regs, cs, rip, rsp)
    BY DEF Running
  <2>2. iflag = TRUE /\ cs = KERNEL_CS
    BY <1>7, <2>1 DEF Base
  <2>3. cs' = KERNEL_CS /\ iflag' = TRUE /\ saved' = <<>> /\ asked' # <<>>
    BY <1>1, <1>7, <2>2 DEF Plain
  <2>4. Base(regs, cs, rip, rsp)'
    BY <1>7, <2>3 DEF Base
  <2>5. QED
    BY <1>5, <1>7, <2>3, <2>4 DEF Running, Proceeds, Returned
<1>8. CASE rip = <<"system_call", 1>> /\ rsp = <<"task0", 0>> /\ regs = asked[1]
  <2>1. Does(<<"sti_sub_rsp", 7>>)
    BY <1>8, Fetch, CallListing DEF Does
  <2>2. StiSubRsp
    BY <2>1, Dispatch DEF Does
  <2>3. /\ iflag' = TRUE /\ rsp' = <<"task0", 7>> /\ rip' = <<"system_call", 2>> /\ regs' = regs
        /\ cs' = cs /\ tss' = tss /\ mem' = mem /\ printed' = printed /\ saved' = saved
        /\ asked' = asked
    <3>1. Instr[2] = 7 /\ rsp[2] + 7 = 7 /\ rip[2] + 1 = 2
      BY <1>8, <2>1 DEF Does
    <3>2. QED
      BY <1>8, <2>2, <3>1 DEF StiSubRsp, Advance, ghosts
  <2>4. Shapes'
    BY <2>3 DEF Shapes
  <2>5. InCall(regs, rip, rsp)'
    BY <1>1, <1>8, <2>3 DEF InCall
  <2>6. cs = KERNEL_CS /\ rip'[1] # User /\ rip' # <<"system_call", 1>>
    BY <1>8, <2>3 DEF Running, Base, User
  <2>7. Base(regs, cs, rip, rsp)'
    BY <2>3, <2>5, <2>6 DEF Base
  <2>8. QED
    BY <1>1, <1>5, <2>3, <2>4, <2>6, <2>7 DEF Running, Proceeds, Returned
<1>9. CASE rip = <<"system_call", 2>> /\ rsp = <<"task0", 7>> /\ regs = asked[1]
  <2>1. Does(<<"push", "rax">>)
    BY <1>9, Fetch, CallListing DEF Does
  <2>2. 7 \in Nat /\ 7 < Depth /\ 7 + 1 = 8
    BY <1>4
  <2>3. /\ Shapes' /\ Plain /\ rip' = <<rip[1], rip[2] + 1>> /\ regs' = regs
        /\ rsp' = <<"task0", 8>> /\ mem'["task0"][8] = regs["rax"]
    BY <1>1, <1>9, <2>1, <2>2, DoesPush
  <2>4. rip' = <<"system_call", 1 + 2>>
    BY <1>9, <2>3
  <2>5. Holds("task0", 0, E, Registers, 8)'
    BY <1>2, <1>9, <2>3, Fields DEF Holds
  <2>6. Saving(1, "task0", 0, E, regs, rsp)'
    BY <1>2, <1>9, <2>3, <2>5, Fields DEF Saving, SaveHeight
  <2>7. /\ asked' # <<>> /\ tss' = "task1"
        /\ asked'[1] = E /\ E["rdx"] = UserReturn /\ E["rcx"] = UserStack
    BY <1>6, <2>3 DEF Plain
  <2>8. Saving(1, "task0", 0, asked[1], regs, rsp)'
    BY <2>6, <2>7 DEF Saving, Holds
  <2>9. \E j \in 1 .. 24 : /\ rip' = <<"system_call", j + 2>>
                           /\ Saving(j, "task0", 0, asked[1], regs, rsp)'
    BY <2>4, <2>8
  <2>10. InCall(regs, rip, rsp)'
    BY <2>7, <2>9 DEF InCall
  <2>11. QED
    BY <1>7, <1>9, <2>3, <2>4, <2>10 DEF User
<1>10. CASE \E j \in 1 .. 24 : /\ rip = <<"system_call", j + 2>>
                               /\ Saving(j, "task0", 0, asked[1], regs, rsp)
  <2>1. PICK j \in 1 .. 24 : /\ rip = <<"system_call", j + 2>>
                            /\ Saving(j, "task0", 0, E, regs, rsp)
    BY <1>2, <1>10
  <2>2. CASE j # 24
    <3>1. j \in 1 .. 23 /\ j + 1 \in 1 .. 24 /\ 0 \in Nat /\ j + 2 # 1 /\ j + 2 + 1 = j + 1 + 2
          /\ j + 1 + 2 # 1
      BY <2>2
    <3>2. Does(SaveInstr(j))
      BY <2>1, <3>1, Fetch, CallListing DEF Does
    <3>3. /\ Shapes' /\ Plain /\ rip' = <<rip[1], rip[2] + 1>>
          /\ Saving(j + 1, "task0", 0, E, regs, rsp)'
      BY <1>1, <1>4, <2>1, <3>1, <3>2, SaveStep
    <3>4. rip' = <<"system_call", j + 1 + 2>>
      BY <2>1, <3>1, <3>3
    <3>5. /\ asked' # <<>> /\ tss' = "task1"
          /\ asked'[1] = E /\ E["rdx"] = UserReturn /\ E["rcx"] = UserStack
      BY <1>6, <3>3 DEF Plain
    <3>6. Saving(j + 1, "task0", 0, asked[1], regs, rsp)'
      BY <3>3, <3>5 DEF Saving, Holds
    <3>7. InCall(regs, rip, rsp)'
      BY <3>1, <3>4, <3>5, <3>6 DEF InCall
    <3>8. QED
      BY <1>7, <2>1, <3>1, <3>3, <3>4, <3>7 DEF User
  <2>3. CASE j = 24
    <3>1. /\ rip = <<"system_call", 26>> /\ rsp = <<"task0", 24>>
          /\ Holds("task0", 0, E, Registers, 24) /\ regs["rdi"] = <<"task0", 24>>
      BY <2>1, <2>3 DEF Saving, SaveHeight
    <3>2. Does(<<"call", "system_call_function">>)
      BY <3>1, Fetch, CallListing DEF Does
    <3>3. PICK x, f : x = <<"call", "system_call_function">> /\ f = <<"system_call_function", 1>>
      OBVIOUS
    <3>4. <<rip[1], rip[2] + 1>> = <<"system_call", 27>> /\ <<"system_call", 27>> \in Words
      BY <3>1, WordFacts DEF Assembly
    <3>5. 24 \in Nat /\ 24 < Depth /\ 24 + 1 = 25
      BY <1>4
    <3>6. /\ Shapes' /\ Plain /\ rip' = f /\ regs' = regs /\ rsp' = <<"task0", 25>>
          /\ mem'["task0"][25] = <<"system_call", 27>> /\ Above("task0", 25)
      <4>1. f = <<f[1], f[2]>> /\ x = <<"call", f[1]>> /\ f[2] = 1 /\ Does(x)
        BY <3>2, <3>3
      <4>2. QED
        BY <1>1, <3>1, <3>4, <3>5, <4>1, DoesCall
    <3>7. Holds("task0", 0, E, Registers, 24)'
      <4>1. 0 + 24 < 25 /\ 24 <= 24 /\ 25 \in Nat /\ 0 \in Nat
        OBVIOUS
      <4>2. QED
        BY <1>1, <1>4, <3>1, <3>5, <3>6, <4>1, HoldsKept
    <3>8. /\ asked' # <<>> /\ tss' = "task1"
          /\ asked'[1] = E /\ E["rdx"] = UserReturn /\ E["rcx"] = UserStack
      BY <1>6, <3>6 DEF Plain
    <3>9. Holds("task0", 0, asked[1], Registers, 24)'
      BY <3>7, <3>8 DEF Holds
    <3>10. InCall(regs, rip, rsp)'
      BY <3>1, <3>3, <3>6, <3>8, <3>9 DEF InCall
    <3>11. QED
      BY <1>7, <3>1, <3>3, <3>6, <3>10 DEF User
  <2>4. QED
    BY <2>2, <2>3
<1>11. CASE /\ rip = <<"system_call_function", 1>> /\ rsp = <<"task0", 25>>
            /\ regs["rdi"] = <<"task0", 24>> /\ mem["task0"][25] = <<"system_call", 27>>
            /\ Holds("task0", 0, asked[1], Registers, 24)
  <2>1. system_call_function
    BY <1>11, DispatchC DEF In
  <2>2. \A r \in Registers : FieldAt(regs["rdi"], r) = E[r]
    <3>1. PICK p : p = regs["rdi"]
      OBVIOUS
    <3>2. p = <<"task0", 0 + 24>> /\ 0 \in Nat /\ Holds("task0", 0, E, Registers, 24)
      BY <1>2, <1>11, <3>1
    <3>3. QED
      BY <1>1, <3>1, <3>2, FrameReads
  <2>3. Answer = IF E["rax"] = Num(1) THEN Num(0) ELSE Word("-1")
    BY <1>2 DEF Answer
  <2>4. /\ regs' = Clobbered(Answer) /\ printed' \in Seq(Words)
    <3>1. CASE E["rax"] = Num(1)
      <4>1. printed' = Append(printed, E["rdi"]) /\ regs' = Clobbered(Num(0))
        BY <1>1, <2>1, <2>2, <3>1 DEF system_call_function
      <4>2. E["rdi"] \in Words
        BY <1>1, <1>3
      <4>3. QED
        BY <2>3, <3>1, <4>1, <4>2 DEF Shapes
    <3>2. CASE E["rax"] # Num(1)
      <4>1. printed' = printed /\ regs' = Clobbered(Word("-1"))
        BY <1>1, <2>1, <2>2, <3>2 DEF system_call_function
      <4>2. QED
        BY <2>3, <3>2, <4>1 DEF Shapes
    <3>3. QED
      BY <3>1, <3>2
  <2>5. /\ rip' = <<"system_call", 27>> /\ Drop(1) /\ cs' = cs /\ iflag' = iflag /\ tss' = tss
        /\ saved' = saved /\ asked' = asked
    BY <1>11, <2>1 DEF system_call_function, Return, Stack
  <2>6. /\ mem' \in [Stacks -> [1 .. Depth -> Words]] /\ rsp' = <<"task0", 24>>
        /\ Above("task0", 25)
    <3>1. 25 \in Nat /\ 1 \in Nat /\ 1 <= 25 /\ 25 <= Depth /\ 25 - 1 = 24 /\ 25 - 1 + 1 = 25
      BY <1>4
    <3>2. QED
      BY <1>1, <1>11, <2>5, <3>1, Dropped
  <2>7. regs' \in [Registers -> Words] /\ regs'["rax"] = Answer
    <3>1. Answer \in Words
      BY <2>3, WordFacts
    <3>2. QED
      BY <2>4, <3>1, Clobbers
  <2>8. Shapes'
    BY <2>4, <2>5, <2>6, <2>7 DEF Shapes
  <2>9. Holds("task0", 0, E, Registers, 24)'
    <3>1. 0 + 24 < 25 /\ 24 <= 24 /\ 25 \in Nat /\ 0 \in Nat /\ 24 \in Nat
          /\ Holds("task0", 0, E, Registers, 24)
      BY <1>2, <1>11
    <3>2. QED
      BY <1>1, <1>4, <2>6, <3>1, HoldsKept
  <2>10. /\ asked' # <<>> /\ tss' = "task1" /\ Answer' = Answer
         /\ asked'[1] = E /\ E["rdx"] = UserReturn /\ E["rcx"] = UserStack
    BY <1>6, <2>5
  <2>11. Holds("task0", 0, asked[1], Registers, 24)'
    BY <2>9, <2>10 DEF Holds
  <2>12. InCall(regs, rip, rsp)'
    BY <2>5, <2>6, <2>7, <2>10, <2>11 DEF InCall
  <2>13. saved = <<>> /\ cs = KERNEL_CS /\ iflag = TRUE
    <3>1. saved = <<>> /\ iflag = (rip # <<"system_call", 1>>) /\ Base(regs, cs, rip, rsp)
      BY DEF Running
    <3>2. QED
      BY <1>11, <3>1 DEF Base, User
  <2>14. Base(regs, cs, rip, rsp)' /\ rip' # <<"system_call", 1>>
    BY <2>5, <2>12, <2>13 DEF Base, User
  <2>15. QED
    BY <1>5, <2>5, <2>8, <2>10, <2>13, <2>14 DEF Running, Proceeds, Returned
<1>12. CASE /\ rip = <<"system_call", 27>> /\ rsp = <<"task0", 24>> /\ regs["rax"] = Answer
            /\ Holds("task0", 0, asked[1], Registers, 24)
  <2>1. Does(<<"jmp", "ret_system_call">>)
    BY <1>12, Fetch, CallListing DEF Does
  <2>2. /\ Shapes' /\ Plain /\ rip' = <<"ret_system_call", 1>> /\ regs' = regs /\ rsp' = rsp
        /\ mem' = mem
    BY <2>1, DoesJmp
  <2>3. /\ asked' # <<>> /\ tss' = "task1" /\ Answer' = Answer /\ Answered' = Answered
        /\ asked'[1] = E /\ E["rdx"] = UserReturn /\ E["rcx"] = UserStack
    BY <1>6, <2>2 DEF Plain
  <2>4. Answered["rax"] = Answer /\ \A r \in Registers \ {"rax"} : Answered[r] = E[r]
    BY <1>1, <1>2, <1>3 DEF Answered
  <2>5. Holds("task0", 0, Answered, Registers \ {"rax"}, 24)'
    BY <1>2, <1>12, <2>2, <2>3, <2>4 DEF Holds
  <2>6. Leaving(regs, rip, rsp, "task0", Answered, Registers)'
    BY <1>12, <2>2, <2>3, <2>4, <2>5 DEF Leaving
  <2>7. InCall(regs, rip, rsp)'
    BY <2>3, <2>6 DEF InCall
  <2>8. QED
    BY <1>7, <1>12, <2>2, <2>7 DEF User
<1>13. CASE Leaving(regs, rip, rsp, "task0", Answered, Registers)
  <2>1. PICK A : A = Answered
    OBVIOUS
  <2>2. Leaving(regs, rip, rsp, "task0", A, Registers) /\ rip[1] = "ret_system_call"
    BY <1>13, <2>1 DEF Leaving
  <2>3. A["rdx"] = UserReturn /\ A["rcx"] = UserStack /\ A \in [Registers -> Words]
    <3>1. Answer \in Words
      BY WordFacts DEF Answer
    <3>2. QED
      BY <1>1, <1>2, <1>3, <2>1, <3>1 DEF Answered
  <2>4. CASE rip # <<"ret_system_call", 22>>
    <3>1. /\ Shapes' /\ Plain /\ Leaving(regs, rip, rsp, "task0", A, Registers)'
          /\ rip'[1] = "ret_system_call"
      BY <1>1, <2>2, <2>4, LeavingStep
    <3>2. /\ asked' # <<>> /\ tss' = "task1" /\ Answered' = Answered
          /\ asked'[1] = E /\ E["rdx"] = UserReturn /\ E["rcx"] = UserStack
      BY <1>6, <3>1 DEF Plain
    <3>3. Leaving(regs, rip, rsp, "task0", Answered, Registers)'
      <4>1. Answered' = A
        BY <2>1, <3>2
      <4>2. ASSUME NEW D, NEW h, Holds("task0", 0, A, D, h)'
            PROVE  Holds("task0", 0, Answered, D, h)'
        BY <4>1, <4>2 DEF Holds
      <4>3. ASSUME NEW j \in 1 .. 20, Popping(j, "task0", 0, A, Registers, regs, rsp)'
            PROVE  Popping(j, "task0", 0, Answered, Registers, regs, rsp)'
        BY <4>1, <4>2, <4>3 DEF Popping
      <4>4. QED
        BY <3>1, <4>1, <4>2, <4>3 DEF Leaving
    <3>4. InCall(regs, rip, rsp)'
      BY <3>2, <3>3 DEF InCall
    <3>5. rip[1] # User /\ rip # <<"system_call", 1>> /\ rip'[1] # User /\ rip' # <<"system_call", 1>>
      BY <2>2, <3>1 DEF User
    <3>6. QED
      BY <1>7, <3>1, <3>4, <3>5
  <2>5. CASE rip = <<"ret_system_call", 22>>
    <3>1. /\ Shapes' /\ \A r \in Registers : regs[r] = A[r]
          /\ regs' = regs /\ mem' = mem /\ rip' = A["rdx"] /\ rsp' = A["rcx"]
          /\ cs' = USER_CS /\ asked' = <<>> /\ iflag' = iflag /\ tss' = tss
          /\ saved' = saved
      BY <1>1, <2>2, <2>5, LeavingEnds
    <3>2. regs' = Answered
      BY <2>1, <2>3, <3>1 DEF Shapes
    <3>3. iflag = TRUE
      <4>1. iflag = (rip # <<"system_call", 1>>)
        BY DEF Running
      <4>2. QED
        BY <2>5, <4>1
    <3>4. rip' = UserReturn /\ rsp' = UserStack /\ rip'[1] = User /\ rip' # <<"system_call", 1>>
      BY <2>3, <3>1 DEF UserReturn, User
    <3>5. InUser(regs, rip, rsp)'
      BY <1>1, <3>1, <3>4 DEF InUser
    <3>6. Base(regs, cs, rip, rsp)'
      BY <3>1, <3>4, <3>5 DEF Base
    <3>7. QED
      BY <1>1, <1>5, <3>1, <3>2, <3>3, <3>4, <3>6 DEF Running, Proceeds, Returned
  <2>6. QED
    BY <2>4, <2>5
<1>14. QED
  BY <1>8, <1>9, <1>10, <1>11, <1>12, <1>13 DEF InCall

-----------------------------------------------------------------------------
(* The invariant.                                                          *)

\* what the interrupted code gets back
Restored(c) ==
  /\ regs' = c.regs /\ cs' = c.cs /\ rip' = c.rip /\ rsp' = c.rsp
  /\ iflag' = TRUE /\ Live(mem', rsp') = c.live

LEMMA Stutters == ASSUME IInv, UNCHANGED vars PROVE IInv'
<1>1. /\ regs' = regs /\ cs' = cs /\ iflag' = iflag /\ rip' = rip /\ rsp' = rsp /\ tss' = tss
      /\ mem' = mem /\ printed' = printed /\ saved' = saved /\ asked' = asked
      /\ offset' = offset
  BY DEF vars
<1>2. Shapes'
  BY <1>1 DEF IInv, Shapes
<1>3. ASSUME NEW rg, NEW ring, NEW ip, NEW sp, Base(rg, ring, ip, sp)
      PROVE  Base(rg, ring, ip, sp)'
  <2>1. PICK s \in Stacks, lo \in Nat : ring = USER_CS \/ (s = sp[1] /\ sp[2] < lo)
    <3>1. CASE ring = USER_CS
      BY <3>1 DEF Stacks
    <3>2. CASE ring # USER_CS
      <4>1. PICK s \in Stacks, h \in 0 .. Context + 25 : sp = <<s, h>>
        BY <1>3, <3>2, BaseRoom DEF IInv
      <4>2. h + 1 \in Nat /\ h < h + 1
        BY BoundsAssumption
      <4>3. QED
        BY <4>1, <4>2
    <3>3. QED
      BY <3>1, <3>2
  <2>2. Above(s, lo)
    BY <1>1 DEF Above
  <2>3. QED
    BY <1>1, <1>3, <2>1, <2>2, BaseKept DEF IInv
<1>4. ASSUME Running PROVE Running'
  <2>1. PICK rg, ring, ip, sp : rg = regs /\ ring = cs /\ ip = rip /\ sp = rsp
    OBVIOUS
  <2>2. Base(rg, ring, ip, sp)'
    BY <1>3, <1>4, <2>1 DEF Running
  <2>3. Base(regs, cs, rip, rsp)'
    BY <1>1, <2>1, <2>2, Resumes
  <2>4. QED
    BY <1>1, <1>4, <2>3 DEF Running
<1>5. ASSUME Interrupted PROVE Interrupted'
  <2>1. PICK c : saved = <<c>> /\ Base(c.regs, c.cs, c.rip, c.rsp) /\ Overlay(c)
    BY <1>5 DEF Interrupted
  <2>2. Base(c.regs, c.cs, c.rip, c.rsp)'
    BY <1>3, <2>1
  <2>3. Overlay(c)'
    <3>1. PICK s, b : s = StackOf(c) /\ b = Below(c)
      OBVIOUS
    <3>2. StackOf(c)' = s /\ Below(c)' = b
      BY <1>1, <3>1 DEF StackOf, Below
    <3>3. Pushed(c, s, b)'
      BY <1>1, <2>1, <3>1 DEF Overlay, Pushed
    <3>4. \A j : Saving(j, s, b, c.regs, regs, rsp) => Saving(j, s, b, c.regs, regs, rsp)'
      BY <1>1 DEF Saving, Holds
    <3>5. \A j : Popping(j, s, b, c.regs, Registers, regs, rsp)
                 => Popping(j, s, b, c.regs, Registers, regs, rsp)'
      BY <1>1 DEF Popping, Holds
    <3>6. Holds(s, b, c.regs, Registers, 24) => Holds(s, b, c.regs, Registers, 24)'
      BY <1>1 DEF Holds
    <3>7. Handling(c, s, b)
      BY <2>1, <3>1 DEF Overlay
    <3>8. Handling(c, s, b)'
      BY <1>1, <3>4, <3>5, <3>6, <3>7 DEF Handling
    <3>9. QED
      BY <1>1, <2>1, <3>2, <3>3, <3>8 DEF Overlay
  <2>4. QED
    BY <1>1, <2>1, <2>2, <2>3 DEF Interrupted
<1>6. ASSUME Astray PROVE Astray'
  BY <1>1, <1>6 DEF Astray
<1>7. QED
  BY <1>1, <1>2, <1>4, <1>5, <1>6 DEF IInv

\* The task stays where it is.
LEMMA Placed == ASSUME Next PROVE offset' = offset
<1>1. CASE \/ Push \/ PushValue \/ Pop \/ Mov \/ StoreRax \/ AddRsp \/ StiSubRsp
           \/ SwitchRsp \/ Jmp \/ Call \/ StiIretq \/ Sysexit
  BY <1>1 DEF Push, PushValue, Pop, Mov, StoreRax, AddRsp, StiSubRsp, SwitchRsp, Jmp, Call,
              StiIretq, Sysexit, ghosts
<1>2. CASE \/ __switch_to \/ init \/ do_execve \/ system_call_function \/ do_IRQ
           \/ Sysenter \/ \E nr \in Calls : UserPrepares(nr)
  BY <1>2 DEF __switch_to, init, do_execve, system_call_function, do_IRQ, Sysenter,
              UserPrepares, ghosts
<1>3. CASE Interrupt \/ init_astray \/ Lost
  BY <1>3 DEF Interrupt, Enter, init_astray, Lost, ghosts, vars
<1>4. QED
  BY <1>1, <1>2, <1>3 DEF Next, Step

\* Nothing is known of what the machine does at Nowhere.
LEMMA NoStep == ASSUME Step, rip = Nowhere PROVE FALSE
<1>1. rip[1] = "lost" /\ "lost" \notin Assembly /\ "lost" # User
  BY DEF Nowhere, Assembly, User
<1>2. /\ ~Push /\ ~PushValue /\ ~Pop /\ ~Mov /\ ~StoreRax /\ ~AddRsp /\ ~StiSubRsp
      /\ ~SwitchRsp /\ ~Jmp /\ ~Call /\ ~StiIretq /\ ~Sysexit
  BY <1>1 DEF At, Push, PushValue, Pop, StoreRax, AddRsp, StiSubRsp, SwitchRsp, Jmp,
         StiIretq, Sysexit, Mov, Call
<1>3. \A f \in {"__switch_to", "init", "do_execve", "system_call_function", "do_IRQ"} : ~In(f)
  BY <1>1 DEF In
<1>4. ~__switch_to /\ ~init /\ ~do_execve /\ ~system_call_function /\ ~do_IRQ
  BY <1>3 DEF __switch_to, init, do_execve, system_call_function, do_IRQ
<1>5. ~Sysenter /\ \A nr \in Calls : ~UserPrepares(nr)
  BY <1>1 DEF Sysenter, UserPrepares
<1>6. QED
  BY <1>2, <1>4, <1>5 DEF Step

LEMMA Moves ==
  ASSUME IInv, Next
  PROVE  /\ IInv' /\ KeepsTask0
         /\ asked # <<>> => Returned
         /\ \A c : saved = <<c>> /\ saved' = <<>> => Restored(c)
<1>1. CASE Interrupted /\ ~Lost
  <2>1. PICK c : saved = <<c>> /\ Base(c.regs, c.cs, c.rip, c.rsp) /\ Overlay(c)
    BY <1>1 DEF Interrupted
  <2>2. ~Interrupt
    BY <2>1 DEF Overlay, Interrupt, Enter
  <2>3. ~init_astray
    <3>1. PICK s, b : s = StackOf(c) /\ b = Below(c)
      OBVIOUS
    <3>2. b \in Nat /\ Handling(c, s, b)
      BY <2>1, <3>1, Room DEF IInv, Overlay
    <3>3. rip[1] # "init"
      BY <3>2, HandlingInCode
    <3>4. QED
      BY <3>3 DEF init_astray, In
  <2>4. /\ Shapes' /\ (Running' \/ Interrupted') /\ KeepsTask0 /\ asked' = asked
        /\ saved' = <<>> => Restored(c)
    BY <1>1, <2>1, <2>2, <2>3, HandlerStep DEF IInv, Next, Restored
  <2>5. \A d : saved = <<d>> => d = c
    BY <2>1
  <2>6. QED
    BY <2>4, <2>5, Placed DEF IInv, Returned
<1>2. CASE Running /\ Interrupt
  <2>1. Shapes' /\ Interrupted' /\ KeepsTask0 /\ asked' = asked /\ saved' # <<>>
    BY <1>2, EnterStep DEF IInv
  <2>2. QED
    BY <2>1, Placed DEF IInv, Returned
<1>3. CASE Running /\ Step
  <2>1. \A c : saved # <<c>>
    BY <1>3 DEF Running
  <2>2. Proceeds /\ (asked # <<>> => Returned)
    <3>1. CASE InSwitch(regs, rip, rsp)
      BY <1>3, <3>1, SwitchSteps DEF IInv, InSwitch
    <3>2. CASE InThread(regs, rip, rsp)
      BY <1>3, <3>2, ThreadSteps DEF IInv, InThread
    <3>3. CASE InExec(regs, rip, rsp)
      BY <1>3, <3>3, ExecSteps DEF IInv, InExec
    <3>4. CASE InUser(regs, rip, rsp)
      BY <1>3, <3>4, UserSteps DEF IInv, InUser
    <3>5. CASE InCall(regs, rip, rsp)
      BY <1>3, <3>5, CallSteps DEF IInv
    <3>6. QED
      BY <1>3, <3>1, <3>2, <3>3, <3>4, <3>5 DEF Running, Base
  <2>3. QED
    BY <2>1, <2>2, Placed DEF IInv, Proceeds
<1>4. CASE Running /\ init_astray
  <2>1. /\ rip = <<"init", 1>> /\ offset # 0 /\ rip' = Nowhere /\ regs' = regs /\ cs' = cs
        /\ iflag' = iflag /\ rsp' = rsp /\ tss' = tss /\ mem' = mem
        /\ printed' = printed /\ saved' = saved /\ asked' = asked /\ offset' = offset
    BY <1>4 DEF init_astray, In, ghosts
  <2>2. Base(regs, cs, rip, rsp) /\ saved = <<>> /\ iflag = (rip # <<"system_call", 1>>)
    BY <1>4 DEF Running
  <2>3. InThread(regs, rip, rsp) /\ rsp = <<"task1", 1>>
    BY <2>1, <2>2 DEF Base, InSwitch, InThread, InExec, InUser, InCall, Leaving, UserReturn, User
  <2>4. asked = <<>> /\ cs = KERNEL_CS /\ iflag = TRUE
    BY <2>1, <2>2, <2>3 DEF InThread, Base, User
  <2>5. Shapes' /\ Astray'
    BY <2>1, <2>2, <2>3, <2>4 DEF IInv, Shapes, Astray
  <2>6. QED
    BY <2>1, <2>2, <2>4, <2>5 DEF IInv, KeepsTask0
<1>5. CASE Lost
  <2>1. IInv' /\ mem' = mem /\ asked' = asked /\ saved' = saved
    BY <1>5, Stutters DEF Lost, vars
  <2>2. \A c : <<c>> # <<>>
    OBVIOUS
  <2>3. QED
    BY <2>1, <2>2 DEF KeepsTask0, Returned
<1>6. CASE Astray
  <2>1. ~Step /\ ~Interrupt /\ ~init_astray
    BY <1>6, NoStep DEF Astray, Interrupt, Enter, init_astray, In, Nowhere
  <2>2. QED
    BY <1>5, <2>1 DEF Next
<1>7. QED
  BY <1>1, <1>2, <1>3, <1>4, <1>5, <1>6 DEF IInv, Next

LEMMA Start == Init => IInv
<1> SUFFICES ASSUME Init PROVE IInv
  OBVIOUS
<1>1. Context \in Nat /\ Depth \in Nat /\ Context + 60 <= Depth
  BY BoundsAssumption
<1>2. regs \in [Registers -> Words]
  <2>1. KERNEL_DS \in Words /\ \A r \in Registers : <<r, 0>> \in Words
    BY WordFacts
  <2>2. regs = [r \in Registers |-> IF r \in Segments THEN KERNEL_DS ELSE <<r, 0>>]
    BY DEF Init
  <2> HIDE DEF KERNEL_DS
  <2>3. QED
    BY <2>1, <2>2
<1> DEFINE row0 == [n \in 1 .. Depth |-> IF n =< Context THEN <<"context", n>> ELSE Junk]
           row1 == [n \in 1 .. Depth |-> IF n =< Frame
                      THEN ThreadFrame(pt_regs[Frame + 1 - n]) ELSE Junk]
<1>3. Frame = 24
  BY FieldPlace DEF Frame
<1>4. \A f : ThreadFrame(f) \in Words
  <2>1. /\ <<"init", 1>> \in Words /\ Arg \in Words /\ KERNEL_DS \in Words /\ KERNEL_CS \in Words
        /\ Word("IF") \in Words /\ <<"kernel_thread_func", 1>> \in Words /\ Num(0) \in Words
    <3>1. "init" \in CFunctions /\ "kernel_thread_func" \in Assembly
      BY DEF CFunctions, Assembly
    <3>2. QED
      BY <3>1, WordFacts DEF Arg
  <2> HIDE DEF Arg, KERNEL_DS, KERNEL_CS, Word, Num
  <2>2. QED
    BY <2>1 DEF ThreadFrame
<1>5. row0 \in [1 .. Depth -> Words] /\ row1 \in [1 .. Depth -> Words]
  <2>1. Junk \in Words /\ \A n \in 1 .. Depth : <<"context", n>> \in Words
    <3>1. \A n \in 1 .. Depth : n \in Nat
      BY <1>1
    <3>2. QED
      BY <3>1, WordFacts
  <2> HIDE DEF Junk
  <2>2. QED
    BY <1>4, <2>1
<1>6. \A k \in 1 .. 24 : row1[k] = ThreadFrame(pt_regs[25 - k])
  BY <1>1, <1>3
<1>7. mem = [task0 |-> row0, task1 |-> row1]
  BY DEF Init
<1> HIDE DEF row0, row1
<1>8. mem \in [Stacks -> [1 .. Depth -> Words]] /\ mem["task1"] = row1
  BY <1>5, <1>7 DEF Stacks
<1>9. Shapes
  <2>1. tss \in Stacks /\ asked = <<>> /\ printed = <<>>
    BY DEF Init, Stacks
  <2>2. printed \in Seq(Words)
    BY <2>1
  <2>3. QED
    BY <1>2, <1>8, <2>1, <2>2 DEF Shapes
<1>10. InSwitch(regs, rip, rsp)
  <2>1. ThreadWords
    BY <1>6, <1>8 DEF ThreadWords
  <2>2. rsp = <<"task0", Context + (1 - 1)>> /\ rip = <<"switch_to", 1>> /\ asked = <<>>
    BY <1>1 DEF Init
  <2>3. QED
    BY <2>1, <2>2 DEF InSwitch
<1>11. Running
  <2>1. Base(regs, cs, rip, rsp)
    BY <1>10 DEF Base, Init, User
  <2>2. saved = <<>> /\ iflag = TRUE /\ rip # <<"system_call", 1>>
    BY DEF Init
  <2>3. QED
    BY <2>1, <2>2 DEF Running
<1>12. QED
  BY <1>9, <1>11 DEF IInv, Init

LEMMA Inductive == IInv /\ [Next]_vars => IInv'
<1>1. ASSUME IInv, Next PROVE IInv'
  BY <1>1, Moves
<1>2. ASSUME IInv, UNCHANGED vars PROVE IInv'
  BY <1>2, Stutters
<1>3. QED
  BY <1>1, <1>2

LEMMA Invariance == Spec => []IInv
  BY Start, Inductive, PTL DEF Spec

-----------------------------------------------------------------------------
(* The theorems.                                                           *)

\* Every variable keeps its type: no push, pop, call or return of kernel/entry.S
\* and the frame macros moves the stack pointer past either end of a stack.
THEOREM Typed == Spec => []TypeOK
<1>1. ASSUME IInv PROVE TypeOK
  <2>1. /\ \A r \in Registers : regs[r] \in Words
        /\ tss \in Stacks
        /\ \A s \in Stacks : \A n \in 1 .. Depth : mem[s][n] \in Words
        /\ \A n \in DOMAIN printed : printed[n] \in Words
    <3>1. \A n \in DOMAIN printed : printed[n] \in Words
      BY <1>1 DEF IInv, Shapes
    <3>2. QED
      BY <1>1, <3>1 DEF IInv, Shapes
  <2>2. Len(asked) =< 1
    <3>1. CASE asked = <<>>
      BY <3>1
    <3>2. CASE asked # <<>>
      <4>1. PICK a : asked = <<a>>
        BY <1>1, <3>2 DEF IInv, Shapes
      <4>2. QED
        BY <4>1
    <3>3. QED
      BY <3>1, <3>2
  <2>3. Context \in Nat /\ Depth \in Nat /\ Context + 60 <= Depth
    BY BoundsAssumption
  <2>4. CASE Running
    <3>1. Base(regs, cs, rip, rsp) /\ saved = <<>> /\ iflag = (rip # <<"system_call", 1>>)
      BY <2>4 DEF Running
    <3>2. PICK rg, ring, ip, sp : rg = regs /\ ring = cs /\ ip = rip /\ sp = rsp
      OBVIOUS
    <3>3. rip \in Words
      BY <3>1, <3>2, BaseInCode, CodeWords
    <3>4. \/ ring = KERNEL_CS /\ \E s \in Stacks, h \in 0 .. Context + 25 : sp = <<s, h>>
          \/ ring = USER_CS /\ sp = UserStack
      BY <1>1, <3>1, <3>2, BaseRoom DEF IInv
    <3>5. \A h \in 0 .. Context + 25 : h \in 0 .. Depth
      BY <2>3
    <3>6. rsp \in (Stacks \X (0 .. Depth)) \cup {UserStack} /\ cs \in {KERNEL_CS, USER_CS}
      BY <3>2, <3>4, <3>5
    <3>7. iflag \in BOOLEAN /\ Len(saved) =< 1
      BY <3>1
    <3>8. QED
      BY <1>1, <2>1, <2>2, <3>3, <3>6, <3>7 DEF TypeOK, IInv
  <2>5. CASE Interrupted
    <3>1. PICK c : saved = <<c>> /\ Base(c.regs, c.cs, c.rip, c.rsp) /\ Overlay(c)
      BY <2>5 DEF Interrupted
    <3>2. PICK s, b : s = StackOf(c) /\ b = Below(c)
      OBVIOUS
    <3>3. s \in Stacks /\ b \in Nat /\ b + 25 <= Depth
      BY <1>1, <3>1, <3>2, Room DEF IInv
    <3>4. Handling(c, s, b) /\ cs = KERNEL_CS /\ iflag = FALSE
      BY <3>1, <3>2 DEF Overlay
    <3>5. PICK k \in 0 .. 25 : rsp = <<s, b + k>>
      BY <3>3, <3>4, HandlingInCode
    <3>6. b + k \in 0 .. Depth
      BY <2>3, <3>3
    <3>7. rip \in Words
      <4>1. InCode(rip)
        BY <3>3, <3>4, HandlingInCode
      <4>2. PICK ip : ip = rip
        OBVIOUS
      <4>3. QED
        BY <4>1, <4>2, CodeWords
    <3>8. rsp \in (Stacks \X (0 .. Depth)) \cup {UserStack}
      BY <3>3, <3>5, <3>6
    <3>9. iflag \in BOOLEAN /\ cs \in {KERNEL_CS, USER_CS} /\ Len(saved) =< 1
      <4>1. Len(<<c>>) =< 1
        OBVIOUS
      <4>2. Len(saved) =< 1
        BY <3>1, <4>1
      <4>3. QED
        BY <3>4, <4>2
    <3>10. QED
      BY <1>1, <2>1, <2>2, <3>7, <3>8, <3>9 DEF TypeOK, IInv
  <2>6. CASE Astray
    <3>1. rip \in Words /\ rsp = <<"task1", 1>> /\ "task1" \in Stacks /\ 1 \in 0 .. Depth
      BY <2>3, <2>6, WordFacts DEF Astray, Stacks
    <3>2. QED
      BY <1>1, <2>1, <2>2, <2>6, <3>1 DEF Astray, TypeOK, IInv
  <2>7. QED
    BY <1>1, <2>4, <2>5, <2>6 DEF IInv
<1>2. QED
  BY <1>1, Invariance, PTL

\* Every return, jump and indirect call, from kernel_thread_func's call of init
\* to the iretq of ret_from_intr, lands on an instruction of its ring.
THEOREM ControlStaysInCode == Spec => []ControlInCode
<1>1. ASSUME IInv PROVE ControlInCode
  <2>1. ASSUME InCode(rip), cs = IF rip[1] = User THEN USER_CS ELSE KERNEL_CS
        PROVE  ControlInCode
    <3>1. KERNEL_CS # USER_CS
      BY DEF KERNEL_CS, USER_CS, Word
    <3>2. cs = USER_CS <=> rip[1] = User
      BY <2>1, <3>1
    <3>3. \/ rip[1] \in Assembly /\ rip[2] \in DOMAIN CodeOf(rip[1])
          \/ rip[1] \in CFunctions /\ rip[2] = 1
          \/ rip[1] = User /\ rip[2] \in 1 .. 3
      BY <2>1 DEF InCode
    <3>4. QED
      BY <3>2, <3>3 DEF ControlInCode
  <2>2. CASE Running
    <3>1. Base(regs, cs, rip, rsp)
      BY <2>2 DEF Running
    <3>2. InCode(rip)
      BY <3>1, BaseInCode
    <3>3. QED
      BY <2>1, <3>1, <3>2 DEF Base
  <2>3. CASE Interrupted
    <3>1. PICK c : saved = <<c>> /\ Base(c.regs, c.cs, c.rip, c.rsp) /\ Overlay(c)
      BY <2>3 DEF Interrupted
    <3>2. PICK s, b : s = StackOf(c) /\ b = Below(c)
      OBVIOUS
    <3>3. b \in Nat
      BY <1>1, <3>1, <3>2, Room DEF IInv
    <3>4. Handling(c, s, b) /\ cs = KERNEL_CS
      BY <3>1, <3>2 DEF Overlay
    <3>5. InCode(rip) /\ rip[1] # User
      BY <3>3, <3>4, HandlingInCode DEF User
    <3>6. QED
      BY <2>1, <3>4, <3>5
  <2>4. CASE Astray
    <3>1. KERNEL_CS # USER_CS /\ rip[1] # User
      BY <2>4 DEF KERNEL_CS, USER_CS, Word, Astray, Nowhere, User
    <3>2. QED
      BY <2>4, <3>1 DEF ControlInCode, Astray
  <2>5. QED
    BY <1>1, <2>2, <2>3, <2>4 DEF IInv
<1>2. QED
  BY <1>1, Invariance, PTL

\* The struct pt_regs that do_IRQ and system_call_function are given holds what
\* the interrupted code, or the caller of sysenter, had in its registers.
THEOREM HandlersRead == Spec => []HandlersSeeRegisters
<1>1. ASSUME IInv PROVE HandlersSeeRegisters
  <2>1. PICK p : p = regs["rdi"]
    OBVIOUS
  <2>2. CASE Running
    <3>1. Base(regs, cs, rip, rsp)
      BY <2>2 DEF Running
    <3>2. ~In("do_IRQ")
      BY <3>1 DEF In, Base, InSwitch, InThread, InExec, InUser, InCall, Leaving, UserReturn, User
    <3>3. ASSUME In("system_call_function"), NEW r \in Registers
          PROVE  FieldAt(p, r) = asked[1][r]
      <4>1. InCall(regs, rip, rsp)
        BY <3>1, <3>3 DEF In, Base, InSwitch, InThread, InExec, InUser, Leaving, UserReturn, User
      <4>2. regs["rdi"] = <<"task0", 24>> /\ Holds("task0", 0, asked[1], Registers, 24)
        BY <3>3, <4>1 DEF In, InCall, Leaving
      <4>3. PICK E : E = asked[1]
        OBVIOUS
      <4>4. /\ "task0" \in Stacks /\ 0 \in Nat /\ Holds("task0", 0, E, Registers, 24)
            /\ p = <<"task0", 0 + 24>>
        BY <2>1, <4>2, <4>3 DEF Stacks
      <4>5. QED
        BY <4>3, <4>4, FrameReads
    <3>4. QED
      BY <2>1, <3>2, <3>3 DEF HandlersSeeRegisters
  <2>3. CASE Interrupted
    <3>1. PICK c : saved = <<c>> /\ Base(c.regs, c.cs, c.rip, c.rsp) /\ Overlay(c)
      BY <2>3 DEF Interrupted
    <3>2. PICK s, b : s = StackOf(c) /\ b = Below(c)
      OBVIOUS
    <3>3. s \in Stacks /\ b \in Nat
      BY <1>1, <3>1, <3>2, Room DEF IInv
    <3>4. Handling(c, s, b) /\ Pushed(c, s, b) /\ saved[1] = c
      BY <3>1, <3>2 DEF Overlay
    <3>5. ~In("system_call_function")
      BY <3>3, <3>4, HandlingInCode DEF In
    <3>6. ASSUME In("do_IRQ")
          PROVE  /\ \A r \in Registers : FieldAt(p, r) = c.regs[r]
                 /\ FieldAt(p, "errcode") = Num(0) /\ FieldAt(p, "rip") = c.rip
                 /\ FieldAt(p, "cs") = c.cs /\ FieldAt(p, "rsp") = c.rsp
      <4>1. /\ mem[s][b + 6] = Num(0) /\ regs["rdi"] = <<s, b + 24>>
            /\ Holds(s, b, c.regs, Registers, 24)
        BY <3>4, <3>6 DEF In, Handling
      <4>2. p = <<s, b + 24>> /\ p[1] = s /\ p[2] = b + 24
        BY <2>1, <4>1
      <4>3. \A r \in Registers : FieldAt(p, r) = c.regs[r]
        BY <3>3, <4>1, <4>2, FrameReads
      <4>4. /\ p[2] - (Field("errcode") - 1) = b + 6 /\ p[2] - (Field("rip") - 1) = b + 5
            /\ p[2] - (Field("cs") - 1) = b + 4 /\ p[2] - (Field("rsp") - 1) = b + 2
        BY <3>3, <4>2, FieldPlace
      <4>5. /\ FieldAt(p, "errcode") = mem[s][b + 6] /\ FieldAt(p, "rip") = mem[s][b + 5]
            /\ FieldAt(p, "cs") = mem[s][b + 4] /\ FieldAt(p, "rsp") = mem[s][b + 2]
        BY <4>2, <4>4 DEF FieldAt
      <4>6. QED
        BY <3>4, <4>1, <4>3, <4>5 DEF Pushed
    <3>7. QED
      BY <2>1, <3>4, <3>5, <3>6 DEF HandlersSeeRegisters
  <2>4. CASE Astray
    BY <2>4 DEF Astray, Nowhere, In, HandlersSeeRegisters
  <2>5. QED
    BY <1>1, <2>2, <2>3, <2>4 DEF IInv
<1>2. QED
  BY <1>1, Invariance, PTL

\* kernel_thread_func calls init with the argument of kernel_thread, wherever
\* do_fork put the thread, and where init gets on, which takes a task on a
\* multiple of STACK_SIZE, the user program starts on its own stack, with null
\* segments and rax 0.
THEOREM ThreadsStart == Spec => []ThreadStarts
<1>1. ASSUME IInv PROVE ThreadStarts
  <2>1. CASE Running
    <3>1. Base(regs, cs, rip, rsp)
      BY <2>1 DEF Running
    <3>2. ASSUME In("init") PROVE regs["rdi"] = Arg /\ rsp = <<"task1", 1>>
      BY <3>1, <3>2
         DEF In, Base, InSwitch, InThread, InExec, InUser, InCall, Leaving, UserReturn, User
    <3>3. ASSUME rip = <<User, 1>>
          PROVE  /\ rsp = UserStack /\ regs["ds"] = Num(0) /\ regs["es"] = Num(0)
                 /\ regs["rax"] = Num(0)
      <4>1. InUser(regs, rip, rsp)
        BY <3>1, <3>3 DEF Base, InSwitch, InThread, InExec, InCall, Leaving, User
      <4>2. QED
        BY <3>3, <4>1 DEF InUser, UserReturn
    <3>4. QED
      BY <3>2, <3>3 DEF ThreadStarts
  <2>2. CASE Interrupted
    <3>1. PICK c : saved = <<c>> /\ Base(c.regs, c.cs, c.rip, c.rsp) /\ Overlay(c)
      BY <2>2 DEF Interrupted
    <3>2. PICK s, b : s = StackOf(c) /\ b = Below(c)
      OBVIOUS
    <3>3. b \in Nat /\ Handling(c, s, b)
      BY <1>1, <3>1, <3>2, Room DEF IInv, Overlay
    <3>4. rip[1] # "init" /\ rip[1] # User
      BY <3>3, HandlingInCode DEF User
    <3>5. QED
      BY <3>4 DEF ThreadStarts, In
  <2>3. CASE Astray
    BY <2>3 DEF Astray, Nowhere, In, User, ThreadStarts
  <2>4. QED
    BY <1>1, <2>1, <2>2, <2>3 DEF IInv
<1>2. QED
  BY <1>1, Invariance, PTL

\* Whatever instruction it falls behind, an interrupt gives back all registers,
\* the ring, the pointers and the words in use: Build_IRQ and ret_from_intr
\* take down exactly the frame they build.
THEOREM InterruptsAreTransparent == Spec => InterruptsTransparent
<1>1. IInv /\ [Next]_vars =>
        [saved # <<>> /\ saved' = <<>> =>
           /\ regs' = saved[1].regs
           /\ cs' = saved[1].cs
           /\ rip' = saved[1].rip
           /\ rsp' = saved[1].rsp
           /\ iflag' = TRUE
           /\ Live(mem', rsp') = saved[1].live]_vars
  <2>1. SUFFICES ASSUME IInv, Next, saved # <<>>, saved' = <<>>
                 PROVE  /\ regs' = saved[1].regs /\ cs' = saved[1].cs /\ rip' = saved[1].rip
                        /\ rsp' = saved[1].rsp /\ iflag' = TRUE
                        /\ Live(mem', rsp') = saved[1].live
    OBVIOUS
  <2>2. PICK c : saved = <<c>>
    BY <2>1 DEF IInv, Running, Interrupted, Astray
  <2>3. Restored(c)
    BY <2>1, <2>2, Moves
  <2>4. saved[1] = c
    BY <2>2
  <2>5. QED
    BY <2>3, <2>4 DEF Restored
<1>2. QED
  BY <1>1, Invariance, PTL DEF InterruptsTransparent, Spec

\* sysexit gives the caller of sysenter its registers, with the result in rax.
THEOREM SystemCallsReturn == Spec => SystemCallReturns
<1>1. IInv /\ [Next]_vars =>
        [asked # <<>> /\ asked' = <<>> =>
           /\ regs' = [asked[1] EXCEPT !["rax"] = IF @ = Num(1) THEN Num(0)
                                                  ELSE Word("-1")]
           /\ rip' = UserReturn
           /\ rsp' = UserStack
           /\ iflag' = TRUE]_vars
  <2>1. SUFFICES ASSUME IInv, Next, asked # <<>>, asked' = <<>>
                 PROVE  /\ regs' = [asked[1] EXCEPT !["rax"] = IF @ = Num(1) THEN Num(0)
                                                               ELSE Word("-1")]
                        /\ rip' = UserReturn /\ rsp' = UserStack /\ iflag' = TRUE
    OBVIOUS
  <2>2. Returned
    BY <2>1, Moves
  <2>3. Answered = [asked[1] EXCEPT !["rax"] = IF @ = Num(1) THEN Num(0) ELSE Word("-1")]
    <3>1. asked[1] \in [Registers -> Words] /\ "rax" \in Registers
      BY <2>1, Fields DEF IInv, Shapes
    <3>2. QED
      BY <3>1 DEF Answered, Answer
  <2>4. QED
    BY <2>1, <2>2, <2>3 DEF Returned
<1>2. QED
  BY <1>1, Invariance, PTL DEF SystemCallReturns, Spec

\* Only a system call writes over what task 0 left on its stack.
THEOREM Task0Untouched == Spec => OnlyCallsTouchTask0
<1>1. IInv /\ [Next]_vars =>
        [asked = <<>> =>
           \A n \in 1 .. Context : mem'["task0"][n] = mem["task0"][n]]_vars
  BY Moves DEF KeepsTask0
<1>2. QED
  BY <1>1, Invariance, PTL DEF OnlyCallsTouchTask0, Spec
=============================================================================
