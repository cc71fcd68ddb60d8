-------------------------------- MODULE Task --------------------------------
(***************************************************************************)
(* The first thread of HelloOS (kernel/sched/task.c): task_init forks the  *)
(* thread init and switches to it.  do_fork takes the new task's 32 KB,    *)
(* task_struct at the bottom and kernel stack above it, from alloc_pages:  *)
(* this module composes it with PageAlloc, and nothing else in the kernel  *)
(* allocates.                                                              *)
(*                                                                         *)
(* A task is named by the number of its first page, the task of the boot   *)
(* processor, which lies in the kernel image, by InitTask.  Stack pointers *)
(* are page numbers.  What switch_to does to registers is in TrapFrame.    *)
(*                                                                         *)
(* do_fork writes a task_struct and a stack wherever phy_addr says.  That  *)
(* is followed where phy_addr names pages that are not the kernel's; in    *)
(* every other case the write may change anything: tpc = "lost".           *)
(***************************************************************************)
EXTENDS PageAlloc

CONSTANT StackPages  \* STACK_SIZE in pages (8)

ASSUME StackAssumption == StackPages \in 1 .. W

VARIABLES
  tpc,      \* where task_init is
  links,    \* the list_head of every task
  tasks,    \* task_struct and thread_struct of every task
  tsk,      \* the task do_fork makes
  running,  \* the task switch_to went to
  rsp       \* page of the stack pointer

tvars == <<tpc, links, tasks, tsk, running, rsp>>

\* Faulty variant of ForkPages: one page less than STACK_SIZE.
ForkPages_Less == StackPages - 1
ForkPages == StackPages             \* 8
ForkFlags == {"PTable_Maped", "Active", "Kernel"}
InitTask == -2 * StackPages         \* aligned by link.lds
NoTask == -1

\* do_fork is one of alloc_pages' callers
ASSUME ForkFlagsAssumption == ForkFlags \in AllocFlags

\* and with ~32767
get_current(sp) == (sp \div StackPages) * StackPages

\* a stack pointer below the end of a task's stack, with a frame on it
TopOf(task) == task + StackPages - 1

-----------------------------------------------------------------------------
(* list.h, on the function from tasks to their prev and next.              *)

list_init(list, head) ==
  [n \in DOMAIN list \cup {head} |->
     IF n = head THEN [prev |-> head, next |-> head] ELSE list[n]]

\* the four assignments, in their order
__list_add(list, new, prev, next) ==
  [[[[list EXCEPT ![prev].next = new] EXCEPT ![new].next = next]
      EXCEPT ![new].prev = prev] EXCEPT ![next].prev = new]

list_add_tail(list, new, head) == __list_add(list, new, head, list[head].next)

list_next(list, task) == list[task].next

-----------------------------------------------------------------------------
(* Boot as in PageAlloc, then task_init.                                   *)

\* INIT_TASK and init_thread; rsp0 is the end of the stack
Thread(task) == [at |-> task, rsp0 |-> task + StackPages, rsp |-> TopOf(task)]
INIT_TASK == [state |-> "INTERRUPTIBLE", pid |-> 0, flags |-> {"KTHREAD"},
              thread |-> Thread(InitTask), rip |-> "none"]

TaskInit ==
  /\ Init
  /\ tpc = "boot" /\ tsk = NoTask /\ running = InitTask /\ rsp = TopOf(InitTask)
  /\ links = list_init(<<>>, InitTask)
  /\ tasks = [t \in {InitTask} |-> INIT_TASK]

Boot ==
  /\ tpc = "boot"
  /\ \/ init_memory \/ BuildZone \/ SkipEntry \/ ZonesDone
     \/ ReserveKernelPage \/ KernelReserved
  /\ UNCHANGED tvars

\* list_init of init's list; kernel_thread calls do_fork, do_fork alloc_pages
Fork ==
  /\ tpc = "boot"
  /\ alloc_pages("NORMAL", ForkPages, ForkFlags)
  /\ links' = list_init(links, InitTask)
  /\ tpc' = "alloc"
  /\ UNCHANGED <<tasks, tsk, running, rsp>>

Alloc == tpc = "alloc" /\ InitRunPage /\ UNCHANGED tvars

AllocAstray ==
  /\ tpc = "alloc" /\ InitAstray
  /\ tpc' = "lost"
  /\ UNCHANGED <<links, tasks, tsk, running, rsp>>

\* the run that alloc_pages returned, and p->phy_addr of its first page
NewRun == grants[Len(grants)]
NewTask == pages_struct[NewRun.page].phy

\* The kernel's pages, the first run, hold the page manager's structures.
InKernel(task) == task .. task + StackPages - 1 \cap Run(grants[1]) # {}

ForkPage ==
  /\ tpc = "alloc" /\ pc = "ready"
  /\ ~InKernel(NewTask)
  /\ tsk' = NewTask
  /\ tpc' = "struct"
  /\ UNCHANGED <<vars, links, tasks, running, rsp>>

\* The new task would lie over the kernel, or p is the slot in front of the
\* descriptors: its phy_addr need not be the address of a whole page.
ForkAstray ==
  /\ tpc = "alloc" /\ pc = "ready"
  /\ InKernel(NewTask) \/ NewRun.page = -1
  /\ tpc' = "lost"
  /\ UNCHANGED <<vars, links, tasks, tsk, running, rsp>>

\* p is NULL and is not tested: the new task is where the word at address 0 says
ForkNull ==
  /\ tpc = "boot"
  /\ alloc_pages_NULL("NORMAL", ForkPages)
  /\ links' = list_init(links, InitTask)
  /\ tpc' = "lost"
  /\ UNCHANGED <<tasks, tsk, running, rsp>>

\* Faulty variant of Linked: no list_init(&tsk->list), the copy of current's
\* list_head stays.
Linked_Copied(list, task) ==
  list_add_tail([n \in DOMAIN list \cup {task} |->
                   IF n = task THEN list[InitTask] ELSE list[n]], InitTask, task)
\* list_init(&tsk->list); list_add_tail(&init_task_union.task.list, &tsk->list)
Linked(list, task) == list_add_tail(list_init(list, task), InitTask, task)

\* Faulty variant of Forked: tsk->thread is not set, the copy of current's stays.
Forked_Shares(task, parent) ==
  [parent EXCEPT !.pid = @ + 1, !.state = "RUNNING",
                 !.rip = "kernel_thread_func"]
\* the rest of do_fork: *tsk = *current and what follows; the frame that
\* kernel_thread built is copied to the top of the stack
Forked(task, parent) ==
  [parent EXCEPT !.pid = @ + 1, !.state = "RUNNING", !.thread = Thread(task),
                 !.rip = IF "KTHREAD" \in parent.flags
                           THEN "kernel_thread_func" ELSE "ret_system_call"]

do_fork ==
  /\ tpc = "struct"
  /\ links' = Linked(links, tsk)
  /\ tasks' = [t \in DOMAIN tasks \cup {tsk} |->
                 IF t = tsk THEN Forked(tsk, tasks[get_current(rsp)])
                            ELSE tasks[t]]
  /\ tpc' = "switch"
  /\ UNCHANGED <<vars, tsk, running, rsp>>

\* init_task is running; p is current's next in the list; switch_to(current, p)
switch_to ==
  /\ tpc = "switch"
  /\ LET prev == get_current(rsp)
         next == list_next(links, prev)
     IN  /\ tasks' = [tasks EXCEPT ![InitTask].state = "RUNNING",
                                   ![prev].thread.rsp = rsp]
         /\ rsp' = tasks[next].thread.rsp
         /\ running' = next
  /\ tpc' = "init"
  /\ UNCHANGED <<vars, links, tsk>>

\* init runs, or the kernel does what it likes
Running == tpc \in {"init", "lost"} /\ UNCHANGED <<vars, tvars>>

TaskNext == \/ Boot \/ Fork \/ Alloc \/ AllocAstray
            \/ ForkPage \/ ForkAstray \/ ForkNull
            \/ do_fork \/ switch_to \/ Running

TaskSpec == TaskInit /\ [][TaskNext]_<<vars, tvars>>

-----------------------------------------------------------------------------
(* Properties.                                                             *)

\* The list is a ring of all tasks in both directions, although do_fork passes
\* list_add_tail the head as the new entry and the new entry as the head.
ListIsRing ==
  /\ DOMAIN links = DOMAIN tasks
  /\ \A t \in DOMAIN links :
       /\ links[t].next \in DOMAIN links /\ links[t].prev \in DOMAIN links
       /\ links[links[t].next].prev = t /\ links[links[t].prev].next = t
  /\ \A t \in DOMAIN links : Cardinality(DOMAIN links) > 1 => links[t].next # t

\* When the page manager gave do_fork pages to build a task on, switch_to finds
\* that task through the list, ready to run, on a stack of its own, with the
\* parent's stack pointer saved in the parent's thread.
\* current finds it exactly when alloc_pages happened to place it on a multiple
\* of its size: get_current masks rsp, do_fork asks for pages.
SwitchesToFork ==
  tpc = "init" =>
    /\ running = tsk /\ tasks[running].state = "RUNNING"
    /\ tasks[running].pid # tasks[InitTask].pid
    /\ rsp \in tsk .. tsk + StackPages - 1
    /\ tasks[running].thread.at = tsk
    /\ tasks[InitTask].thread.rsp = TopOf(InitTask)
    /\ get_current(rsp) = running <=> running % StackPages = 0

\* The page manager will not hand the running thread's stack out again,
\* provided the run it got began with a page of a zone.  Elsewhere phy_addr is
\* not that of the page: in front of the descriptors it is a stray word, and
\* the descriptor of a page outside all zones has it 0.
StackReserved ==
  tpc = "init" /\ pages_struct[grants[2].page].zone \in Zones =>
    running .. running + StackPages - 1 \subseteq page_bits
=============================================================================
