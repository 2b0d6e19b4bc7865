---------------------------- MODULE NavilKernel ----------------------------
(***************************************************************************)
(* The kernel proper of src/navilnux/chap16_driver: boot (main,            *)
(* navilnux_init), task creation with its stack block (navilnux_task.c,    *)
(* navilnux_memory.c), the round-robin scheduler (navilnux.c) and the      *)
(* exception entries that save and load contexts (entry.S).                *)
(*                                                                         *)
(* Every exception handler runs with IRQ and FIQ masked from entry to      *)
(* return, so a handler is one action.  Tasks run in user mode with IRQ    *)
(* enabled: a timer interrupt can fall between any two of their steps.     *)
(*                                                                         *)
(* A register file keeps one register of each kind the entry code treats   *)
(* differently: r0 (a system call's result), r4 (for r1-r9, r11, r12 and   *)
(* lr, all saved and restored alike), r10 (used to decode the call), and   *)
(* sp, pc and cpsr.  sp is the number of the stack block it points into.   *)
(***************************************************************************)
EXTENDS Integers

CONSTANTS MAXTASKNUM,     \* TCBs in taskmng.free_task_pool (40)
          MAXMEMBLK,      \* stack blocks in memmng.free_mem_pool (40)
          MAXCREATE,      \* bound: calls of taskmng.create in navilnux_user
          Val,            \* values a general register can hold
          SYS_CALLSCHED,  \* the number of the yield system call (255)
          TICKMOD         \* range of the tick counter (2^32)

ASSUME KernelAssumption ==
  /\ MAXTASKNUM \in Nat \ {0}
  /\ MAXMEMBLK \in Nat \ {0}
  /\ MAXCREATE \in Nat
  /\ 0 \in Val
  /\ TICKMOD \in Nat \ {0}

VARIABLES phase,          \* where main is, or "task" once tasks run
          max_task_id,    \* taskmng.max_task_id
          is_used,        \* memmng.free_mem_pool[b].is_used
          tcb,            \* contexts: taskmng.free_task_pool and dummyTCB
          cpu,            \* the registers of the processor
          current,        \* navilnux_current
          next,           \* navilnux_next
          current_index,  \* navilnux_current_index
          tick            \* navilnux_time_tick

vars == <<phase, max_task_id, is_used, tcb, cpu, current, next,
          current_index, tick>>

-----------------------------------------------------------------------------
Task  == 0 .. MAXTASKNUM - 1
Block == 0 .. MAXMEMBLK - 1

(* A TCB pointer is the index into the pool, or one of these. *)
NULL  == -2
DUMMY == -1

(* sp: the block b a stack pointer is in is b + 1; 0 is what mem_alloc     *)
(* returns when there is none, SVCSTACK is a stack entry.S set for main,   *)
(* outside every block: dummyTCB holds it and no switch ever loads it.     *)
SVCSTACK == MAXMEMBLK + 1

Phase == {"reset", "user", "idle", "task", "panic", "wild"}

Context == [r0 : Val, r4 : Val, r10 : Val \cup {SYS_CALLSCHED},
            sp : 0 .. SVCSTACK, pc : {"null", "entry", "body", "main"},
            cpsr : {"null", "usr", "svc"}]

ZeroContext == [r0 |-> 0, r4 |-> 0, r10 |-> 0, sp |-> 0,
                pc |-> "null", cpsr |-> "null"]

MainContext == [r0 |-> 0, r4 |-> 0, r10 |-> 0, sp |-> SVCSTACK,
                pc |-> "main", cpsr |-> "svc"]

-----------------------------------------------------------------------------
(* navilnux_memory.c *)

mem_init == is_used' = [b \in Block |-> FALSE]

FreeBlock == {b \in Block : ~ is_used[b]}

(* The block the linear search of mem_alloc returns. *)
FirstFree == CHOOSE b \in FreeBlock : \A c \in FreeBlock : b <= c

(* Variant with a defect: the block is handed out but never marked. *)
mem_alloc_unmarked(b) == is_used' = is_used

(* mem_alloc for the caller that got block b. *)
mem_alloc(b) == is_used' = [is_used EXCEPT ![b] = TRUE]

-----------------------------------------------------------------------------
(* navilnux_task.c *)

task_init == /\ tcb' = [t \in Task \cup {DUMMY} |->
                          IF t = DUMMY THEN tcb[t]
                          ELSE [tcb[t] EXCEPT !.cpsr = "null", !.pc = "null"]]
             /\ max_task_id' = -1

NewTCB(t, b) ==
  tcb' = [tcb EXCEPT ![t].cpsr = "usr", ![t].sp = b + 1, ![t].pc = "entry"]

(* task_create takes the next index before any check and keeps it when it  *)
(* fails: max_task_id counts attempts, not tasks.                          *)
TakeIndex == /\ phase = "user"
             /\ max_task_id + 1 < MAXCREATE
             /\ max_task_id' = max_task_id + 1
             /\ UNCHANGED <<cpu, current, next, current_index, tick>>

(* return -1 *)
CreateTooMany == /\ TakeIndex
                 /\ max_task_id' > MAXTASKNUM
                 /\ UNCHANGED <<phase, is_used, tcb>>

(* return -2 *)
CreateNoStack == /\ TakeIndex
                 /\ max_task_id' <= MAXTASKNUM
                 /\ FreeBlock = {}
                 /\ UNCHANGED <<phase, is_used, tcb>>

(* The bound lets index MAXTASKNUM through: the TCB written then lies      *)
(* behind the pool, over max_task_id and the manager's function pointers.  *)
CreateTask == /\ TakeIndex
              /\ max_task_id' <= MAXTASKNUM
              /\ FreeBlock # {}
              /\ mem_alloc(FirstFree)
              /\ IF max_task_id' < MAXTASKNUM
                 THEN NewTCB(max_task_id', FirstFree) /\ UNCHANGED phase
                 ELSE phase' = "wild" /\ UNCHANGED tcb

task_create == CreateTooMany \/ CreateNoStack \/ CreateTask

-----------------------------------------------------------------------------
(* navilnux.c and entry.S *)

Init == /\ phase = "reset"
        /\ max_task_id = 0
        /\ is_used = [b \in Block |-> FALSE]
        /\ tcb = [t \in Task \cup {DUMMY} |-> ZeroContext]
        /\ cpu = MainContext
        /\ current = NULL
        /\ next = NULL
        /\ current_index = 0
        /\ tick = 0

(* kernel_init and main up to the call of navilnux_user. *)
navilnux_init == /\ phase = "reset"
                 /\ phase' = "user"
                 /\ mem_init
                 /\ task_init
                 /\ tick' = 0
                 /\ UNCHANGED <<cpu, current, next, current_index>>

(* Variant with a defect: the first task, not dummyTCB, is made current. *)
sched_init_nodummy ==
  /\ phase = "user"
  /\ IF max_task_id < 0
     THEN phase' = "panic" /\ UNCHANGED <<current, next, current_index>>
     ELSE phase' = "idle" /\ current' = 0 /\ next' = 0 /\ current_index' = -1
  /\ UNCHANGED <<max_task_id, is_used, tcb, cpu, tick>>

(* navilnux_user has returned: sched_init, then irq_enable or the panic. *)
sched_init == /\ phase = "user"
              /\ IF max_task_id < 0
                   THEN /\ phase' = "panic"
                        /\ UNCHANGED <<current, next, current_index>>
                   ELSE /\ phase' = "idle"
                        /\ current' = DUMMY
                        /\ next' = 0
                        /\ current_index' = -1
              /\ UNCHANGED <<max_task_id, is_used, tcb, cpu, tick>>

(* "Kernel Panic~!": main returns and _ram_entry calls kernel_init again. *)
panic == /\ phase = "panic"
         /\ phase' = "reset"
         /\ UNCHANGED <<max_task_id, is_used, tcb, cpu, current, next,
                        current_index, tick>>

(* Variant with a defect: the modulus is one too large. *)
scheduler_offbyone ==
  /\ current_index' = (current_index + 1) % (max_task_id + 2)
  /\ next' = current_index'
  /\ current' = next'

(* Variant with a defect: the last task is never reached. *)
scheduler_skiplast ==
  /\ current_index' = IF max_task_id = 0 THEN 0
                      ELSE (current_index + 1) % max_task_id
  /\ next' = current_index'
  /\ current' = next'

scheduler ==
  /\ current_index' = (current_index + 1) % (max_task_id + 1)
  /\ next' = current_index'
  /\ current' = next'

(* Variant with a defect: the block store leaves one register out. *)
SaveContext_short(regs) ==
  tcb' = [tcb EXCEPT ![current] = [regs EXCEPT !.r4 = tcb[current].r4]]

SaveContext(regs) == tcb' = [tcb EXCEPT ![current] = regs]

(* Whatever was saved is resumed, in the mode it was saved in: the entry   *)
(* code asks nothing.  A TCB behind the pool, or one nothing was ever      *)
(* written to, sends the processor to a mode and an address nobody chose.  *)
LoadContext == IF next' \in DOMAIN tcb' /\ tcb'[next'].cpsr # "null"
                 THEN cpu' = tcb'[next'] /\ phase' = "task"
                 ELSE cpu' = cpu /\ phase' = "wild"

Switch(regs) == /\ SaveContext(regs)
                /\ scheduler
                /\ LoadContext
                /\ UNCHANGED <<max_task_id, is_used>>

(* navilnux_irqHandler around irqHandler: only the timer is unmasked. *)
irqHandler == /\ phase \in {"idle", "task"}
              /\ tick' = (tick + 1) % TICKMOD
              /\ Switch(cpu)

(* Variant with a defect: the opcode 0xef of swi stays in front of the     *)
(* number.                                                                 *)
YieldContext_unmasked ==
  [cpu EXCEPT !.r10 = SYS_CALLSCHED - 17 * 16777216, !.pc = "body"]

(* What swiHandler has made of the registers when it reaches sys_scheduler: *)
(* the number is decoded in r10, which is then saved as the task's.        *)
YieldContext == [cpu EXCEPT !.r10 = SYS_CALLSCHED, !.pc = "body"]

sys_scheduler == /\ phase = "task"
                 /\ Switch(YieldContext)
                 /\ UNCHANGED tick

(* Any other system call: r1-r14 come back from the supervisor's stack,    *)
(* r0 is the result.                                                       *)
navilnux_swiHandler ==
  /\ phase = "task"
  /\ \E v \in Val : cpu' = [cpu EXCEPT !.r0 = v, !.pc = "body"]
  /\ UNCHANGED <<phase, max_task_id, is_used, tcb, current, next,
                 current_index, tick>>

(* The running task computes: its registers, inside its own stack block. *)
UserStep ==
  /\ phase = "task"
  /\ \E r \in {"r4", "r10"}, v \in Val :
       cpu' = [cpu EXCEPT ![r] = v, !.pc = "body"]
  /\ UNCHANGED <<phase, max_task_id, is_used, tcb, current, next,
                 current_index, tick>>

Wild == phase = "wild" /\ UNCHANGED vars

Boot == navilnux_init \/ sched_init \/ panic

Next == \/ Boot
        \/ task_create
        \/ irqHandler
        \/ sys_scheduler
        \/ navilnux_swiHandler
        \/ UserStep
        \/ Wild

Spec == Init /\ [][Next]_vars

(* main runs on, and the timer interrupt re-arms itself in every handler.  *)
FairSpec == Spec /\ WF_vars(Boot) /\ WF_vars(irqHandler)

-----------------------------------------------------------------------------
(* Properties *)

TypeOK == /\ phase \in Phase
          /\ max_task_id \in -1 .. MAXCREATE
          /\ is_used \in [Block -> BOOLEAN]
          /\ tcb \in [Task \cup {DUMMY} -> Context]
          /\ cpu \in Context
          /\ current \in NULL .. MAXCREATE - 1
          /\ next \in NULL .. MAXCREATE - 1
          /\ current_index \in -1 .. MAXCREATE
          /\ tick \in 0 .. TICKMOD - 1

Created == {t \in Task : tcb[t].cpsr = "usr"}

(* navilnux_user has asked for more tasks than there are TCBs or blocks. *)
PastCapacity == max_task_id >= MAXTASKNUM \/ max_task_id >= MAXMEMBLK

(* While tasks run, navilnux_current, navilnux_next and the index agree,   *)
(* so the next interrupt saves into the TCB of the task it interrupts.     *)
SchedulerAgrees ==
  phase = "task" => /\ current = current_index
                    /\ next = current_index
                    /\ current \in Created

(* mem_alloc and the context switch together: every task stays on the one  *)
(* stack block it was given, no block has two owners, the processor is on  *)
(* the stack of the task the scheduler believes to be running and never    *)
(* again on main's.                                                        *)
StackOf(t) == IF phase = "task" /\ t = current THEN cpu.sp ELSE tcb[t].sp

StacksDisjoint ==
  phase # "reset" =>
    \A t, u \in Created : /\ StackOf(t) \in 1 .. MAXMEMBLK
                          /\ is_used[StackOf(t) - 1]
                          /\ t # u => StackOf(t) # StackOf(u)

(* The first tick interrupts main.  What it saves stays in dummyTCB, as it *)
(* was, through all later switches, and no switch resumes it: neither the  *)
(* processor nor any task's TCB ever has main's mode, place or stack.      *)
NotMain(c) == c.cpsr # "svc" /\ c.pc # "main" /\ c.sp # SVCSTACK

MainSetAside ==
  phase = "task" => /\ tcb[DUMMY] = MainContext
                    /\ NotMain(cpu)
                    /\ \A t \in Task : NotMain(tcb[t])

(* task_create leaves max_task_id advanced when it fails, lets one index   *)
(* past the pool, and nobody looks at its result: the scheduler runs into  *)
(* a TCB nobody filled in, but only once more tasks were asked for than    *)
(* the pool and the stack blocks hold.                                     *)
WildOnlyPastCapacity == phase = "wild" => PastCapacity

(* Each task gets the processor again and again, whatever the others do,   *)
(* unless creates that failed send the processor where no task is.         *)
EveryTaskRuns == \A t \in Task : (t \in Created /\ phase = "task") ~>
                                   \/ current = t /\ phase = "task"
                                   \/ phase = "wild"

(* The refinement: what each task can call its registers. *)
Run == IF phase = "task" THEN current ELSE DUMMY

OwnContext(t) == IF phase = "task" /\ t = current THEN cpu ELSE tcb[t]

VCPU == INSTANCE VirtualCPU WITH
          NoTask  <- DUMMY,
          Clobber <- SYS_CALLSCHED,
          run     <- Run,
          ctx     <- [t \in Task |-> OwnContext(t)]

(* Every task has a virtual processor of its own, and only a yield touches *)
(* r10 of the task that yields.  Creates that failed end this only by      *)
(* sending the processor where no task is.                                 *)
VirtualCPUSpec ==
  VCPU!Init /\ [][VCPU!Next \/ phase' = "wild"]_(VCPU!vars)
=============================================================================
