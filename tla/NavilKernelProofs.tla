------------------------- MODULE NavilKernelProofs -------------------------
(***************************************************************************)
(* Proofs about NavilKernel for every pool size, number of stack blocks,   *)
(* number of creates and value set.                                        *)
(*                                                                         *)
(* The inductive invariant says which task_create calls succeeded in terms *)
(* of max_task_id alone: the linear search of mem_alloc and the counter    *)
(* run in step, so task t owns block t for as long as there are blocks.    *)
(***************************************************************************)
EXTENDS NavilKernel, TLAPS

(* Stack blocks are handed out in order, one per create. *)
BlocksInOrder ==
  phase # "reset" => \A b \in Block : is_used[b] <=> b <= max_task_id

(* The TCBs filled in are those with a block; each is on its own block.    *)
TCBsInOrder ==
  \A t \in Task :
    /\ tcb[t].cpsr \in {"null", "usr"}
    /\ tcb[t].pc # "main"
    /\ tcb[t].cpsr = "null" => tcb[t].pc = "null"
    /\ tcb[t].cpsr = "usr" <=> /\ phase # "reset"
                               /\ t <= max_task_id
                               /\ t < MAXMEMBLK
    /\ tcb[t].cpsr = "usr" /\ ~ (phase = "task" /\ t = current)
         => tcb[t].sp = t + 1

PhaseInv ==
  /\ phase # "reset" => max_task_id < MAXCREATE
  /\ phase = "idle" => /\ max_task_id >= 0
                       /\ current = DUMMY
                       /\ current_index = -1
  /\ phase = "task" => /\ max_task_id >= 0
                       /\ current = current_index
                       /\ next = current_index
                       /\ current \in Task
                       /\ current < MAXMEMBLK
                       /\ current <= max_task_id
                       /\ cpu.cpsr = "usr"
                       /\ cpu.pc # "main"
                       /\ cpu.sp = current + 1
  /\ phase = "panic" => max_task_id = -1
  /\ phase = "user" /\ max_task_id >= MAXTASKNUM => max_task_id >= MAXMEMBLK
  /\ phase = "wild" => PastCapacity

IInv == TypeOK /\ BlocksInOrder /\ TCBsInOrder /\ PhaseInv

-----------------------------------------------------------------------------
(* The pieces of TypeOK that the cases below rebuild. *)

(* The registers of every kind hold values of their kind. *)
LEMMA ContextsTyped ==
  /\ ZeroContext \in Context
  /\ MainContext \in Context
BY KernelAssumption DEF ZeroContext, MainContext, Context, SVCSTACK

(* Filling in a TCB (task_create) keeps the table of contexts typed. *)
LEMMA NewTCBTyped ==
  ASSUME tcb \in [Task \cup {DUMMY} -> Context],
         NEW t \in Task, NEW b \in Block, NewTCB(t, b)
  PROVE  /\ tcb' \in [Task \cup {DUMMY} -> Context]
         /\ tcb'[t] = [tcb[t] EXCEPT !.cpsr = "usr", !.sp = b + 1,
                                     !.pc = "entry"]
         /\ \A u \in Task \ {t} : tcb'[u] = tcb[u]
<1>1. t \in Task \cup {DUMMY} /\ tcb[t] \in Context
  OBVIOUS
<1>2. b + 1 \in 0 .. SVCSTACK
  BY KernelAssumption DEF Block, SVCSTACK
<1>3. [tcb[t] EXCEPT !.cpsr = "usr", !.sp = b + 1, !.pc = "entry"] \in Context
  BY <1>1, <1>2 DEF Context
<1>4. tcb' = [tcb EXCEPT ![t] = [tcb[t] EXCEPT !.cpsr = "usr", !.sp = b + 1,
                                               !.pc = "entry"]]
  BY <1>1 DEF NewTCB
<1> QED
  BY <1>1, <1>3, <1>4

(* mem_alloc's linear search: blocks in use are the first ones, so the     *)
(* block found is the one with the number of the task being created.       *)
LEMMA FirstFreeInOrder ==
  ASSUME IInv, phase = "user", FreeBlock # {}
  PROVE  /\ FirstFree \in Block
         /\ FirstFree = max_task_id + 1
<1>1. \A b \in Block : b \in FreeBlock <=> b > max_task_id
  BY DEF IInv, TypeOK, BlocksInOrder, FreeBlock, Block
<1>2. max_task_id \in Int /\ max_task_id >= -1
  BY KernelAssumption DEF IInv, TypeOK
<1>3. max_task_id + 1 \in Block
  <2>1. PICK c \in Block : c > max_task_id
    BY <1>1 DEF FreeBlock
  <2> QED
    BY <1>2, <2>1, KernelAssumption DEF Block
<1>4. /\ max_task_id + 1 \in FreeBlock
      /\ \A c \in FreeBlock : max_task_id + 1 <= c
  BY <1>1, <1>2, <1>3 DEF FreeBlock, Block
<1>5. /\ FirstFree \in FreeBlock
      /\ \A c \in FreeBlock : FirstFree <= c
  BY <1>4 DEF FirstFree
<1>6. FirstFree \in Int
  BY <1>5 DEF FreeBlock, Block
<1> QED
  BY <1>2, <1>4, <1>5, <1>6 DEF FreeBlock

-----------------------------------------------------------------------------
(* One lemma per handler: it preserves the inductive invariant. *)

LEMMA InitInv == Init => IInv
<1> SUFFICES ASSUME Init PROVE IInv
  OBVIOUS
<1>1. TypeOK
  BY ContextsTyped, KernelAssumption DEF Init, TypeOK, Phase, NULL, DUMMY
<1>2. BlocksInOrder /\ PhaseInv
  BY DEF Init, BlocksInOrder, PhaseInv
<1>3. TCBsInOrder
  BY DEF Init, TCBsInOrder, ZeroContext
<1> QED
  BY <1>1, <1>2, <1>3 DEF IInv

LEMMA BootInv ==
  ASSUME IInv, Boot
  PROVE  IInv'
<1> USE DEF IInv
<1>1. CASE navilnux_init
  <2>0. \A t \in Task \cup {DUMMY} : tcb'[t] \in Context
    <3> SUFFICES ASSUME NEW t \in Task \cup {DUMMY} PROVE tcb'[t] \in Context
      OBVIOUS
    <3>1. tcb[t] \in Context
      BY DEF TypeOK
    <3>2. [tcb[t] EXCEPT !.cpsr = "null", !.pc = "null"] \in Context
      BY <3>1 DEF Context
    <3>3. tcb'[t] = IF t = DUMMY THEN tcb[t]
                    ELSE [tcb[t] EXCEPT !.cpsr = "null", !.pc = "null"]
      BY <1>1 DEF navilnux_init, task_init
    <3> QED
      BY <3>1, <3>2, <3>3
  <2>a. tcb' \in [Task \cup {DUMMY} -> Context]
    BY <1>1, <2>0 DEF navilnux_init, task_init
  <2>b. is_used' \in [Block -> BOOLEAN]
    BY <1>1 DEF navilnux_init, mem_init
  <2>c. /\ phase' = "user" /\ max_task_id' = -1 /\ tick' = 0
        /\ UNCHANGED <<cpu, current, next, current_index>>
    BY <1>1 DEF navilnux_init, task_init
  <2>1. TypeOK'
    BY <2>a, <2>b, <2>c, KernelAssumption DEF TypeOK, Phase
  <2>2. \A t \in Task : tcb'[t].cpsr = "null" /\ tcb'[t].pc = "null"
    <3> SUFFICES ASSUME NEW t \in Task
                 PROVE tcb'[t].cpsr = "null" /\ tcb'[t].pc = "null"
      OBVIOUS
    <3>1. t # DUMMY /\ tcb[t] \in Context
      BY DEF TypeOK, Task, DUMMY
    <3>2. tcb'[t] = [tcb[t] EXCEPT !.cpsr = "null", !.pc = "null"]
      BY <1>1, <3>1 DEF navilnux_init, task_init
    <3> QED
      BY <3>1, <3>2 DEF Context
  <2>3. max_task_id' = -1 /\ phase' = "user"
        /\ is_used' = [b \in Block |-> FALSE]
    BY <1>1 DEF navilnux_init, task_init, mem_init
  <2>4. TCBsInOrder'
    BY <2>2, <2>3 DEF TCBsInOrder, Task
  <2>5. BlocksInOrder' /\ PhaseInv'
    BY <2>3, KernelAssumption DEF BlocksInOrder, PhaseInv, Block
  <2> QED
    BY <2>1, <2>4, <2>5
<1>2. CASE sched_init
  <2>1. TypeOK'
    BY <1>2, KernelAssumption
    DEF sched_init, TypeOK, PhaseInv, Phase, NULL, DUMMY
  <2>2. BlocksInOrder' /\ TCBsInOrder'
    BY <1>2 DEF sched_init, BlocksInOrder, TCBsInOrder
  <2>3. PhaseInv'
    BY <1>2, KernelAssumption DEF sched_init, TypeOK, PhaseInv
  <2> QED
    BY <2>1, <2>2, <2>3
<1>3. CASE panic
  <2>1. TypeOK' /\ BlocksInOrder' /\ PhaseInv'
    BY <1>3 DEF panic, TypeOK, Phase, BlocksInOrder, PhaseInv
  <2>2. max_task_id = -1
    BY <1>3 DEF panic, PhaseInv
  <2>3. TCBsInOrder'
    BY <1>3, <2>2 DEF panic, TCBsInOrder, Task
  <2> QED
    BY <2>1, <2>3
<1> QED
  BY <1>1, <1>2, <1>3 DEF Boot

LEMMA CreateInv ==
  ASSUME IInv, task_create
  PROVE  IInv'
<1> USE DEF IInv
<1>0. /\ phase = "user"
      /\ max_task_id' = max_task_id + 1
      /\ max_task_id \in Int /\ max_task_id >= -1
      /\ max_task_id' \in -1 .. MAXCREATE /\ max_task_id' < MAXCREATE
      /\ UNCHANGED <<cpu, current, next, current_index, tick>>
  BY KernelAssumption
  DEF task_create, CreateTooMany, CreateNoStack, CreateTask,
      TakeIndex, TypeOK
<1>1. CASE CreateTooMany
  <2>1. TypeOK'
    BY <1>0, <1>1 DEF CreateTooMany, TypeOK
  <2>2. max_task_id >= MAXTASKNUM /\ max_task_id >= MAXMEMBLK
    BY <1>0, <1>1, KernelAssumption DEF CreateTooMany, PhaseInv
  <2>3. BlocksInOrder'
    BY <1>0, <1>1, <2>2, KernelAssumption
    DEF CreateTooMany, BlocksInOrder, Block
  <2>4. TCBsInOrder'
    BY <1>0, <1>1, <2>2, KernelAssumption
    DEF CreateTooMany, TCBsInOrder, Task
  <2>5. PhaseInv'
    BY <1>0, <1>1, <2>2, KernelAssumption DEF CreateTooMany, PhaseInv
  <2> QED
    BY <2>1, <2>3, <2>4, <2>5
<1>2. CASE CreateNoStack
  <2>1. TypeOK'
    BY <1>0, <1>2 DEF CreateNoStack, TypeOK
  <2>2. \A b \in Block : b <= max_task_id
    BY <1>0, <1>2 DEF CreateNoStack, FreeBlock, BlocksInOrder, TypeOK
  <2>3. max_task_id >= MAXMEMBLK - 1
    BY <1>0, <2>2, KernelAssumption DEF Block
  <2>4. BlocksInOrder'
    BY <1>0, <1>2, <2>3, KernelAssumption
    DEF CreateNoStack, BlocksInOrder, Block
  <2>5. TCBsInOrder'
    BY <1>0, <1>2, <2>3, KernelAssumption
    DEF CreateNoStack, TCBsInOrder, Task
  <2>6. PhaseInv'
    BY <1>0, <1>2, <2>3, KernelAssumption DEF CreateNoStack, PhaseInv
  <2> QED
    BY <2>1, <2>4, <2>5, <2>6
<1>3. CASE CreateTask /\ max_task_id' < MAXTASKNUM
  <2>1. FirstFree \in Block /\ FirstFree = max_task_id + 1
    BY <1>0, <1>3, FirstFreeInOrder DEF CreateTask
  <2>2. max_task_id' \in Task
    BY <1>0, <1>3, KernelAssumption DEF CreateTask, Task
  <2>3. /\ tcb' \in [Task \cup {DUMMY} -> Context]
        /\ tcb'[max_task_id'] =
             [tcb[max_task_id'] EXCEPT !.cpsr = "usr", !.sp = FirstFree + 1,
                                       !.pc = "entry"]
        /\ \A u \in Task \ {max_task_id'} : tcb'[u] = tcb[u]
    <3> HIDE DEF IInv
    <3>1. NewTCB(max_task_id', FirstFree)
      BY <1>3 DEF CreateTask
    <3>2. tcb \in [Task \cup {DUMMY} -> Context]
      BY DEF IInv, TypeOK
    <3>3. \A t \in Task, b \in Block : NewTCB(t, b) =>
            /\ tcb' \in [Task \cup {DUMMY} -> Context]
            /\ tcb'[t] = [tcb[t] EXCEPT !.cpsr = "usr", !.sp = b + 1,
                                        !.pc = "entry"]
            /\ \A u \in Task \ {t} : tcb'[u] = tcb[u]
      BY <3>2, NewTCBTyped
    <3> QED
      BY <2>1, <2>2, <3>1, <3>3
  <2>4. TypeOK'
    BY <1>0, <1>3, <2>3 DEF CreateTask, mem_alloc, TypeOK
  <2>5. BlocksInOrder'
    BY <1>0, <1>3, <2>1 DEF CreateTask, mem_alloc, BlocksInOrder, TypeOK, Block
  <2>6. TCBsInOrder'
    <3> SUFFICES ASSUME NEW t \in Task PROVE
          /\ tcb'[t].cpsr \in {"null", "usr"}
          /\ tcb'[t].pc # "main"
          /\ tcb'[t].cpsr = "null" => tcb'[t].pc = "null"
          /\ tcb'[t].cpsr = "usr" <=> t <= max_task_id' /\ t < MAXMEMBLK
          /\ tcb'[t].cpsr = "usr" => tcb'[t].sp = t + 1
      BY <1>0, <1>3 DEF CreateTask, TCBsInOrder
    <3>1. CASE t = max_task_id'
      <4>1. /\ tcb'[t].cpsr = "usr" /\ tcb'[t].pc = "entry"
            /\ tcb'[t].sp = FirstFree + 1
        BY <2>3, <3>1 DEF TypeOK, Context
      <4> QED
        BY <1>0, <2>1, <3>1, <4>1, KernelAssumption DEF Block
    <3>2. CASE t # max_task_id'
      BY <1>0, <2>3, <3>2 DEF TCBsInOrder, Task
    <3> QED
      BY <3>1, <3>2
  <2>7. PhaseInv'
    BY <1>0, <1>3, KernelAssumption DEF CreateTask, PhaseInv
  <2> QED
    BY <2>4, <2>5, <2>6, <2>7
<1>4. CASE CreateTask /\ ~ max_task_id' < MAXTASKNUM
  <2>1. FirstFree \in Block /\ FirstFree = max_task_id + 1
    BY <1>0, <1>4, FirstFreeInOrder DEF CreateTask
  <2>2. TypeOK'
    BY <1>0, <1>4 DEF CreateTask, mem_alloc, TypeOK, Phase
  <2>3. BlocksInOrder'
    BY <1>0, <1>4, <2>1
    DEF CreateTask, mem_alloc, BlocksInOrder, TypeOK, Block
  <2>4. TCBsInOrder'
    BY <1>0, <1>4, KernelAssumption DEF CreateTask, TCBsInOrder, Task
  <2>5. PhaseInv'
    BY <1>0, <1>4, KernelAssumption DEF CreateTask, PhaseInv, PastCapacity
  <2> QED
    BY <2>2, <2>3, <2>4, <2>5
<1> QED
  BY <1>1, <1>2, <1>3, <1>4 DEF task_create

(* LoadContext, while no TCB of a task holds main's mode: a task is        *)
(* resumed, or the processor goes where no task is.                        *)
LEMMA LoadsTask ==
  ASSUME LoadContext,
         tcb' \in [Task \cup {DUMMY} -> Context],
         \A t \in Task : tcb'[t].cpsr \in {"null", "usr"},
         next' \in Nat
  PROVE  IF next' \in Task /\ tcb'[next'].cpsr = "usr"
         THEN cpu' = tcb'[next'] /\ phase' = "task"
         ELSE cpu' = cpu /\ phase' = "wild"
<1>1. next' \in DOMAIN tcb' <=> next' \in Task
  BY DEF Task, DUMMY
<1>. QED
  BY <1>1 DEF LoadContext

(* A context switch out of main or out of a task whose registers are regs. *)
LEMMA SwitchInv ==
  ASSUME IInv,
         NEW regs \in Context,
         Switch(regs),
         tick' \in 0 .. TICKMOD - 1,
         \/ phase = "idle"
         \/ /\ phase = "task"
            /\ regs.cpsr = "usr"
            /\ regs.pc # "main"
            /\ regs.sp = current + 1
  PROVE  IInv'
<1> USE DEF IInv
<1>1. /\ max_task_id \in Int /\ max_task_id >= 0
      /\ max_task_id <= MAXCREATE - 1
      /\ current_index \in Int /\ current_index >= -1
      /\ current = current_index
      /\ phase # "reset"
  BY KernelAssumption DEF TypeOK, PhaseInv, DUMMY
<1>2. /\ current_index' \in 0 .. max_task_id
      /\ next' = current_index'
      /\ current' = current_index'
  BY <1>1 DEF Switch, scheduler
<1>3. UNCHANGED <<max_task_id, is_used>>
  BY DEF Switch
<1>4. tcb' \in [Task \cup {DUMMY} -> Context]
  BY DEF Switch, SaveContext, TypeOK
<1>5. /\ \A t \in Task : t # current => tcb'[t] = tcb[t]
      /\ current \in Task => tcb'[current] = regs
  BY DEF Switch, SaveContext, TypeOK
<1>6. \A t \in Task : /\ tcb'[t].cpsr = tcb[t].cpsr
                      /\ tcb'[t].pc # "main"
                      /\ tcb'[t].cpsr = "null" => tcb'[t].pc = "null"
                      /\ tcb'[t].cpsr = "usr" => tcb'[t].sp = t + 1
  <2> SUFFICES ASSUME NEW t \in Task PROVE
        /\ tcb'[t].cpsr = tcb[t].cpsr
        /\ tcb'[t].pc # "main"
        /\ tcb'[t].cpsr = "null" => tcb'[t].pc = "null"
        /\ tcb'[t].cpsr = "usr" => tcb'[t].sp = t + 1
    OBVIOUS
  <2>1. CASE t # current
    BY <1>5, <2>1 DEF TCBsInOrder
  <2>2. CASE t = current
    <3>1. phase = "task"
      BY <2>2 DEF PhaseInv, Task, DUMMY
    <3>2. tcb[t].cpsr = "usr"
      BY <1>1, <2>2, <3>1 DEF PhaseInv, TCBsInOrder
    <3> QED
      BY <1>5, <2>2, <3>1, <3>2
  <2> QED
    BY <2>1, <2>2
<1>7. \/ /\ next' \in Task
         /\ next' < MAXMEMBLK
         /\ phase' = "task"
         /\ cpu' = tcb'[next']
         /\ tcb'[next'].cpsr = "usr"
      \/ /\ next' >= MAXTASKNUM \/ next' >= MAXMEMBLK
         /\ phase' = "wild"
         /\ cpu' = cpu
  <2>0. IF next' \in Task /\ tcb'[next'].cpsr = "usr"
        THEN cpu' = tcb'[next'] /\ phase' = "task"
        ELSE cpu' = cpu /\ phase' = "wild"
    <3>1. \A t \in Task : tcb'[t].cpsr \in {"null", "usr"}
      BY <1>6 DEF TCBsInOrder
    <3>2. next' \in Nat /\ LoadContext
      BY <1>1, <1>2 DEF Switch
    <3> QED
      BY <1>4, <3>1, <3>2, LoadsTask
  <2>1. CASE next' \in Task /\ tcb'[next'].cpsr = "usr"
    <3>1. next' < MAXMEMBLK
      BY <1>6, <2>1 DEF TCBsInOrder
    <3> QED
      BY <2>0, <2>1, <3>1
  <2>2. CASE ~ (next' \in Task /\ tcb'[next'].cpsr = "usr")
    <3>1. next' >= MAXTASKNUM \/ next' >= MAXMEMBLK
      BY <1>1, <1>2, <1>6, <2>2, KernelAssumption DEF TCBsInOrder, Task
    <3> QED
      BY <2>0, <2>2, <3>1
  <2> QED
    BY <2>1, <2>2
<1>8. cpu' \in Context
  BY <1>4, <1>7 DEF TypeOK
<1>9. TypeOK'
  <2>1. current_index' \in 0 .. MAXCREATE - 1
    BY <1>1, <1>2, KernelAssumption
  <2> QED
    BY <1>2, <1>3, <1>4, <1>7, <1>8, <2>1, KernelAssumption
    DEF TypeOK, Phase, NULL
<1>10. BlocksInOrder'
  BY <1>1, <1>3 DEF BlocksInOrder
<1>11. TCBsInOrder'
  BY <1>1, <1>3, <1>6, <1>7 DEF TCBsInOrder
<1>12. PhaseInv'
  BY <1>1, <1>2, <1>3, <1>6, <1>7, KernelAssumption
  DEF PhaseInv, PastCapacity, Task
<1> QED
  BY <1>9, <1>10, <1>11, <1>12

(* The running task changes some of its registers and nothing else moves. *)
LEMMA OwnRegistersInv ==
  ASSUME IInv,
         phase = "task",
         cpu' \in Context,
         cpu'.cpsr = cpu.cpsr, cpu'.sp = cpu.sp, cpu'.pc = "body",
         UNCHANGED <<phase, max_task_id, is_used, tcb, current, next,
                     current_index, tick>>
  PROVE  IInv'
<1>1. TypeOK' /\ BlocksInOrder' /\ TCBsInOrder'
  BY DEF IInv, TypeOK, BlocksInOrder, TCBsInOrder
<1>2. PhaseInv'
  BY DEF IInv, PhaseInv
<1> QED
  BY <1>1, <1>2 DEF IInv

(* The registers a task may leave in its TCB. *)
LEMMA YieldTyped ==
  ASSUME cpu \in Context
  PROVE  /\ YieldContext \in Context
         /\ YieldContext.cpsr = cpu.cpsr
         /\ YieldContext.sp = cpu.sp
         /\ YieldContext.pc = "body"
         /\ YieldContext = [cpu EXCEPT !.r10 = SYS_CALLSCHED, !.pc = "body"]
BY DEF YieldContext, Context

(* What system calls and the task itself do to its registers. *)
LEMMA OwnRegisters ==
  ASSUME cpu \in Context, navilnux_swiHandler \/ UserStep
  PROVE  /\ phase = "task"
         /\ cpu' \in Context
         /\ cpu'.cpsr = cpu.cpsr /\ cpu'.sp = cpu.sp /\ cpu'.pc = "body"
         /\ UNCHANGED <<phase, max_task_id, is_used, tcb, current, next,
                        current_index, tick>>
<1>1. CASE navilnux_swiHandler
  <2>1. PICK v \in Val : cpu' = [cpu EXCEPT !.r0 = v, !.pc = "body"]
    BY <1>1 DEF navilnux_swiHandler
  <2>. QED BY <1>1, <2>1 DEF navilnux_swiHandler, Context
<1>2. CASE UserStep
  <2>1. PICK r \in {"r4", "r10"}, v \in Val :
               cpu' = [cpu EXCEPT ![r] = v, !.pc = "body"]
    BY <1>2 DEF UserStep
  <2>2. \/ cpu' = [cpu EXCEPT !.r4 = v, !.pc = "body"]
        \/ cpu' = [cpu EXCEPT !.r10 = v, !.pc = "body"]
    BY <2>1
  <2>3. /\ cpu' \in Context
        /\ cpu'.cpsr = cpu.cpsr /\ cpu'.sp = cpu.sp /\ cpu'.pc = "body"
    BY <2>2 DEF Context
  <2>. QED BY <1>2, <2>3 DEF UserStep
<1>. QED
  BY <1>1, <1>2

LEMMA StepInv ==
  ASSUME IInv, [Next]_vars
  PROVE  IInv'
<1>0. cpu \in Context /\ tick \in 0 .. TICKMOD - 1
  BY DEF IInv, TypeOK
<1>1. CASE Boot
  BY <1>1, BootInv
<1>2. CASE task_create
  BY <1>2, CreateInv
<1>3. CASE irqHandler
  <2>1. Switch(cpu) /\ phase \in {"idle", "task"}
    BY <1>3 DEF irqHandler
  <2>2. tick' \in 0 .. TICKMOD - 1
    BY <1>0, <1>3, KernelAssumption DEF irqHandler
  <2>3. phase = "task" => /\ cpu.cpsr = "usr"
                          /\ cpu.pc # "main"
                          /\ cpu.sp = current + 1
    BY DEF IInv, PhaseInv
  <2> QED
    BY <1>0, <2>1, <2>2, <2>3, SwitchInv
<1>4. CASE sys_scheduler
  <2>1. Switch(YieldContext) /\ phase = "task" /\ tick' = tick
    BY <1>4 DEF sys_scheduler
  <2>2. cpu.cpsr = "usr" /\ cpu.sp = current + 1
    BY <2>1 DEF IInv, PhaseInv
  <2>3. /\ YieldContext \in Context
        /\ YieldContext.cpsr = "usr"
        /\ YieldContext.pc # "main"
        /\ YieldContext.sp = current + 1
    BY <1>0, <2>2, YieldTyped
  <2> HIDE DEF YieldContext
  <2> QED
    BY <1>0, <2>1, <2>3, SwitchInv
<1>5. CASE navilnux_swiHandler \/ UserStep
  BY <1>0, <1>5, OwnRegisters, OwnRegistersInv
<1>6. CASE UNCHANGED vars
  <2>1. TypeOK'
    BY <1>6 DEF IInv, TypeOK, vars
  <2>2. BlocksInOrder' /\ TCBsInOrder'
    BY <1>6 DEF IInv, BlocksInOrder, TCBsInOrder, vars
  <2>3. PhaseInv'
    BY <1>6 DEF IInv, PhaseInv, PastCapacity, vars
  <2> QED
    BY <2>1, <2>2, <2>3 DEF IInv
<1> QED
  BY <1>1, <1>2, <1>3, <1>4, <1>5, <1>6 DEF Next, Wild

THEOREM Invariance == Spec => []IInv
BY InitInv, StepInv, PTL DEF Spec

-----------------------------------------------------------------------------
(* The safety properties of the runs, for every value of the constants. *)

(* Every variable of the kernel keeps its type. *)
THEOREM TypeCorrect == Spec => []TypeOK
BY Invariance, PTL DEF IInv

(* While tasks run, the pointers and the index of the scheduler name the   *)
(* same created task: an interrupt saves the registers where they belong.  *)
THEOREM SchedulerConsistent == Spec => []SchedulerAgrees
<1>1. IInv => SchedulerAgrees
  BY DEF IInv, PhaseInv, TCBsInOrder, SchedulerAgrees, Created
<1> QED
  BY <1>1, Invariance, PTL

(* No two tasks share a stack block, and the processor is on the stack of  *)
(* the running task.                                                       *)
THEOREM StacksNeverShared == Spec => []StacksDisjoint
<1>1. IInv => StacksDisjoint
  <2> SUFFICES ASSUME IInv, phase # "reset",
                      NEW t \in Created, NEW u \in Created
               PROVE  /\ StackOf(t) \in 1 .. MAXMEMBLK
                      /\ is_used[StackOf(t) - 1]
                      /\ t # u => StackOf(t) # StackOf(u)
    BY DEF StacksDisjoint
  <2>1. \A x \in Created : StackOf(x) = x + 1
    BY DEF IInv, TCBsInOrder, PhaseInv, Created, StackOf
  <2>2. /\ t \in Task /\ t < MAXMEMBLK /\ t <= max_task_id
        /\ u \in Task
    BY DEF IInv, TCBsInOrder, Created
  <2>3. t \in Block
    BY <2>2, KernelAssumption DEF Task, Block
  <2>4. is_used[t]
    BY <2>2, <2>3 DEF IInv, BlocksInOrder
  <2>5. StackOf(t) \in 1 .. MAXMEMBLK /\ StackOf(t) - 1 = t
    BY <2>1, <2>3, KernelAssumption DEF Block
  <2> QED
    BY <2>1, <2>2, <2>4, <2>5 DEF Task
<1> QED
  BY <1>1, Invariance, PTL

(* The registers of main: the processor has them until the first switch,   *)
(* and no TCB of a task ever does.                                         *)
MainInv ==
  /\ phase \in {"reset", "user", "idle", "panic"} => cpu = MainContext
  /\ phase = "task" => tcb[DUMMY] = MainContext /\ NotMain(cpu)
  /\ \A t \in Task : NotMain(tcb[t])

(* A switch saves main's registers if it is the first, and a task's        *)
(* otherwise; what it loads is a task's.                                   *)
LEMMA SwitchMain ==
  ASSUME IInv, IInv', MainInv,
         NEW regs \in Context,
         Switch(regs),
         \/ phase = "idle" /\ regs = cpu
         \/ phase = "task" /\ NotMain(regs)
  PROVE  MainInv'
<1>1. DUMMY \notin Task
  BY DEF Task, DUMMY
<1>2. /\ \A t \in Task \cup {DUMMY} :
           tcb'[t] = IF t = current THEN regs ELSE tcb[t]
      /\ phase' \in {"task", "wild"}
      /\ phase' = "task" => cpu' = tcb'[next']
  BY DEF Switch, SaveContext, LoadContext, IInv, TypeOK
<1>3. phase' = "task" => next' \in Task
  BY DEF IInv, PhaseInv
<1>4. CASE phase = "idle"
  <2>1. current = DUMMY /\ regs = MainContext
    BY <1>4 DEF IInv, PhaseInv, MainInv
  <2>2. tcb'[DUMMY] = MainContext /\ \A t \in Task : NotMain(tcb'[t])
    BY <1>1, <1>2, <2>1 DEF MainInv
  <2> QED
    BY <1>2, <1>3, <2>2 DEF MainInv
<1>5. CASE phase = "task"
  <2>1. current \in Task /\ NotMain(regs)
    BY <1>5 DEF IInv, PhaseInv
  <2>2. tcb'[DUMMY] = MainContext
    BY <1>1, <1>2, <1>5, <2>1 DEF MainInv
  <2>3. \A t \in Task : NotMain(tcb'[t])
    BY <1>2, <2>1 DEF MainInv
  <2> QED
    BY <1>2, <1>3, <2>2, <2>3 DEF MainInv
<1> QED
  BY <1>4, <1>5

(* What navilnux_init and task_create write in a TCB is not main's.        *)
LEMMA SetupMain ==
  ASSUME IInv, MainInv, Boot \/ task_create
  PROVE  MainInv'
<1>1. /\ cpu' = cpu /\ cpu = MainContext
      /\ phase' # "task"
  BY DEF Boot, navilnux_init, sched_init, panic, task_create, CreateTooMany,
         CreateNoStack, CreateTask, TakeIndex, MainInv
<1>2. ASSUME NEW t \in Task PROVE NotMain(tcb'[t])
  <2>1. tcb[t] \in Context /\ NotMain(tcb[t]) /\ t # DUMMY
    BY DEF IInv, TypeOK, MainInv, Task, DUMMY
  <2>2. CASE navilnux_init
    <3>1. tcb'[t] = [tcb[t] EXCEPT !.cpsr = "null", !.pc = "null"]
      BY <2>1, <2>2 DEF navilnux_init, task_init
    <3> QED
      BY <2>1, <3>1 DEF NotMain, Context
  <2>3. CASE CreateTask /\ max_task_id' < MAXTASKNUM
    <3>1. /\ phase = "user" /\ FreeBlock # {}
          /\ NewTCB(max_task_id', FirstFree)
          /\ max_task_id' = max_task_id + 1
      BY <2>3 DEF CreateTask, TakeIndex
    <3>2. FirstFree \in Block
      BY <3>1, FirstFreeInOrder
    <3>3. max_task_id' \in Task
      BY <2>3, <3>1, KernelAssumption DEF Task, IInv, TypeOK
    <3>4. \A u \in Task, b \in Block : NewTCB(u, b) =>
            /\ tcb'[u] = [tcb[u] EXCEPT !.cpsr = "usr", !.sp = b + 1,
                                        !.pc = "entry"]
            /\ \A v \in Task \ {u} : tcb'[v] = tcb[v]
      BY NewTCBTyped DEF IInv, TypeOK
    <3>5. \/ tcb'[t] = tcb[t]
          \/ tcb'[t] = [tcb[t] EXCEPT !.cpsr = "usr", !.sp = FirstFree + 1,
                                      !.pc = "entry"]
      BY <3>1, <3>2, <3>3, <3>4
    <3>6. FirstFree + 1 # SVCSTACK
      BY <3>2, KernelAssumption DEF Block, SVCSTACK
    <3> QED
      BY <2>1, <3>5, <3>6 DEF NotMain, Context
  <2>4. CASE ~ navilnux_init /\ ~ (CreateTask /\ max_task_id' < MAXTASKNUM)
    <3>1. tcb' = tcb
      BY <2>4
      DEF Boot, sched_init, panic, task_create, CreateTooMany, CreateNoStack,
          CreateTask
    <3> QED
      BY <2>1, <3>1
  <2> QED
    BY <2>2, <2>3, <2>4
<1> QED
  BY <1>1, <1>2 DEF MainInv

LEMMA StepMain ==
  ASSUME IInv, IInv', MainInv, [Next]_vars
  PROVE  MainInv'
<1>0. cpu \in Context
  BY DEF IInv, TypeOK
<1>1. CASE Boot \/ task_create
  BY <1>1, SetupMain
<1>2. CASE irqHandler
  <2>1. Switch(cpu) /\ phase \in {"idle", "task"}
    BY <1>2 DEF irqHandler
  <2>2. phase = "task" => NotMain(cpu)
    BY DEF MainInv
  <2> QED
    BY <1>0, <2>1, <2>2, SwitchMain
<1>3. CASE sys_scheduler
  <2>1. Switch(YieldContext) /\ phase = "task"
    BY <1>3 DEF sys_scheduler
  <2>2. YieldContext \in Context /\ NotMain(YieldContext)
    BY <1>0, <2>1, YieldTyped DEF MainInv, NotMain
  <2> QED
    BY <2>1, <2>2, SwitchMain
<1>4. CASE navilnux_swiHandler \/ UserStep
  <2>1. /\ phase = "task" /\ phase' = phase /\ tcb' = tcb
        /\ cpu'.cpsr = cpu.cpsr /\ cpu'.sp = cpu.sp /\ cpu'.pc = "body"
    BY <1>0, <1>4, OwnRegisters
  <2> QED
    BY <2>1 DEF MainInv, NotMain
<1>5. CASE UNCHANGED vars \/ Wild
  BY <1>5 DEF Wild, vars, MainInv
<1> QED
  BY <1>1, <1>2, <1>3, <1>4, <1>5 DEF Next

(* MainSetAside: what the first switch saved of main stays in dummyTCB,    *)
(* and no later one resumes it or mixes it into a task.                    *)
THEOREM MainNeverResumed == Spec => []MainSetAside
<1>1. Init => MainInv
  BY KernelAssumption
  DEF Init, MainInv, MainContext, ZeroContext, NotMain, SVCSTACK
<1>2. MainInv => MainSetAside
  BY DEF MainInv, MainSetAside
<1>3. IInv /\ IInv' /\ MainInv /\ [Next]_vars => MainInv'
  BY StepMain
<1> QED
  BY <1>1, <1>2, <1>3, Invariance, PTL DEF Spec

(* The scheduler never loads a TCB nobody filled in unless navilnux_user   *)
(* asked for more tasks than there are TCBs or stack blocks.               *)
THEOREM WildOnlyByExcess == Spec => []WildOnlyPastCapacity
<1>1. IInv => WildOnlyPastCapacity
  BY DEF IInv, PhaseInv, WildOnlyPastCapacity
<1> QED
  BY <1>1, Invariance, PTL

-----------------------------------------------------------------------------
(* The refinement: as long as the processor is where a task is, each       *)
(* handler is a step of the virtual processors or changes none of them.    *)

Ctx == [t \in Task |-> OwnContext(t)]

(* The tasks alive in the abstraction are those with a TCB and a block.    *)
LEMMA LiveTasks ==
  ASSUME IInv, phase # "reset"
  PROVE  \A t \in Task : t \in VCPU!Live <=> t <= max_task_id /\ t < MAXMEMBLK
<1> SUFFICES ASSUME NEW t \in Task
             PROVE  OwnContext(t).cpsr = "usr" <=>
                      t <= max_task_id /\ t < MAXMEMBLK
  BY DEF VCPU!Live
<1>1. tcb[t].cpsr = "usr" <=> t <= max_task_id /\ t < MAXMEMBLK
  BY DEF IInv, TCBsInOrder
<1>2. phase = "task" /\ t = current =>
        cpu.cpsr = "usr" /\ t <= max_task_id /\ t < MAXMEMBLK
  BY DEF IInv, PhaseInv
<1> QED
  BY <1>1, <1>2 DEF OwnContext

(* Saving the registers regs of whoever runs and loading the next TCB: the *)
(* task that ran, if any, sees regs as its own, the others see no change.  *)
LEMMA SwitchRefines ==
  ASSUME IInv, IInv',
         NEW regs \in Context,
         Switch(regs),
         phase \in {"idle", "task"},
         phase' # "wild"
  PROVE  /\ phase = "idle" => VCPU!Start
         /\ phase = "task" => /\ Run \in VCPU!Live
                              /\ Run' = VCPU!After(Run)
                              /\ Ctx' = [Ctx EXCEPT ![Run] = regs]
<1>1. /\ phase' = "task"
      /\ next' \in Task
      /\ cpu' = tcb'[next']
  <2>1. phase' = "task" /\ cpu' = tcb'[next']
    BY DEF Switch, LoadContext
  <2>2. next' \in Task
    BY <2>1 DEF IInv, PhaseInv
  <2> QED
    BY <2>1, <2>2
<1>2. /\ current' = (current_index + 1) % (max_task_id + 1)
      /\ next' = current'
      /\ max_task_id' = max_task_id
  BY DEF Switch, scheduler
<1>3. /\ max_task_id \in Int /\ max_task_id >= 0
      /\ current_index = current
      /\ current \in -1 .. max_task_id
  BY KernelAssumption DEF IInv, TypeOK, PhaseInv, DUMMY, Task
<1>8. current' \in Task /\ current' < MAXMEMBLK
  BY <1>1 DEF IInv, PhaseInv
<1>4. \A t \in Task : OwnContext(t)' = tcb'[t]
  BY <1>1, <1>2 DEF OwnContext
<1>5. \A t \in Task : tcb'[t] = IF t = current THEN regs ELSE tcb[t]
  BY DEF Switch, SaveContext, IInv, TypeOK
<1>6. CASE phase = "idle"
  <2>1. current = -1 /\ Run = DUMMY
    BY <1>6 DEF IInv, PhaseInv, Run, DUMMY
  <2>2. current' = 0
    BY <1>2, <1>3, <2>1
  <2>3. \A t \in Task : OwnContext(t)' = OwnContext(t)
    BY <1>4, <1>5, <1>6, <2>1 DEF OwnContext, Task
  <2>4. 0 \in Task
    BY KernelAssumption DEF Task
  <2>5. 0 \in VCPU!Live
    BY <1>3, <1>6, <1>8, <2>2, <2>4, LiveTasks
  <2>6. Run' = 0
    BY <1>1, <2>2 DEF Run
  <2>7. Ctx' = Ctx
    BY <2>3 DEF Ctx
  <2> QED
    BY <1>6, <2>1, <2>5, <2>6, <2>7 DEF VCPU!Start, Ctx
<1>7. CASE phase = "task"
  <2>1. Run = current /\ current \in Task
    BY <1>7 DEF Run, IInv, PhaseInv
  <2>2. \A t \in Task : t \in VCPU!Live <=> t <= max_task_id /\ t < MAXMEMBLK
    BY <1>7, LiveTasks
  <2>3. current' = IF current + 1 <= max_task_id THEN current + 1 ELSE 0
    BY <1>2, <1>3, <2>1 DEF Task
  <2>4. VCPU!After(current) = current'
    <3>1. CASE current + 1 <= max_task_id
      <4>1. current + 1 \in VCPU!Live
        BY <1>8, <2>2, <2>3, <3>1
      <4> QED
        BY <2>3, <3>1, <4>1 DEF VCPU!After
    <3>2. CASE ~ (current + 1 <= max_task_id)
      <4>1. current + 1 \notin VCPU!Live
        BY <2>2, <3>2 DEF VCPU!Live
      <4> QED
        BY <2>3, <3>2, <4>1 DEF VCPU!After
    <3> QED
      BY <3>1, <3>2
  <2>6. Run' = current'
    BY <1>1 DEF Run
  <2>7. \A t \in Task : OwnContext(t)' =
                          IF t = current THEN regs ELSE OwnContext(t)
    BY <1>4, <1>5, <1>7 DEF OwnContext
  <2>8. Ctx' = [Ctx EXCEPT ![Run] = regs]
    BY <2>1, <2>7 DEF Ctx
  <2>9. current \in VCPU!Live
    BY <1>7, <2>1, <2>2 DEF IInv, PhaseInv
  <2> QED
    BY <1>7, <2>1, <2>4, <2>6, <2>8, <2>9
<1> QED
  BY <1>6, <1>7

(* A step in which only the running task's registers change. *)
LEMMA ComputeRefines ==
  ASSUME IInv,
         phase = "task",
         cpu'.cpsr = cpu.cpsr, cpu'.sp = cpu.sp, cpu'.pc = "body",
         UNCHANGED <<phase, tcb, current>>
  PROVE  VCPU!Compute
<1>1. /\ current \in Task
      /\ current <= max_task_id /\ current < MAXMEMBLK
      /\ cpu.cpsr = "usr"
      /\ Run = current /\ Run' = current
  BY DEF IInv, PhaseInv, Run
<1>2. current \in VCPU!Live
  BY <1>1, LiveTasks
<1>3. /\ Ctx[current] = cpu
      /\ Ctx'[current] = cpu'
  BY <1>1 DEF Ctx, OwnContext
<1>4. Ctx' = [Ctx EXCEPT ![current] = Ctx'[current]]
  BY <1>1 DEF Ctx, OwnContext
<1> QED
  BY <1>1, <1>2, <1>3, <1>4 DEF VCPU!Compute, Ctx

(* task_create gives a new task a context and a stack nobody else has.     *)
LEMMA CreateRefines ==
  ASSUME IInv, IInv', CreateTask, phase' # "wild"
  PROVE  VCPU!Setup
<1>1. /\ phase = "user"
      /\ max_task_id' = max_task_id + 1
      /\ max_task_id \in Int /\ max_task_id >= -1
      /\ max_task_id' < MAXTASKNUM
  BY KernelAssumption DEF IInv, TypeOK, CreateTask, TakeIndex
<1>2. max_task_id' \in Task
  BY <1>1, KernelAssumption DEF Task
<1>3. CreateTask
  OBVIOUS
<1>4. FirstFree \in Block /\ FirstFree = max_task_id + 1
  BY <1>1, <1>3, FirstFreeInOrder DEF CreateTask
<1>5. /\ tcb'[max_task_id'].cpsr = "usr"
      /\ tcb'[max_task_id'].pc = "entry"
      /\ tcb'[max_task_id'].sp = FirstFree + 1
      /\ \A u \in Task \ {max_task_id'} : tcb'[u] = tcb[u]
  <2>1. \A t \in Task, b \in Block : NewTCB(t, b) =>
          /\ tcb'[t] = [tcb[t] EXCEPT !.cpsr = "usr", !.sp = b + 1,
                                      !.pc = "entry"]
          /\ \A u \in Task \ {t} : tcb'[u] = tcb[u]
    BY NewTCBTyped DEF IInv, TypeOK
  <2>2. /\ tcb'[max_task_id'] =
             [tcb[max_task_id'] EXCEPT !.cpsr = "usr", !.sp = FirstFree + 1,
                                       !.pc = "entry"]
        /\ \A u \in Task \ {max_task_id'} : tcb'[u] = tcb[u]
    BY <1>1, <1>2, <1>3, <1>4, <2>1 DEF CreateTask
  <2>3. tcb[max_task_id'] \in Context
    BY <1>2 DEF IInv, TypeOK
  <2> QED
    BY <2>2, <2>3 DEF Context
<1>6. phase' = "user"
  BY <1>1, <1>3 DEF CreateTask
<1>7. \A t \in Task : OwnContext(t) = tcb[t] /\ OwnContext(t)' = tcb'[t]
  BY <1>1, <1>6 DEF OwnContext
<1>8. \A t \in Task : t \in VCPU!Live <=> t <= max_task_id /\ t < MAXMEMBLK
  BY <1>1, LiveTasks
<1>9. \A u \in VCPU!Live : Ctx[u].sp = u + 1 /\ u <= max_task_id /\ u \in Task
  <2> SUFFICES ASSUME NEW u \in VCPU!Live
               PROVE  Ctx[u].sp = u + 1 /\ u <= max_task_id /\ u \in Task
    OBVIOUS
  <2>1. u \in Task /\ u <= max_task_id /\ tcb[u].cpsr = "usr"
    BY <1>7, <1>8 DEF VCPU!Live
  <2>2. tcb[u].sp = u + 1
    BY <1>1, <2>1 DEF IInv, TCBsInOrder
  <2> QED
    BY <1>7, <2>1, <2>2 DEF Ctx
<1>10. Run = DUMMY /\ Run' = DUMMY
  BY <1>1, <1>6 DEF Run
<1>11. Ctx' = [Ctx EXCEPT ![max_task_id'] = Ctx'[max_task_id']]
  BY <1>2, <1>5, <1>7 DEF Ctx
<1>12. /\ Ctx'[max_task_id'].cpsr = "usr"
       /\ Ctx'[max_task_id'].pc = "entry"
       /\ \A u \in VCPU!Live : Ctx[u].sp # Ctx'[max_task_id'].sp
  <2>1. Ctx'[max_task_id'] = tcb'[max_task_id']
    BY <1>2, <1>7 DEF Ctx
  <2>2. \A u \in VCPU!Live : u + 1 # FirstFree + 1
    BY <1>1, <1>4, <1>9 DEF Task
  <2> QED
    BY <1>5, <1>9, <2>1, <2>2
<1>13. max_task_id' \in Task \ VCPU!Live
  BY <1>1, <1>2, <1>8
<1> QED
  BY <1>10, <1>11, <1>12, <1>13 DEF VCPU!Setup, Ctx

LEMMA StepRefines ==
  ASSUME IInv, IInv', [Next]_vars, phase' # "wild"
  PROVE  [VCPU!Next]_<<Run, Ctx>>
<1>0. cpu \in Context
  BY DEF IInv, TypeOK
<1>1. CASE navilnux_init
  <2>1. \A t \in Task : tcb[t].cpsr = "null" /\ tcb[t].pc = "null"
    BY <1>1 DEF navilnux_init, IInv, TCBsInOrder
  <2>2. \A t \in Task : tcb'[t] = tcb[t]
    <3> SUFFICES ASSUME NEW t \in Task PROVE tcb'[t] = tcb[t]
      OBVIOUS
    <3>1. tcb[t] \in Context /\ t # DUMMY
      BY DEF IInv, TypeOK, Task, DUMMY
    <3>2. tcb'[t] = [tcb[t] EXCEPT !.cpsr = "null", !.pc = "null"]
      BY <1>1, <3>1 DEF navilnux_init, task_init
    <3> QED
      BY <2>1, <3>1, <3>2 DEF Context
  <2>3. phase = "reset" /\ phase' = "user"
    BY <1>1 DEF navilnux_init
  <2> QED
    BY <2>2, <2>3 DEF Run, Ctx, OwnContext
<1>2. CASE sched_init \/ panic
  BY <1>2 DEF sched_init, panic, Run, Ctx, OwnContext
<1>3. CASE task_create
  <2>1. CASE CreateTask
    BY <2>1, CreateRefines DEF VCPU!Next
  <2>2. CASE CreateTooMany \/ CreateNoStack
    BY <2>2 DEF CreateTooMany, CreateNoStack, TakeIndex, Run, Ctx, OwnContext
  <2> QED
    BY <1>3, <2>1, <2>2 DEF task_create
<1>4. CASE irqHandler
  <2>1. Switch(cpu) /\ phase \in {"idle", "task"}
    BY <1>4 DEF irqHandler
  <2>2. CASE phase = "idle"
    BY <1>0, <2>1, <2>2, SwitchRefines DEF VCPU!Next
  <2>3. CASE phase = "task"
    <3>1. /\ Run \in VCPU!Live
          /\ Run' = VCPU!After(Run)
          /\ Ctx' = [Ctx EXCEPT ![Run] = cpu]
      BY <1>0, <2>1, <2>3, SwitchRefines
    <3>2. Ctx[Run] = cpu /\ Run \in Task
      BY <2>3 DEF Ctx, Run, OwnContext, IInv, PhaseInv
    <3>3. Ctx' = Ctx
      BY <3>1, <3>2 DEF Ctx
    <3> QED
      BY <3>1, <3>3 DEF VCPU!Next, VCPU!Preempt, Ctx
  <2> QED
    BY <2>1, <2>2, <2>3
<1>5. CASE sys_scheduler
  <2>1. Switch(YieldContext) /\ phase = "task"
    BY <1>5 DEF sys_scheduler
  <2>2. /\ YieldContext \in Context
        /\ YieldContext = [cpu EXCEPT !.r10 = SYS_CALLSCHED, !.pc = "body"]
    BY <1>0, YieldTyped
  <2> HIDE DEF YieldContext
  <2>3. /\ Run \in VCPU!Live
        /\ Run' = VCPU!After(Run)
        /\ Ctx' = [Ctx EXCEPT ![Run] = YieldContext]
    BY <2>1, <2>2, SwitchRefines
  <2>4. Ctx[Run] = cpu /\ Run \in Task
    BY <2>1 DEF Ctx, Run, OwnContext, IInv, PhaseInv
  <2>5. Ctx' = [Ctx EXCEPT ![Run].r10 = SYS_CALLSCHED, ![Run].pc = "body"]
    BY <2>2, <2>3, <2>4 DEF Ctx
  <2> QED
    BY <2>3, <2>5 DEF VCPU!Next, VCPU!Yield, Ctx
<1>6. CASE navilnux_swiHandler
  <2>1. PICK v \in Val : cpu' = [cpu EXCEPT !.r0 = v, !.pc = "body"]
    BY <1>6 DEF navilnux_swiHandler
  <2>2. cpu'.cpsr = cpu.cpsr /\ cpu'.sp = cpu.sp /\ cpu'.pc = "body"
    BY <1>0, <2>1 DEF Context
  <2>3. VCPU!Compute
    BY <1>6, <2>2, ComputeRefines DEF navilnux_swiHandler
  <2> QED
    BY <2>3 DEF VCPU!Next
<1>7. CASE UserStep
  <2>1. PICK r \in {"r4", "r10"}, v \in Val :
               cpu' = [cpu EXCEPT ![r] = v, !.pc = "body"]
    BY <1>7 DEF UserStep
  <2>2. \/ cpu' = [cpu EXCEPT !.r4 = v, !.pc = "body"]
        \/ cpu' = [cpu EXCEPT !.r10 = v, !.pc = "body"]
    BY <2>1
  <2>3. cpu'.cpsr = cpu.cpsr /\ cpu'.sp = cpu.sp /\ cpu'.pc = "body"
    BY <1>0, <2>2 DEF Context
  <2>4. VCPU!Compute
    BY <1>7, <2>3, ComputeRefines DEF UserStep
  <2> QED
    BY <2>4 DEF VCPU!Next
<1>8. CASE UNCHANGED vars \/ Wild
  BY <1>8 DEF Wild, vars, Run, Ctx, OwnContext
<1> QED
  BY <1>1, <1>2, <1>3, <1>4, <1>5, <1>6, <1>7, <1>8 DEF Next, Boot

(* Whatever the interrupts and the yields do, every task computes as if it *)
(* had a processor of its own, up to r10 across a yield: no context is     *)
(* lost, mixed up or restarted, until creates that failed send the         *)
(* processor where no task is.                                             *)
THEOREM ImplementsVirtualCPU == Spec => VirtualCPUSpec
<1>1. Init => VCPU!Init
  BY DEF Init, ZeroContext, VCPU!Init, VCPU!Live, Run, OwnContext
<1>2. IInv /\ IInv' /\ [Next]_vars => [VCPU!Next \/ phase' = "wild"]_(VCPU!vars)
  BY StepRefines DEF VCPU!vars, Ctx
<1> QED
  BY <1>1, <1>2, Invariance, PTL DEF Spec, VirtualCPUSpec

-----------------------------------------------------------------------------
(* The part of EveryTaskRuns that does not need fairness: how many switches *)
(* away a task's turn is.                                                  *)
Turns(t) == IF t > current THEN t - current ELSE t + max_task_id + 1 - current

(* As long as tasks run, a task is max_task_id + 1 switches away from the  *)
(* processor at most, and each switch, by a tick or by a yield of whoever  *)
(* runs, is its turn or brings it nearer by one - or is the one that ends  *)
(* where no task is.  Nothing else moves the queue.                        *)
TurnsCome ==
  [][phase = "task" =>
       \A t \in Created :
         /\ Turns(t) \in 1 .. max_task_id + 1
         /\ \/ phase' = "wild"
            \/ phase' = "task" /\ current' = t
            \/ phase' = "task" /\ Turns(t)' = Turns(t) - 1
            \/ /\ phase' = "task" /\ current' = current
               /\ Turns(t)' = Turns(t)]_vars

LEMMA SwitchTurns ==
  ASSUME IInv, phase = "task", NEW regs \in Context, Switch(regs),
         NEW t \in Created
  PROVE  \/ phase' = "wild"
         \/ phase' = "task" /\ current' = t
         \/ phase' = "task" /\ Turns(t)' = Turns(t) - 1
<1>1. /\ max_task_id \in Nat /\ current \in 0 .. max_task_id
      /\ current = current_index
  BY DEF IInv, TypeOK, PhaseInv, Task
<1>2. t \in 0 .. max_task_id
  BY <1>1 DEF IInv, TCBsInOrder, Created, Task
<1>3. UNCHANGED max_task_id /\ phase' \in {"task", "wild"}
  BY DEF Switch, LoadContext
<1>4. current' = (current + 1) % (max_task_id + 1)
  BY <1>1 DEF Switch, scheduler
<1>5. CASE current < max_task_id
  <2>1. current' = current + 1
    BY <1>1, <1>4, <1>5
  <2>. QED BY <1>1, <1>2, <1>3, <1>5, <2>1 DEF Turns
<1>6. CASE current = max_task_id
  <2>1. current' = 0
    BY <1>1, <1>4, <1>6
  <2>. QED BY <1>1, <1>2, <1>3, <1>6, <2>1 DEF Turns
<1>. QED BY <1>1, <1>5, <1>6

(* TurnsCome: the round robin passes nobody over, whatever the tasks do.   *)
THEOREM NobodyPassedOver == Spec => TurnsCome
<1>1. ASSUME IInv, Next, phase = "task", NEW t \in Created
      PROVE  /\ Turns(t) \in 1 .. max_task_id + 1
             /\ \/ phase' = "wild"
                \/ phase' = "task" /\ current' = t
                \/ phase' = "task" /\ Turns(t)' = Turns(t) - 1
                \/ /\ phase' = "task" /\ current' = current
                   /\ Turns(t)' = Turns(t)
  <2>1. Turns(t) \in 1 .. max_task_id + 1
    <3>1. max_task_id \in Nat /\ current \in 0 .. max_task_id
      BY <1>1 DEF IInv, TypeOK, PhaseInv, Task
    <3>2. t \in 0 .. max_task_id
      BY <1>1, <3>1 DEF IInv, TCBsInOrder, Created, Task
    <3>. QED BY <3>1, <3>2 DEF Turns
  <2>2. CASE irqHandler
    <3>1. Switch(cpu) /\ cpu \in Context
      BY <1>1, <2>2 DEF irqHandler, IInv, TypeOK
    <3>. QED BY <1>1, <2>1, <3>1, SwitchTurns
  <2>3. CASE sys_scheduler
    <3>1. Switch(YieldContext) /\ YieldContext \in Context
      BY <1>1, <2>3, YieldTyped DEF sys_scheduler, IInv, TypeOK
    <3>. QED BY <1>1, <2>1, <3>1, SwitchTurns
  <2>4. CASE navilnux_swiHandler \/ UserStep
    <3>1. UNCHANGED <<phase, current, max_task_id>>
      BY <2>4 DEF navilnux_swiHandler, UserStep
    <3>. QED BY <1>1, <2>1, <3>1 DEF Turns
  <2>5. irqHandler \/ sys_scheduler \/ navilnux_swiHandler \/ UserStep
    BY <1>1
    DEF Next, Boot, navilnux_init, sched_init, panic, task_create,
        CreateTooMany, CreateNoStack, CreateTask, TakeIndex, Wild
  <2>. QED BY <2>2, <2>3, <2>4, <2>5
<1>2. IInv /\ [Next]_vars =>
        [phase = "task" =>
           \A t \in Created :
             /\ Turns(t) \in 1 .. max_task_id + 1
             /\ \/ phase' = "wild"
                \/ phase' = "task" /\ current' = t
                \/ phase' = "task" /\ Turns(t)' = Turns(t) - 1
                \/ /\ phase' = "task" /\ current' = current
                   /\ Turns(t)' = Turns(t)]_vars
  BY <1>1
<1> QED
  BY <1>2, Invariance, PTL DEF Spec, TurnsCome
=============================================================================
