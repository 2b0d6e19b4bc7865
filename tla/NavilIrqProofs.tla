--------------------------- MODULE NavilIrqProofs ---------------------------
(***************************************************************************)
(* Theorems about NavilIrq: the kernel with the interrupt of the switch,   *)
(* for every pool size, number of stack blocks, number of creates and      *)
(* value set.                                                              *)
(*                                                                         *)
(* NavilKernel's inductive invariant holds here too, except while a task   *)
(* runs stray: then the switch has interrupted main and no tick followed,  *)
(* the scheduler is where sched_init left it, only the processor moved.    *)
(***************************************************************************)
EXTENDS NavilIrq, NavilKernelProofs

(* A stray task is the first one, on its own stack. *)
StrayInv ==
  /\ TypeOK /\ BlocksInOrder /\ TCBsInOrder
  /\ max_task_id >= 0 /\ max_task_id < MAXCREATE
  /\ current_index = -1 /\ next = 0 /\ early
  /\ tcb[0].cpsr = "usr"
  /\ cpu.cpsr = "usr" /\ cpu.pc # "main" /\ cpu.sp = 1

(* Nobody begins before tasks run, and a task that has begun is at its     *)
(* entry no more, but for the one that ran stray.                          *)
EntryInv ==
  /\ phase = "idle" => next = 0
  /\ \A t \in Task : tcb[t].cpsr = "usr" => tcb[t].sp = t + 1
  /\ begun \subseteq Task
  /\ phase \notin {"task", "wild"} => begun = {} /\ again = {}
  /\ again # {} => early /\ again = {0}
  /\ phase = "task" =>
       \A t \in begun : OwnContext(t).pc = "entry" => early /\ t = 0

IrqInv == (IF Stray THEN StrayInv ELSE IInv) /\ EntryInv

-----------------------------------------------------------------------------
(* What holds either way. *)
LEMMA Common ==
  ASSUME IrqInv
  PROVE  /\ TypeOK /\ BlocksInOrder /\ TCBsInOrder
         /\ cpu \in Context /\ tcb \in [Task \cup {DUMMY} -> Context]
         /\ tick \in 0 .. TICKMOD - 1
         /\ 0 \in Task /\ DUMMY \notin Task
         /\ phase \in {"idle", "task"} => current \in Task \cup {DUMMY}
         /\ phase = "idle" => current = DUMMY
<1>1. TypeOK /\ BlocksInOrder /\ TCBsInOrder
  BY DEF IrqInv, StrayInv, IInv
<1>2. 0 \in Task /\ DUMMY \notin Task
  BY KernelAssumption DEF Task, DUMMY
<1>3. CASE Stray
  BY <1>1, <1>2, <1>3 DEF TypeOK, Stray
<1>4. CASE ~ Stray
  BY <1>1, <1>2, <1>4 DEF IrqInv, IInv, PhaseInv, TypeOK
<1>. QED
  BY <1>3, <1>4

(* A task that is not stray is navilnux_current and navilnux_next. *)
LEMMA Running ==
  ASSUME IrqInv, phase = "task", ~ Stray
  PROVE  /\ IInv
         /\ current \in Task /\ next = current /\ current_index = current
         /\ tcb[current].cpsr = "usr" /\ tcb[current].sp = current + 1
         /\ cpu.cpsr = "usr" /\ cpu.pc # "main" /\ cpu.sp = current + 1
         /\ OwnContext(current) = cpu
<1>1. IInv
  BY DEF IrqInv
<1>2. /\ current \in Task /\ next = current /\ current_index = current
      /\ current <= max_task_id /\ current < MAXMEMBLK
      /\ cpu.cpsr = "usr" /\ cpu.pc # "main" /\ cpu.sp = current + 1
  BY <1>1 DEF IInv, PhaseInv
<1>3. tcb[current].cpsr = "usr" /\ tcb[current].sp = current + 1
  BY <1>1, <1>2 DEF IInv, TCBsInOrder, IrqInv, EntryInv
<1>. QED
  BY <1>1, <1>2, <1>3 DEF OwnContext

(* The kernel's invariant rules out a stray task. *)
LEMMA NotStray == IInv => ~ Stray
BY KernelAssumption DEF IInv, PhaseInv, Stray, Task, DUMMY

(* The same of the state after a step. *)
LEMMA KernelNext ==
  ASSUME IInv', EntryInv'
  PROVE  IrqInv'
<1>1. ~ Stray'
  BY KernelAssumption DEF IInv, PhaseInv, Stray, Task, DUMMY
<1>. QED
  BY <1>1 DEF IrqInv

-----------------------------------------------------------------------------
(* Entries *)

(* Registers are saved for the task they belong to, and a context loaded:  *)
(* no task comes back to its entry.                                        *)
LEMMA SavedEntries ==
  ASSUME IrqInv, NEW regs \in Context, SaveContext(regs),
         phase \in {"idle", "task"},
         current \in Task => /\ regs.sp = current + 1
                             /\ regs.pc \in {cpu.pc, "body"},
         phase' \in {"task", "wild"},
         phase' = "task" => /\ next' \in Task
                            /\ cpu' = tcb'[next']
                            /\ current' \in {next', DUMMY},
         early => early',
         begun' \subseteq Task,
         again' # {} => early' /\ again' = {0},
         \A t \in begun' \ begun : \/ t = current /\ regs.pc = "body"
                                   \/ t = 0 /\ early'
  PROVE  EntryInv'
<1>1. /\ current \in Task \cup {DUMMY} /\ DUMMY \notin Task
      /\ \A t \in Task : tcb'[t] = IF t = current THEN regs ELSE tcb[t]
  BY Common DEF SaveContext
<1>2. ASSUME NEW t \in Task, tcb'[t].cpsr = "usr"
      PROVE  tcb'[t].sp = t + 1
  BY <1>1, <1>2 DEF IrqInv, EntryInv
<1>3. ASSUME phase' = "task", NEW t \in begun', OwnContext(t)'.pc = "entry"
      PROVE  early' /\ t = 0
  <2>1. t \in Task /\ OwnContext(t)' = tcb'[t]
    BY <1>1, <1>3 DEF OwnContext
  <2>2. CASE t \notin begun
    BY <1>1, <1>3, <2>1, <2>2
  <2>3. CASE t \in begun
    <3>1. phase = "task"
      BY <2>3 DEF IrqInv, EntryInv
    <3>2. OwnContext(t).pc = "entry"
      BY <1>1, <1>3, <2>1, <3>1 DEF OwnContext
    <3>. QED BY <2>3, <3>1, <3>2 DEF IrqInv, EntryInv
  <2>. QED BY <2>2, <2>3
<1>. QED
  BY <1>2, <1>3 DEF EntryInv

(* What TaskStep writes down. *)
LEMMA Begins ==
  ASSUME IrqInv, TaskStep
  PROVE  /\ phase = "task" /\ next \in Task /\ early' = early
         /\ begun \subseteq begun' /\ begun' \subseteq Task
         /\ again' # {} => early' /\ again' = {0}
         /\ \A t \in begun' \ begun : t = next
<1>1. phase = "task" /\ early' = early
  BY DEF TaskStep, sys_scheduler, navilnux_swiHandler, UserStep
<1>2. next \in Task
  BY <1>1, Running, Common DEF IrqInv, StrayInv
<1>3. begun \subseteq Task
  BY DEF IrqInv, EntryInv
<1>4. again' # {} => early' /\ again' = {0}
  <2>1. ASSUME cpu.pc = "entry", next \in begun PROVE early /\ next = 0
    <3>1. CASE Stray
      BY <3>1 DEF IrqInv, StrayInv
    <3>2. CASE ~ Stray
      BY <1>1, <2>1, <3>2, Running DEF IrqInv, EntryInv
    <3>. QED BY <3>1, <3>2
  <2>2. again # {} => early /\ again = {0}
    BY DEF IrqInv, EntryInv
  <2>. QED BY <1>1, <2>1, <2>2 DEF TaskStep
<1>5. begun' = IF cpu.pc = "entry" THEN begun \cup {next} ELSE begun
  BY DEF TaskStep
<1>. QED
  BY <1>1, <1>2, <1>3, <1>4, <1>5

(* A system call or a step of its own takes the task behind its entry. *)
LEMMA ComputedEntries ==
  ASSUME IrqInv, TaskStep, cpu'.pc = "body",
         UNCHANGED <<phase, tcb, current, next>>
  PROVE  EntryInv'
<1>1. /\ phase = "task" /\ next \in Task /\ early' = early
      /\ begun \subseteq begun' /\ begun' \subseteq Task
      /\ again' # {} => early' /\ again' = {0}
      /\ \A t \in begun' \ begun : t = next
  BY Begins
<1>2. ASSUME NEW t \in begun', OwnContext(t)'.pc = "entry"
      PROVE  early' /\ t = 0
  <2>1. t # current /\ OwnContext(t) = tcb[t] /\ OwnContext(t)' = tcb[t]
    BY <1>1, <1>2 DEF OwnContext
  <2>2. CASE t \in begun
    BY <1>1, <1>2, <2>1, <2>2 DEF IrqInv, EntryInv
  <2>3. CASE t \notin begun
    <3>1. t = next /\ Stray
      BY <1>1, <2>1, <2>3, Running
    <3>. QED BY <1>1, <3>1 DEF IrqInv, StrayInv
  <2>. QED BY <2>2, <2>3
<1>. QED
  BY <1>1, <1>2 DEF IrqInv, EntryInv

-----------------------------------------------------------------------------
(* Stray tasks *)

(* The first tick, or a yield, ends a stray run: the first task is loaded  *)
(* as it was before it, and from here on the kernel's invariant holds.     *)
LEMMA StraySwitch ==
  ASSUME IrqInv, Stray, NEW regs \in Context, Switch(regs),
         tick' \in 0 .. TICKMOD - 1
  PROVE  /\ IInv'
         /\ phase' = "task" /\ current' = 0 /\ next' = 0
         /\ cpu' = tcb'[0]
         /\ \A t \in Task : tcb'[t] = tcb[t]
<1>1. /\ TypeOK /\ BlocksInOrder /\ TCBsInOrder
      /\ max_task_id \in Nat /\ max_task_id < MAXCREATE
      /\ current_index = -1 /\ phase = "task" /\ current = DUMMY
      /\ tcb[0].cpsr = "usr"
  BY DEF IrqInv, StrayInv, Stray, TypeOK
<1>2. 0 \in Task /\ DUMMY \notin Task
  BY Common
<1>3. current_index' = 0 /\ next' = 0 /\ current' = 0
  BY <1>1 DEF Switch, scheduler
<1>4. /\ tcb' \in [Task \cup {DUMMY} -> Context]
      /\ \A t \in Task : tcb'[t] = tcb[t]
  BY <1>1, <1>2 DEF Switch, SaveContext, TypeOK
<1>5. cpu' = tcb'[0] /\ phase' = "task"
  BY <1>1, <1>2, <1>3, <1>4 DEF Switch, LoadContext
<1>6. UNCHANGED <<max_task_id, is_used>>
  BY DEF Switch
<1>7. TypeOK'
  BY <1>1, <1>2, <1>3, <1>4, <1>5, <1>6, KernelAssumption
  DEF TypeOK, Phase, NULL
<1>8. BlocksInOrder' /\ TCBsInOrder'
  BY <1>1, <1>2, <1>4, <1>5, <1>6 DEF BlocksInOrder, TCBsInOrder
<1>9. PhaseInv'
  <2>1. tcb[0].sp = 1 /\ 0 < MAXMEMBLK /\ tcb[0].pc # "main"
    BY <1>1, <1>2 DEF TCBsInOrder
  <2>. QED
    BY <1>1, <1>2, <1>3, <1>4, <1>5, <1>6, <2>1, KernelAssumption DEF PhaseInv
<1>. QED
  BY <1>3, <1>4, <1>5, <1>7, <1>8, <1>9 DEF IInv

(* The registers of a stray task. *)
LEMMA StrayCompute ==
  ASSUME IrqInv, Stray,
         cpu' \in Context,
         cpu'.cpsr = cpu.cpsr, cpu'.sp = cpu.sp, cpu'.pc = "body",
         UNCHANGED <<phase, max_task_id, is_used, tcb, current, next,
                     current_index, tick, early>>
  PROVE  StrayInv' /\ Stray'
BY DEF IrqInv, StrayInv, Stray, TypeOK, BlocksInOrder, TCBsInOrder

-----------------------------------------------------------------------------
(* Steps *)

LEMMA IrqInitInv == IrqInit => IrqInv
<1> SUFFICES ASSUME IrqInit PROVE IrqInv
  OBVIOUS
<1>1. IInv /\ ~ Stray
  BY InitInv, NotStray DEF IrqInit
<1>2. EntryInv
  BY DEF IrqInit, Init, EntryInv, ZeroContext
<1>. QED
  BY <1>1, <1>2 DEF IrqInv

(* Boot and task creation: no task runs yet. *)
LEMMA SetupEntries ==
  ASSUME IrqInv, IInv', Boot \/ task_create \/ Wild, UNCHANGED history
  PROVE  EntryInv'
<1>1. CASE Wild
  BY <1>1 DEF Wild, vars, history, IrqInv, EntryInv, OwnContext
<1>2. CASE Boot \/ task_create
  <2>1. phase \notin {"task", "wild"} /\ phase' # "task"
    BY <1>2
    DEF Boot, navilnux_init, sched_init, panic, task_create, CreateTooMany,
        CreateNoStack, CreateTask, TakeIndex
  <2>2. begun' = {} /\ again' = {}
    BY <2>1 DEF IrqInv, EntryInv, history
  <2>3. phase' = "idle" => next' = 0
    BY <1>2, <2>1
    DEF Boot, navilnux_init, sched_init, panic, task_create, CreateTooMany,
        CreateNoStack, CreateTask, TakeIndex
  <2>4. \A t \in Task : tcb'[t].cpsr = "usr" => tcb'[t].sp = t + 1
    BY <2>1 DEF IInv, TCBsInOrder
  <2>. QED BY <2>1, <2>2, <2>3, <2>4 DEF EntryInv
<1>. QED
  BY <1>1, <1>2

(* The timer, or a yield, with regs as the registers of whoever runs. *)
LEMMA SwitchStep ==
  ASSUME IrqInv, NEW regs \in Context, Switch(regs),
         tick' \in 0 .. TICKMOD - 1,
         phase \in {"idle", "task"},
         regs.cpsr = cpu.cpsr, regs.sp = cpu.sp, regs.pc \in {cpu.pc, "body"}
  PROVE  /\ IInv'
         /\ phase' \in {"task", "wild"}
         /\ phase' = "task" => /\ next' \in Task
                               /\ cpu' = tcb'[next']
                               /\ current' = next'
         /\ current \in Task => regs.sp = current + 1
<1>1. current \in Task => regs.sp = current + 1
  BY Running, Common DEF Stray
<1>2. CASE Stray
  BY <1>1, <1>2, StraySwitch, Common
<1>3. CASE ~ Stray
  <2>1. IInv
    BY <1>3 DEF IrqInv
  <2>2. phase = "task" => /\ regs.cpsr = "usr" /\ regs.pc # "main"
                          /\ regs.sp = current + 1
    BY <1>3, Running
  <2>3. IInv'
    BY <2>1, <2>2, SwitchInv
  <2>4. /\ phase' \in {"task", "wild"}
        /\ phase' = "task" => next' \in Task /\ cpu' = tcb'[next']
    BY <2>3 DEF Switch, LoadContext, IInv, PhaseInv
  <2>5. current' = next'
    BY DEF Switch, scheduler
  <2>. QED BY <1>1, <2>3, <2>4, <2>5
<1>. QED
  BY <1>2, <1>3

LEMMA TimerInv ==
  ASSUME IrqInv, irqHandler, UNCHANGED history
  PROVE  IInv' /\ EntryInv'
<1>1. /\ Switch(cpu) /\ phase \in {"idle", "task"} /\ cpu \in Context
      /\ tick' \in 0 .. TICKMOD - 1
  BY Common, KernelAssumption DEF irqHandler
<1>2. /\ IInv' /\ phase' \in {"task", "wild"}
      /\ phase' = "task" => /\ next' \in Task
                            /\ cpu' = tcb'[next']
                            /\ current' = next'
      /\ current \in Task => cpu.sp = current + 1
  BY <1>1, SwitchStep
<1>3. SaveContext(cpu)
  BY <1>1 DEF Switch
<1>4. /\ early' = early /\ begun' = begun /\ again' = again
      /\ begun \subseteq Task
      /\ again # {} => early /\ again = {0}
  BY DEF history, IrqInv, EntryInv
<1>. QED
  BY <1>1, <1>2, <1>3, <1>4, SavedEntries

LEMMA YieldInv ==
  ASSUME IrqInv, sys_scheduler, TaskStep
  PROVE  IInv' /\ EntryInv'
<1>1. /\ Switch(YieldContext) /\ phase = "task" /\ YieldContext \in Context
      /\ tick' \in 0 .. TICKMOD - 1
      /\ YieldContext.cpsr = cpu.cpsr /\ YieldContext.sp = cpu.sp
      /\ YieldContext.pc = "body"
  BY Common, YieldTyped DEF sys_scheduler
<1> HIDE DEF YieldContext
<1>2. /\ IInv' /\ phase' \in {"task", "wild"}
      /\ phase' = "task" => /\ next' \in Task
                            /\ cpu' = tcb'[next']
                            /\ current' = next'
      /\ current \in Task => YieldContext.sp = current + 1
  BY <1>1, SwitchStep
<1>3. SaveContext(YieldContext)
  BY <1>1 DEF Switch
<1>4. /\ early' = early /\ begun' \subseteq Task
      /\ again' # {} => early' /\ again' = {0}
      /\ \A t \in begun' \ begun : t = next
  BY Begins
<1>5. next = current \/ (next = 0 /\ early)
  BY <1>1, Running DEF IrqInv, StrayInv
<1>. QED
  BY <1>1, <1>2, <1>3, <1>4, <1>5, SavedEntries

(* The interrupt of the switch: out of main it leads to a stray task, out  *)
(* of a task back to it.                                                   *)
LEMMA GpioInv ==
  ASSUME IrqInv, gpio_irq
  PROVE  /\ IF Stray' THEN StrayInv' ELSE IInv'
         /\ phase' \in {"task", "wild"}
         /\ phase' = "task" => /\ next' \in Task
                               /\ cpu' = tcb'[next']
                               /\ current' \in {next', DUMMY}
         /\ current \in Task => cpu.sp = current + 1
         /\ \A t \in Task : OwnContext(t)' = OwnContext(t)
<1>1. /\ phase \in {"idle", "task"} /\ SaveContext(cpu)
      /\ UNCHANGED <<current, next, current_index, max_task_id, is_used, tick>>
      /\ LoadContext
      /\ early' = (early \/ phase = "idle")
  BY DEF gpio_irq
<1>2. /\ TypeOK /\ BlocksInOrder /\ TCBsInOrder
      /\ cpu \in Context /\ tcb \in [Task \cup {DUMMY} -> Context]
      /\ 0 \in Task /\ DUMMY \notin Task /\ current \in Task \cup {DUMMY}
  BY <1>1, Common
<1>3. /\ tcb' \in [Task \cup {DUMMY} -> Context]
      /\ \A t \in Task : tcb'[t] = IF t = current THEN cpu ELSE tcb[t]
  BY <1>1, <1>2 DEF SaveContext
<1>4. CASE phase = "task" /\ ~ Stray
  <2>1. /\ IInv
        /\ current \in Task /\ next = current /\ current_index = current
        /\ tcb[current].cpsr = "usr"
        /\ cpu.cpsr = "usr" /\ cpu.pc # "main" /\ cpu.sp = current + 1
    BY <1>4, Running
  <2>2. cpu' = cpu /\ phase' = "task" /\ cpu' = tcb'[next']
    BY <1>1, <1>3, <2>1 DEF LoadContext
  <2>3. TypeOK'
    BY <1>1, <1>2, <1>3, <1>4, <2>2 DEF TypeOK
  <2>4. BlocksInOrder' /\ TCBsInOrder'
    BY <1>1, <1>2, <1>3, <1>4, <2>1, <2>2 DEF BlocksInOrder, TCBsInOrder
  <2>5. PhaseInv'
    BY <1>1, <1>4, <2>1, <2>2 DEF IInv, PhaseInv
  <2>6. \A t \in Task : OwnContext(t)' = OwnContext(t)
    BY <1>1, <1>3, <1>4, <2>2 DEF OwnContext
  <2>. QED
    BY <1>1, <2>1, <2>2, <2>3, <2>4, <2>5, <2>6, NotStray, <1>2
    DEF IInv, Stray
<1>5. CASE phase = "idle" \/ Stray
  <2>1. /\ current = DUMMY /\ next = 0 /\ current_index = -1
        /\ max_task_id >= 0 /\ max_task_id < MAXCREATE
        /\ phase # "reset"
    BY <1>1, <1>5, Common
    DEF IrqInv, EntryInv, StrayInv, Stray, IInv, PhaseInv
  <2>2. \A t \in Task : tcb'[t] = tcb[t]
    BY <1>2, <1>3, <2>1
  <2>3. \A t \in Task : OwnContext(t)' = tcb[t] /\ OwnContext(t) = tcb[t]
    BY <1>1, <1>2, <2>1, <2>2 DEF OwnContext
  <2>4. phase' \in {"task", "wild"}
    BY <1>1 DEF LoadContext
  <2>5. BlocksInOrder' /\ TCBsInOrder'
    <3>1. \A t \in Task : t # current /\ t # current'
      BY <1>1, <1>2, <2>1
    <3>. QED
      BY <1>1, <1>2, <2>1, <2>2, <2>4, <3>1 DEF BlocksInOrder, TCBsInOrder
  <2>0. IF tcb[0].cpsr = "usr" THEN cpu' = tcb'[0] /\ phase' = "task"
                               ELSE cpu' = cpu /\ phase' = "wild"
    <3>1. \A t \in Task : tcb'[t].cpsr \in {"null", "usr"}
      BY <1>2, <2>2 DEF TCBsInOrder
    <3>2. next' = 0
      BY <1>1, <2>1
    <3>. QED BY <1>1, <1>2, <1>3, <2>2, <3>1, <3>2, LoadsTask
  <2>6. CASE tcb[0].cpsr = "usr"
    <3>1. cpu' = tcb'[0] /\ phase' = "task" /\ cpu' = tcb[0]
      BY <1>2, <2>0, <2>1, <1>1, <2>2, <2>6
    <3>2. early'
      BY <1>1, <1>5 DEF IrqInv, StrayInv
    <3>3. tcb[0].sp = 1 /\ tcb[0].pc # "main"
      BY <1>2, <2>6 DEF TCBsInOrder, IrqInv, EntryInv
    <3>4. TypeOK'
      BY <1>1, <1>2, <1>3, <3>1 DEF TypeOK, Phase
    <3>5. Stray' /\ StrayInv'
      BY <1>1, <1>2, <2>1, <2>2, <2>5, <2>6, <3>1, <3>2, <3>3, <3>4
      DEF Stray, StrayInv
    <3>. QED BY <1>1, <1>2, <2>1, <2>3, <3>1, <3>5
  <2>7. CASE tcb[0].cpsr # "usr"
    <3>1. cpu' = cpu /\ phase' = "wild"
      BY <2>0, <2>7
    <3>2. 0 >= MAXMEMBLK
      BY <1>2, <2>1, <2>7, KernelAssumption DEF TCBsInOrder
    <3>. QED BY <3>2, KernelAssumption
  <2>. QED BY <2>6, <2>7
<1>. QED
  BY <1>1, <1>4, <1>5

LEMMA IrqStepInv ==
  ASSUME IrqInv, [IrqNext]_allVars
  PROVE  IrqInv'
<1>1. CASE KernelStep /\ ~ irqHandler
  <2>1. (Boot \/ task_create \/ Wild) /\ UNCHANGED history
    BY <1>1 DEF KernelStep
  <2>2. phase # "task"
    BY <2>1
    DEF Boot, navilnux_init, sched_init, panic, task_create, CreateTooMany,
        CreateNoStack, CreateTask, TakeIndex, Wild
  <2>3. IInv
    BY <2>2 DEF IrqInv, Stray
  <2>4. IInv'
    BY <2>1, <2>3, StepInv DEF Next
  <2>. QED BY <2>1, <2>4, SetupEntries, KernelNext
<1>2. CASE KernelStep /\ irqHandler
  BY <1>2, TimerInv, KernelNext DEF KernelStep
<1>3. CASE TaskStep /\ sys_scheduler
  BY <1>3, YieldInv, KernelNext
<1>4. CASE TaskStep /\ (navilnux_swiHandler \/ UserStep)
  <2>1. /\ phase = "task"
        /\ cpu' \in Context
        /\ cpu'.cpsr = cpu.cpsr /\ cpu'.sp = cpu.sp /\ cpu'.pc = "body"
        /\ UNCHANGED <<phase, max_task_id, is_used, tcb, current, next,
                       current_index, tick>>
    BY <1>4, OwnRegisters, Common
  <2>2. EntryInv'
    BY <1>4, <2>1, ComputedEntries
  <2>3. CASE Stray
    <3>1. early' = early
      BY <1>4 DEF TaskStep
    <3>. QED BY <2>1, <2>2, <2>3, <3>1, StrayCompute DEF IrqInv
  <2>4. CASE ~ Stray
    <3>1. IInv'
      BY <2>1, <2>4, OwnRegistersInv DEF IrqInv
    <3>. QED BY <2>2, <3>1, KernelNext
  <2>. QED BY <2>3, <2>4
<1>5. CASE gpio_irq
  <2>1. /\ phase \in {"idle", "task"} /\ SaveContext(cpu) /\ cpu \in Context
        /\ early => early'
        /\ begun' = begun /\ again' = again
    BY <1>5, Common DEF gpio_irq
  <2>2. begun \subseteq Task /\ (again # {} => early /\ again = {0})
    BY DEF IrqInv, EntryInv
  <2>3. EntryInv'
    BY <1>5, <2>1, <2>2, GpioInv, SavedEntries
  <2>. QED BY <1>5, <2>3, GpioInv DEF IrqInv
<1>6. CASE UNCHANGED allVars
  <2>1. UNCHANGED vars /\ UNCHANGED history
    BY <1>6 DEF allVars
  <2>2. EntryInv' /\ Stray' = Stray
    BY <2>1 DEF vars, history, IrqInv, EntryInv, OwnContext, Stray
  <2>3. CASE Stray
    BY <2>1, <2>2, <2>3
    DEF vars, history, IrqInv, StrayInv, TypeOK, BlocksInOrder, TCBsInOrder
  <2>4. CASE ~ Stray
    BY <2>1, <2>2, <2>4, StepInv DEF IrqInv
  <2>. QED BY <2>3, <2>4
<1>. QED
  BY <1>1, <1>2, <1>3, <1>4, <1>5, <1>6 DEF IrqNext, KernelStep, TaskStep

LEMMA IrqInvariance == IrqSpec => []IrqInv
BY IrqInitInv, IrqStepInv, PTL DEF IrqSpec

-----------------------------------------------------------------------------
(* Theorems *)

(* WildOnlyPastCapacity: interrupts of the switch do not bring the         *)
(* processor where no task is, either.                                     *)
THEOREM IrqWildOnlyByExcess == IrqSpec => []WildOnlyPastCapacity
<1>1. IrqInv => WildOnlyPastCapacity
  BY DEF IrqInv, Stray, IInv, PhaseInv, WildOnlyPastCapacity
<1>. QED
  BY <1>1, IrqInvariance, PTL

(* TaskIsCurrent: what entry.S saves to navilnux_current belongs to it,    *)
(* whichever cause interrupted, except before the first tick.              *)
THEOREM IrqTaskIsCurrent == IrqSpec => []TaskIsCurrent
<1>1. IrqInv => TaskIsCurrent
  <2> SUFFICES ASSUME IrqInv, phase = "task" PROVE TaskIsCurrent
    BY DEF TaskIsCurrent
  <2>1. CASE Stray
    <3>1. next = 0 /\ 0 \in Task /\ tcb[0].sp = 0 + 1
      BY <2>1, Common DEF IrqInv, StrayInv, EntryInv
    <3>. QED BY <2>1, <3>1 DEF IrqInv, StrayInv, TaskIsCurrent, Created
  <2>2. CASE ~ Stray
    BY <2>2, Running DEF TaskIsCurrent, Created
  <2>. QED BY <2>1, <2>2
<1>. QED
  BY <1>1, IrqInvariance, PTL

(* StartsOnce: irqHandler without the scheduler starts no task again, but  *)
(* for the first one before the first tick.                                *)
THEOREM IrqStartsOnce == IrqSpec => []StartsOnce
<1>1. IrqInv => StartsOnce
  BY DEF IrqInv, EntryInv, StartsOnce
<1>. QED
  BY <1>1, IrqInvariance, PTL

-----------------------------------------------------------------------------
(* The refinement: a stray task is nobody's virtual processor.             *)

LEMMA IrqStepRefines ==
  ASSUME IrqInv, IrqInv', [IrqNext]_allVars, phase' # "wild"
  PROVE  [VCPU!Next]_<<Run, Ctx>>
<1>1. CASE UNCHANGED allVars
  BY <1>1 DEF allVars, vars, Run, Ctx, OwnContext
<1>2. CASE gpio_irq
  <2>1. Ctx' = Ctx
    BY <1>2, GpioInv DEF Ctx
  <2>2. phase' = "task" /\ current' = current
    BY <1>2, GpioInv DEF gpio_irq
  <2>3. Run' = Run
    <3>1. phase = "idle" => current = DUMMY
      BY Common
    <3>2. phase \in {"idle", "task"}
      BY <1>2 DEF gpio_irq
    <3>. QED BY <2>2, <3>1, <3>2 DEF Run
  <2>. QED BY <2>1, <2>3
<1>3. CASE Next /\ ~ Stray
  <2>1. IInv
    BY <1>3 DEF IrqInv
  <2>2. IInv'
    BY <1>3, <2>1, StepInv
  <2>. QED BY <1>3, <2>1, <2>2, StepRefines
<1>4. CASE (irqHandler \/ sys_scheduler) /\ Stray
  <2>1. \E regs \in Context : Switch(regs)
    BY <1>4, Common, YieldTyped DEF irqHandler, sys_scheduler
  <2>2. tick' \in 0 .. TICKMOD - 1
    BY <1>4, Common, KernelAssumption DEF irqHandler, sys_scheduler
  <2>3. /\ phase' = "task" /\ current' = 0 /\ cpu' = tcb'[0]
        /\ \A t \in Task : tcb'[t] = tcb[t]
    BY <1>4, <2>1, <2>2, StraySwitch
  <2>4. phase = "task" /\ current = DUMMY /\ DUMMY \notin Task /\ 0 \in Task
    BY <1>4, Common DEF Stray
  <2>5. \A t \in Task : OwnContext(t)' = tcb[t] /\ OwnContext(t) = tcb[t]
    BY <2>3, <2>4 DEF OwnContext
  <2>6. Ctx' = Ctx
    BY <2>5 DEF Ctx
  <2>7. Run = DUMMY /\ Run' = 0
    BY <2>3, <2>4 DEF Run
  <2>8. 0 \in VCPU!Live
    BY <1>4, <2>4, <2>5 DEF VCPU!Live, IrqInv, StrayInv
  <2>. QED BY <2>6, <2>7, <2>8 DEF VCPU!Next, VCPU!Start, Ctx
<1>5. CASE (navilnux_swiHandler \/ UserStep) /\ Stray
  <2>1. UNCHANGED <<phase, tcb, current>>
    BY <1>5, OwnRegisters, Common
  <2>2. current = DUMMY /\ DUMMY \notin Task
    BY <1>5, Common DEF Stray
  <2>. QED BY <2>1, <2>2 DEF Run, Ctx, OwnContext
<1>6. CASE (Boot \/ task_create \/ Wild) /\ Stray
  BY <1>6
  DEF Stray, Boot, navilnux_init, sched_init, panic, task_create,
      CreateTooMany, CreateNoStack, CreateTask, TakeIndex, Wild
<1>. QED
  BY <1>1, <1>2, <1>3, <1>4, <1>5, <1>6
  DEF IrqNext, KernelStep, TaskStep, Next

(* VirtualCPUKept: with the switch interrupting anywhere every task still  *)
(* has a processor of its own, which what ran stray does not reach.        *)
THEOREM IrqImplementsVirtualCPU == IrqSpec => VirtualCPUKept
<1>1. IrqInit => VCPU!Init
  BY DEF IrqInit, Init, ZeroContext, VCPU!Init, VCPU!Live, Run, OwnContext
<1>2. IrqInv /\ IrqInv' /\ [IrqNext]_allVars
        => [VCPU!Next \/ phase' = "wild"]_(VCPU!vars)
  BY IrqStepRefines DEF VCPU!vars, Ctx
<1>. QED
  BY <1>1, <1>2, IrqInvariance, PTL DEF IrqSpec, VirtualCPUKept, VirtualCPUSpec
=============================================================================
