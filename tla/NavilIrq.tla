------------------------------ MODULE NavilIrq ------------------------------
(***************************************************************************)
(* The kernel of src/source/chap16, where the switch interrupts as well    *)
(* (GPIO 0) and shares the exception entry with the timer: entry.S saves   *)
(* the registers to navilnux_current and loads navilnux_next whatever the  *)
(* cause, but only the timer half of irqHandler runs the scheduler.  Task  *)
(* creation, scheduler and entries are those of NavilKernel.               *)
(*                                                                         *)
(* When both causes are pending the timer half decides what is loaded, so  *)
(* that is NavilKernel's irqHandler.  What the GPIO half does for the      *)
(* switch driver is in NavilDrv.                                           *)
(***************************************************************************)
EXTENDS NavilKernel

VARIABLES early,    \* history: the switch interrupted before the first tick
          begun,    \* history: tasks whose first instruction was executed
          again     \* history: tasks whose first instruction ran once more

history == <<early, begun, again>>
allVars == <<vars, history>>

IrqInit == Init /\ early = FALSE /\ begun = {} /\ again = {}

-----------------------------------------------------------------------------
(* Variant with a defect: the entry stores nothing for this cause. *)
gpio_irq_nosave ==
  /\ phase \in {"idle", "task"}
  /\ UNCHANGED <<tcb, current, next, current_index>>
  /\ LoadContext
  /\ early' = (early \/ phase = "idle")
  /\ UNCHANGED <<max_task_id, is_used, tick, begun, again>>

(* Variant with a defect: the handler chooses the first task. *)
gpio_irq_first ==
  /\ phase \in {"idle", "task"}
  /\ SaveContext(cpu)
  /\ next' = 0
  /\ UNCHANGED <<current, current_index>>
  /\ LoadContext
  /\ early' = (early \/ phase = "idle")
  /\ UNCHANGED <<max_task_id, is_used, tick, begun, again>>

(* The switch alone interrupts: save, no scheduler, load.  Before the      *)
(* first tick navilnux_current is dummyTCB and navilnux_next task 0.       *)
gpio_irq ==
  /\ phase \in {"idle", "task"}
  /\ SaveContext(cpu)
  /\ UNCHANGED <<current, next, current_index>>
  /\ LoadContext
  /\ early' = (early \/ phase = "idle")
  /\ UNCHANGED <<max_task_id, is_used, tick, begun, again>>

KernelStep == /\ Boot \/ task_create \/ irqHandler \/ Wild
              /\ UNCHANGED history

(* What the task that navilnux_next names does, perhaps for the first time. *)
TaskStep == /\ sys_scheduler \/ navilnux_swiHandler \/ UserStep
            /\ begun' = IF cpu.pc = "entry" THEN begun \cup {next} ELSE begun
            /\ again' = IF cpu.pc = "entry" /\ next \in begun
                        THEN again \cup {next} ELSE again
            /\ UNCHANGED early

IrqNext == KernelStep \/ TaskStep \/ gpio_irq

IrqSpec == IrqInit /\ [][IrqNext]_allVars

-----------------------------------------------------------------------------
(* Properties *)

(* A task runs without being navilnux_current: its registers will be saved *)
(* to dummyTCB and never loaded again.                                     *)
Stray == phase = "task" /\ current = DUMMY

(* Between the interrupts of the switch and the timer the kernel never     *)
(* takes one task for another: the processor is with navilnux_current, or  *)
(* the switch came before the first tick and it is with task 0 although    *)
(* nobody is current.                                                      *)
TaskIsCurrent ==
  phase = "task" =>
    /\ next \in Created
    /\ cpu.sp = tcb[next].sp
    /\ \/ current = next /\ current_index = next
       \/ Stray /\ early /\ next = 0 /\ current_index = -1

(* The beginning of a task runs twice only if the switch was pushed before *)
(* the first tick, and then only that of task 0: what irqHandler does      *)
(* without the scheduler restarts no other task.                           *)
StartsOnce == again # {} => early /\ again = {0}

(* Interrupts of the switch, wherever they fall, leave every task its      *)
(* virtual processor; of the one that runs stray before the first tick     *)
(* nothing is kept, as if it had not run.                                  *)
VirtualCPUKept == VirtualCPUSpec
=============================================================================
