----------------------------- MODULE VirtualCPU -----------------------------
(***************************************************************************)
(* What the scheduler and the exception entry code promise a task: a       *)
(* processor of its own.  Every task owns a context nobody else writes;    *)
(* one task at a time computes, and a switch to the next task changes no   *)
(* context at all.  The one exception is a voluntary yield, which destroys *)
(* register r10 of the yielding task (entry.S uses it to decode the system *)
(* call number before it saves the context).                               *)
(***************************************************************************)
EXTENDS Integers

CONSTANTS Task,       \* the task indices 0 .. MAXTASKNUM - 1
          NoTask,     \* nobody computes: the kernel is booting or idle
          Clobber     \* what a yield leaves in r10

VARIABLES run,        \* the task that computes, or NoTask
          ctx         \* ctx[t]: the registers task t sees as its own

vars == <<run, ctx>>

Live == {t \in Task : ctx[t].cpsr = "usr"}

After(t) == IF t + 1 \in Live THEN t + 1 ELSE 0

Init == /\ run = NoTask
        /\ Live = {}

(* A task appears with a stack that no living task has. *)
Setup == /\ run = NoTask
         /\ \E t \in Task \ Live :
              /\ ctx' = [ctx EXCEPT ![t] = ctx'[t]]
              /\ ctx'[t].cpsr = "usr"
              /\ ctx'[t].pc = "entry"
              /\ \A u \in Live : ctx[u].sp # ctx'[t].sp
         /\ UNCHANGED run

(* The first switch: the boot program is left for good. *)
Start == /\ run = NoTask
         /\ run' = 0
         /\ 0 \in Live
         /\ UNCHANGED ctx

(* The running task changes its own registers, never its stack or mode,    *)
(* and never finds itself back at its entry point.                         *)
Compute == /\ run \in Live
           /\ ctx' = [ctx EXCEPT ![run] = ctx'[run]]
           /\ ctx'[run].sp = ctx[run].sp
           /\ ctx'[run].cpsr = "usr"
           /\ ctx'[run].pc = "body"
           /\ UNCHANGED run

Preempt == /\ run \in Live
           /\ run' = After(run)
           /\ UNCHANGED ctx

Yield == /\ run \in Live
         /\ run' = After(run)
         /\ ctx' = [ctx EXCEPT ![run].r10 = Clobber, ![run].pc = "body"]

Next == Setup \/ Start \/ Compute \/ Preempt \/ Yield

Spec == Init /\ [][Next]_vars
=============================================================================
