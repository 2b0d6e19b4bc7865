------------------------------ MODULE NavilDrv ------------------------------
(***************************************************************************)
(* Device drivers of src/source/chap16: the driver table (navilnux_drv.c), *)
(* the driver calls (navilnux_sys.c, navilnux_clib.c), the switch driver   *)
(* (my_drv.c) and the GPIO interrupt (navilnux.c).                         *)
(*                                                                         *)
(* System calls and interrupt handlers run with interrupts masked: each is *)
(* one action, and tasks interleave between them.  A blocking read polls:  *)
(* it asks, yields, and asks again.  A poll that finds nothing changes     *)
(* nothing and is no step of the model.                                    *)
(***************************************************************************)
EXTENDS Integers, FiniteSets, Totals

CONSTANTS Task,
          DRVLIMIT,    \* entries of drvmng.free_drv_pool (100)
          Number,      \* the driver numbers tasks use
          MAXOPEN,     \* bound: opens a task has not closed
          MAXEXTRA,    \* bound: closes of drivers not opened
          MAXPUSH      \* bound: pushes of the switch

MYDRV == 0

ASSUME DrvAssumption ==
  /\ IsFiniteSet(Task)
  /\ DRVLIMIT \in Nat \ {0}
  /\ Number \subseteq Int
  /\ {MAXOPEN, MAXEXTRA, MAXPUSH} \subseteq Nat

VARIABLES pool,           \* drvmng.free_drv_pool, and the words behind it
          vector,         \* navilnux_irq_vector[IRQ8]
          switch_pushed,
          edge,           \* GEDR0: the switch has been pushed
          reading,        \* the tasks inside navilnux_read(MYDRV, ...)
          wild,           \* the call that jumped through no driver, if any
          opened,         \* opened[t][n]: opens minus closes, as t sees it
          extra,          \* closes of MYDRV by tasks that had not opened it
          pushes,         \* pushes of the switch
          accepted,       \* pushes the handler noted
          read,           \* pushes handed to a reader
          dropped         \* pushes cleared by mydrv_open

vars == <<pool, vector, switch_pushed, wild, edge, reading, opened, extra, pushes,
          accepted, read, dropped>>

-----------------------------------------------------------------------------
NULL == "null"

(* One past the pool lie the manager's own pointers, init and              *)
(* register_drv: as an entry, fops that are code and a use count that is a *)
(* kernel address, negative as an int.                                     *)
Entry == 0 .. DRVLIMIT
EntryType == [fops : {NULL, "mydrv", "code"}, usecount : Int]
Behind == [fops |-> "code", usecount |-> -3]

(* The range check of every call; it lets DRVLIMIT through.                *)
InRange(n) == ~ (n > DRVLIMIT \/ n < 0)

Init ==
  /\ pool = [n \in Entry |->
               IF n = MYDRV THEN [fops |-> "mydrv", usecount |-> 0]
               ELSE IF n = DRVLIMIT THEN Behind
               ELSE [fops |-> NULL, usecount |-> -1]]
  /\ vector = NULL
  /\ switch_pushed = 0
  /\ edge = FALSE
  /\ reading = {}
  /\ wild = <<>>
  /\ opened = [t \in Task |-> [n \in Entry |-> 0]]
  /\ extra = 0
  /\ pushes = 0 /\ accepted = 0 /\ read = 0 /\ dropped = 0

Running(t) == wild = <<>> /\ t \notin reading

Jump(t, n) == wild' = <<t, n>>

-----------------------------------------------------------------------------
(* It arms the interrupt, and forgets a push that waits.                   *)
mydrv_open ==
  /\ vector' = "gpio0"
  /\ switch_pushed' = 0
  /\ dropped' = dropped + switch_pushed

(* A call that is out of range or refused returns -1 and changes nothing.  *)

\* Variant with a defect: the use count does not follow.
sys_open_uncounted(t, n) ==
  /\ Running(t)
  /\ InRange(n) /\ pool[n].usecount >= 0
  /\ opened[t][n] < MAXOPEN
  /\ opened' = [opened EXCEPT ![t][n] = @ + 1]
  /\ mydrv_open
  /\ UNCHANGED <<pool, wild, edge, reading, extra, pushes, accepted, read>>

\* Variant with a defect: every entry is taken to be assigned.
sys_open_unassigned(t, n) ==
  /\ Running(t)
  /\ InRange(n)
  /\ opened[t][n] < MAXOPEN
  /\ pool' = [pool EXCEPT ![n].usecount = @ + 1]
  /\ opened' = [opened EXCEPT ![t][n] = @ + 1]
  /\ mydrv_open
  /\ UNCHANGED <<wild, edge, reading, extra, pushes, accepted, read>>

(* mydrv is the only driver there is.                                      *)
sys_open(t, n) ==
  /\ Running(t)
  /\ InRange(n) /\ pool[n].usecount >= 0
  /\ opened[t][n] < MAXOPEN
  /\ pool' = [pool EXCEPT ![n].usecount = @ + 1]
  /\ opened' = [opened EXCEPT ![t][n] = @ + 1]
  /\ IF pool[n].fops = "mydrv"
     THEN mydrv_open /\ UNCHANGED wild
     ELSE Jump(t, n) /\ UNCHANGED <<vector, switch_pushed, dropped>>
  /\ UNCHANGED <<edge, reading, extra, pushes, accepted, read>>

(* sys_close asks for no use count: it decrements, then calls.             *)
sys_close(t, n) ==
  /\ Running(t)
  /\ InRange(n)
  /\ pool' = [pool EXCEPT ![n].usecount = @ - 1]
  /\ IF opened[t][n] > 0
     THEN opened' = [opened EXCEPT ![t][n] = @ - 1] /\ UNCHANGED extra
     ELSE extra < MAXEXTRA /\ extra' = extra + 1 /\ UNCHANGED opened
  /\ IF pool[n].fops = "mydrv" THEN UNCHANGED wild ELSE Jump(t, n)
  /\ UNCHANGED <<vector, switch_pushed, edge, reading, pushes, accepted, read,
                 dropped>>

(* navilnux_read: the first call, then one after every yield.              *)
sys_read(t, n) ==
  /\ Running(t)
  /\ InRange(n)
  /\ IF pool[n].fops = "mydrv"
     THEN reading' = reading \cup {t} /\ UNCHANGED wild
     ELSE Jump(t, n) /\ UNCHANGED reading
  /\ UNCHANGED <<pool, vector, switch_pushed, edge, opened, extra, pushes,
                 accepted, read, dropped>>

\* Variant with a defect: the flag is counted down without a test.
mydrv_read_untested(t) ==
  /\ wild = <<>>
  /\ t \in reading
  /\ switch_pushed' = switch_pushed - 1
  /\ read' = read + 1
  /\ reading' = reading \ {t}
  /\ UNCHANGED <<pool, vector, wild, edge, opened, extra, pushes, accepted,
                 dropped>>

mydrv_read(t) ==
  /\ wild = <<>>
  /\ t \in reading
  /\ switch_pushed = 1
  /\ switch_pushed' = 0
  /\ read' = read + 1
  /\ reading' = reading \ {t}
  /\ UNCHANGED <<pool, vector, wild, edge, opened, extra, pushes, accepted,
                 dropped>>

(* mydrv_write sets an LED; through any other entry it is a wild jump.     *)
sys_write(t, n) ==
  /\ Running(t)
  /\ InRange(n)
  /\ pool[n].fops # "mydrv"
  /\ Jump(t, n)
  /\ UNCHANGED <<pool, vector, switch_pushed, edge, reading, opened, extra,
                 pushes, accepted, read, dropped>>

-----------------------------------------------------------------------------
(* Somebody pushes the switch; a second edge before the first is seen is   *)
(* not noticed.                                                            *)
Push ==
  /\ pushes < MAXPUSH
  /\ pushes' = pushes + 1
  /\ edge' = TRUE
  /\ UNCHANGED <<pool, vector, switch_pushed, wild, reading, opened, extra,
                 accepted, read, dropped>>

\* Variant with a defect: a second push is noted although the first is unread.
gpio0_irq_handler_again ==
  /\ switch_pushed' = 1
  /\ accepted' = accepted + 1

gpio0_irq_handler ==
  IF switch_pushed = 1
  THEN UNCHANGED <<switch_pushed, accepted>>
  ELSE switch_pushed' = 1 /\ accepted' = accepted + 1

\* Variant with a defect: the handler is not called.
irqHandler_deaf ==
  /\ wild = <<>>
  /\ edge
  /\ edge' = FALSE
  /\ UNCHANGED <<pool, vector, switch_pushed, wild, accepted, reading, opened,
                 extra, pushes, read, dropped>>

(* The GPIO half of irqHandler.                                            *)
irqHandler ==
  /\ wild = <<>>
  /\ edge
  /\ edge' = FALSE
  /\ IF vector = NULL THEN UNCHANGED <<switch_pushed, accepted>>
                      ELSE gpio0_irq_handler
  /\ UNCHANGED <<pool, vector, wild, reading, opened, extra, pushes, read, dropped>>

Next ==
  \/ \E t \in Task, n \in Number :
        sys_open(t, n) \/ sys_close(t, n) \/ sys_read(t, n) \/ sys_write(t, n)
  \/ \E t \in Task : mydrv_read(t)
  \/ Push
  \/ irqHandler

Spec == Init /\ [][Next]_vars

(* A polling task gets the processor again and again (EveryTaskRuns of     *)
(* NavilKernel), and an unmasked interrupt is taken.                       *)
FairSpec == Spec /\ WF_vars(irqHandler) /\ \A t \in Task : WF_vars(mydrv_read(t))

-----------------------------------------------------------------------------
TypeOK ==
  /\ pool \in [Entry -> EntryType]
  /\ vector \in {NULL, "gpio0"}
  /\ switch_pushed \in {0, 1}
  /\ edge \in BOOLEAN
  /\ reading \subseteq Task
  /\ wild \in {<<>>} \cup (Task \X Entry)
  /\ opened \in [Task -> [Entry -> Nat]]
  /\ extra \in Nat /\ pushes \in Nat
  /\ accepted \in Nat /\ read \in Nat /\ dropped \in Nat

(* Only a call for a driver the caller had not opened can make the kernel  *)
(* jump through an entry without a driver: sys_open's check of the use     *)
(* count protects sys_close, sys_read and sys_write, which have none.      *)
WildOnlyUnopened == wild # <<>> => opened[wild[1]][wild[2]] = 0

(* The use count of the driver is what tasks have opened and not closed,   *)
(* less the closes of tasks that had not opened it: sys_close accepts      *)
(* those, and the first one too many makes an open driver "unassigned".    *)
UseCountMatches ==
  wild = <<>> =>
    pool[MYDRV].usecount + extra
      = Total([t \in Task |-> opened[t][MYDRV]])

(* A push the handler noted is read exactly once, or waits, or was cleared *)
(* by somebody else's open.                                                *)
PushesConserved == accepted = read + dropped + switch_pushed

(* A push, noticed or still at the pin, reaches one of the tasks that poll *)
(* for it, unless an open clears it.                                       *)
ReaderServed ==
  \A k \in 0 .. MAXPUSH :
    (/\ reading # {} /\ vector # NULL
     /\ edge \/ switch_pushed = 1
     /\ read + dropped = k)
      ~> (read + dropped > k \/ wild # <<>>)
=============================================================================
