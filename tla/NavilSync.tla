----------------------------- MODULE NavilSync -----------------------------
(***************************************************************************)
(* Tasks that synchronise: user programs over the blocking library calls   *)
(* of navilnux_clib.c, the system calls into the message manager, the      *)
(* round-robin scheduler and the timer.                                    *)
(*                                                                         *)
(* A system call is one action, because interrupts are masked in it.  The  *)
(* library around it is user code: the timer can take the processor away   *)
(* between a failed try and the yield that follows, and between any two    *)
(* reads and writes of navilnux_sleep.                                     *)
(*                                                                         *)
(* sleep_end_tick is kept relative to navilnux_time_tick (a deadline that  *)
(* has passed is 0 ticks away), so that the counter needs no bound here;   *)
(* its 32-bit wrap-around is not part of this module.                      *)
(***************************************************************************)
EXTENDS NavilMsg, Sequences, FiniteSets, Totals

CONSTANTS NTASKS,     \* tasks created by navilnux_user
          Program,    \* Program[t]: what task t calls, step by step, for ever
          SEMNUM,     \* the semaphore navilnux_user initialises,
          SEMVALUE,   \* and with what
          MAXSLEEP,   \* bound: longest sleep, in ticks
          MAXEXTRA,   \* bound: units a task returns without having taken them
          MINSLICE    \* steps the tasks complete between two timer ticks

Task  == 0 .. NTASKS - 1
Mutex == 0 .. MUTEXEND - MUTEXSTART
Sem   == 0 .. SEMEND - SEMSTART
Box   == ITCSTART .. ITCEND

Calls == {"itc_send", "itc_get", "sem_p", "sem_v", "mutex_wait",
          "mutex_release", "sleep"}

Op == [call : Calls, num : Int, arg : Int]

Do(call, num)      == [call |-> call, num |-> num, arg |-> 0]
DoSend(num, data)  == [call |-> "itc_send", num |-> num, arg |-> data]
NoOp               == Do("none", 0)

ASSUME SyncAssumption ==
  /\ NTASKS \in Nat \ {0}
  /\ Program \in [Task -> Seq(SUBSET Op) \ {<<>>}]
  /\ SEMNUM \in Sem
  /\ SEMVALUE \in Int
  /\ {MAXSLEEP, MAXEXTRA, MINSLICE} \subseteq Nat
  /\ \A t \in Task : \A i \in 1 .. Len(Program[t]) : \A o \in Program[t][i] :
       o.call = "sleep" => o.num \in 0 .. MAXSLEEP

(* No program sends to or fetches from a slot of the pool above ITCEND. *)
MessagesInRange ==
  \A t \in Task : \A i \in 1 .. Len(Program[t]) : \A o \in Program[t][i] :
    o.call \in {"itc_send", "itc_get"} /\ o.num \in Index => o.num <= ITCEND

VARIABLES current_index,  \* who runs; -1 until the first tick
          pool,           \* msgmng.free_msg_pool
          pc,             \* where each task is in the library
          op,             \* the call it is in
          at,             \* its place in its program
          end,            \* sleep_end_tick, in ticks from now
          reg,            \* the deadline navilnux_sleep has yet to store
          since,          \* history: ticks since the sleep was called
          got,            \* what the task's last itc_get returned
          owns,           \* history: mutexes granted and not given back
          taken,          \* history: units each task took and did not return
          slice           \* task steps since the last tick, up to MINSLICE

userVars == <<pc, op, at>>
timeVars == <<end, reg, since>>
history  == <<got, owns, taken>>
vars == <<current_index, pool, userVars, timeVars, history, slice>>

UNARMED == -1      \* sleep_end_tick is 0

(* The TCB address msg_mutex_wait records. *)
TCB(t) == t + 1

-----------------------------------------------------------------------------
Init == /\ current_index = -1
        /\ pool = msg_sem_init(msg_init, SEMNUM, SEMVALUE).pool
        /\ pc = [t \in Task |-> "user"]
        /\ op = [t \in Task |-> NoOp]
        /\ at = [t \in Task |-> 1]
        /\ end = [t \in Task |-> UNARMED]
        /\ reg = [t \in Task |-> UNARMED]
        /\ since = [t \in Task |-> 0]
        /\ got = [t \in Task |-> 0]
        /\ owns = [t \in Task |-> {}]
        /\ taken = [t \in Task |-> [s \in Sem |-> 0]]
        /\ slice = 0

scheduler == current_index' = (current_index + 1) % NTASKS

Goes(t, place) == pc' = [pc EXCEPT ![t] = place]

Took == slice' = IF slice < MINSLICE THEN slice + 1 ELSE slice

(* The user program calls the library. *)
Call(t) ==
  /\ pc[t] = "user"
  /\ \E o \in Program[t][at[t]] :
       /\ o.call = "sem_v" /\ o.num \in Sem => taken[t][o.num] > -MAXEXTRA
       /\ op' = [op EXCEPT ![t] = o]
       /\ Goes(t, IF o.call = "sleep" THEN "test" ELSE "try")
  /\ UNCHANGED <<current_index, pool, at, timeVars, history>>

Return(t) == /\ Goes(t, "user")
             /\ op' = [op EXCEPT ![t] = NoOp]
             /\ at' = [at EXCEPT ![t] = (@ % Len(Program[t])) + 1]

(* navilnux_syscallvec: the message routine behind each system call. *)
Syscall(o, t) ==
  CASE o.call = "itc_send"      -> msg_itc_send(pool, o.num, o.arg)
    [] o.call = "itc_get"       -> msg_itc_get(pool, o.num)
    [] o.call = "sem_p"         -> msg_sem_p(pool, o.num)
    [] o.call = "sem_v"         -> msg_sem_v(pool, o.num)
    [] o.call = "mutex_wait"    -> msg_mutex_wait(pool, o.num, TCB(t))
    [] o.call = "mutex_release" -> msg_mutex_release(pool, o.num, TCB(t))

(* The library loops on -2 in these calls and hands any other result up.   *)
Blocking == {"itc_get", "sem_p", "mutex_wait"}

Blocks(o, t) == o.call \in Blocking /\ Syscall(o, t).ret = -2

(* The units a task has taken, after a sem_p or sem_v that succeeded. *)
Counted(o, units) ==
  CASE o.call = "sem_p" -> [units EXCEPT ![o.num] = @ + 1]
    [] o.call = "sem_v" -> [units EXCEPT ![o.num] = @ - 1]
    [] OTHER            -> units

(* What the caller learns from a result of 0. *)
Grant(o, t) ==
  /\ got' = [got EXCEPT ![t] =
               IF o.call = "itc_get" THEN Syscall(o, t).data ELSE @]
  /\ owns' = [owns EXCEPT ![t] =
                CASE o.call = "mutex_wait"    -> @ \cup {o.num}
                  [] o.call = "mutex_release" -> @ \ {o.num}
                  [] OTHER                    -> @]
  /\ taken' = [taken EXCEPT ![t] = Counted(o, @)]

SyscallReturns(t) ==
  /\ pc[t] = "try"
  /\ ~ Blocks(op[t], t)
  /\ pool' = Syscall(op[t], t).pool
  /\ IF Syscall(op[t], t).ret = 0 THEN Grant(op[t], t) ELSE UNCHANGED history
  /\ Return(t)
  /\ UNCHANGED <<current_index, timeVars>>

SyscallBlocks(t) ==
  /\ pc[t] = "try"
  /\ Blocks(op[t], t)
  /\ Goes(t, "yield")
  /\ UNCHANGED <<current_index, pool, op, at, timeVars, history>>

(* call_scheduler, then the loop tries again. *)
CallScheduler(t) ==
  /\ pc[t] = "yield"
  /\ scheduler
  /\ Goes(t, IF op[t].call = "sleep" THEN "test" ELSE "try")
  /\ UNCHANGED <<pool, op, at, timeVars, history>>

-----------------------------------------------------------------------------
(* navilnux_sleep *)

SleepTest(t) ==
  /\ pc[t] = "test"
  /\ Goes(t, CASE end[t] = UNARMED -> "arm"
               [] end[t] = 0       -> "wake"
               [] OTHER            -> "yield")
  /\ UNCHANGED <<current_index, pool, op, at, timeVars, history>>

(* Variant with a defect: one tick short. *)
SleepArm_short(t) ==
  /\ pc[t] = "arm"
  /\ reg' = [reg EXCEPT ![t] = IF op[t].num = 0 THEN 0 ELSE op[t].num - 1]
  /\ Goes(t, "store")
  /\ UNCHANGED <<current_index, pool, op, at, end, since, history>>

SleepArm(t) ==
  /\ pc[t] = "arm"
  /\ reg' = [reg EXCEPT ![t] = op[t].num]
  /\ Goes(t, "store")
  /\ UNCHANGED <<current_index, pool, op, at, end, since, history>>

SleepStore(t) ==
  /\ pc[t] = "store"
  /\ end' = [end EXCEPT ![t] = reg[t]]
  /\ reg' = [reg EXCEPT ![t] = UNARMED]
  /\ Goes(t, "test")
  /\ UNCHANGED <<current_index, pool, op, at, since, history>>

SleepWake(t) ==
  /\ pc[t] = "wake"
  /\ end' = [end EXCEPT ![t] = UNARMED]
  /\ since' = [since EXCEPT ![t] = 0]
  /\ Return(t)
  /\ UNCHANGED <<current_index, pool, reg, history>>

-----------------------------------------------------------------------------
(* irqHandler: the tick moves every deadline one closer. *)

(* Variant with a defect: deadlines that passed, or were never set, move.  *)
Closer_nofloor(n) == n - 1

Closer(n) == IF n > 0 THEN n - 1 ELSE n

Sleeping(t) == pc[t] # "user" /\ op[t].call = "sleep"

TimerTick ==
  /\ slice = MINSLICE \/ current_index = -1
  /\ slice' = 0
  /\ end' = [t \in Task |-> Closer(end[t])]
  /\ reg' = [t \in Task |-> Closer(reg[t])]
  /\ since' = [t \in Task |-> IF Sleeping(t) /\ since[t] < MAXSLEEP
                              THEN since[t] + 1 ELSE since[t]]
  /\ scheduler
  /\ UNCHANGED <<pool, userVars, history>>

Step(t) == /\ current_index = t
           /\ Took
           /\ \/ Call(t)
              \/ SyscallReturns(t)
              \/ SyscallBlocks(t)
              \/ CallScheduler(t)
              \/ SleepTest(t)
              \/ SleepArm(t)
              \/ SleepStore(t)
              \/ SleepWake(t)

TaskStep == \E t \in Task : Step(t)

Next == TaskStep \/ TimerTick

Spec == Init /\ [][Next]_vars

(* The processor executes whoever has it, and the timer keeps ticking.  A  *)
(* tick is a second, long enough for MINSLICE steps between two of them.   *)
FairSpec == Spec /\ WF_vars(TaskStep) /\ WF_vars(TimerTick)

-----------------------------------------------------------------------------
(* Properties *)

TypeOK ==
  /\ current_index \in -1 .. NTASKS - 1
  /\ pool \in Pool
  /\ pc \in [Task -> {"user", "try", "yield", "test", "arm", "store", "wake"}]
  /\ op \in [Task -> Op \cup {NoOp}]
  /\ at \in [Task -> Nat \ {0}]
  /\ end \in [Task -> UNARMED .. MAXSLEEP]
  /\ reg \in [Task -> UNARMED .. MAXSLEEP]
  /\ since \in [Task -> 0 .. MAXSLEEP]
  /\ got \in [Task -> Int]
  /\ owns \in [Task -> SUBSET Mutex]
  /\ taken \in [Task -> [Sem -> Int]]
  /\ slice \in 0 .. MINSLICE

(* msg_mutex_wait and msg_mutex_release against what the callers were      *)
(* told: a mutex is locked in the pool, with its holder's TCB as owner, as *)
(* long as some task was granted it, and no two tasks ever were.           *)
MutexOwnership ==
  \A m \in Mutex :
    LET slot == pool[MutexSlot(m)] IN
    /\ slot.flag = 1 <=> \E t \in Task : m \in owns[t]
    /\ \A t \in Task : m \in owns[t] => slot.data = TCB(t)

MutualExclusion ==
  \A m \in Mutex, t, u \in Task : m \in owns[t] \cap owns[u] => t = u

(* sem_p and sem_v of all tasks together neither lose nor invent a unit,   *)
(* wherever the timer interrupts their callers.                            *)
SemInitial(s) == IF s = SEMNUM THEN SEMVALUE ELSE 0

SemConserved ==
  \A s \in Sem :
    pool[SemSlot(s)].flag + Total([t \in Task |-> taken[t][s]])
      = SemInitial(s)

(* Tasks that take a unit before they return one: never more of them in    *)
(* their critical sections than sem_init allowed.                          *)
SemBound ==
  Cardinality({t \in Task : taken[t][SEMNUM] > 0}) <= SEMVALUE

(* navilnux_sleep(n) returns after at least n timer ticks, wherever the    *)
(* timer interrupts its reads and writes of sleep_end_tick.                *)
SleepNotEarly == \A t \in Task : pc[t] = "wake" => since[t] >= op[t].num

(* navilnux_mutex_wait does not compare the owner with its caller: a task  *)
(* that waits for a mutex it was granted polls for ever, because nobody    *)
(* else can release it.                                                    *)
SelfWait(t) == /\ pc[t] \in {"try", "yield"}
               /\ op[t].call = "mutex_wait"
               /\ op[t].num \in owns[t]

SelfWaitsForever == [][\A t \in Task : SelfWait(t) => SelfWait(t)']_vars

(* Every library call returns: no task waits for ever for a mutex, a       *)
(* semaphore, a message or the end of its sleep.                           *)
CallsReturn == \A t \in Task : pc[t] # "user" ~> pc[t] = "user"

(* The pool as the tasks may think of it: independent objects. *)
OwnerOf(m) == LET slot == pool[MutexSlot(m)] IN
              IF slot.flag = 0 THEN -1 ELSE slot.data - 1

Service == INSTANCE SyncService WITH
             Client  <- Task,
             Nobody  <- -1,
             running <- current_index,
             owner   <- [m \in Mutex |-> OwnerOf(m)],
             units   <- [s \in Sem |-> pool[SemSlot(s)].flag],
             box     <- [b \in Box |-> IF pool[b].flag = 0 THEN <<>>
                                       ELSE <<pool[b].data>>]

(* Three kinds of objects share one pool and one lock-free library: to the *)
(* tasks they are owned mutexes, counting semaphores and one-place         *)
(* mailboxes, each changed only by an operation of the running task.       *)
ServiceSpec == Service!Spec

(* The header gives messages the slots ITCSTART .. ITCEND; what a task     *)
(* sends or fetches changes no other slot.                                 *)
ItcInRange ==
  [][\A t \in Task :
       (Step(t) /\ op[t].call \in {"itc_send", "itc_get"}) =>
         \A i \in Index \ (ITCSTART .. ITCEND) : pool'[i] = pool[i]]_vars
=============================================================================
