------------------------------ MODULE NavilMsg ------------------------------
(***************************************************************************)
(* The message manager, navilnux_msg.c: one pool of [data, flag] slots for *)
(* inter-task messages, semaphores and mutexes.  A semaphore or mutex      *)
(* number is an offset into its part of the pool; a message number is the  *)
(* slot itself, and any slot of the pool will do.  Each routine runs       *)
(* inside a system call, with interrupts masked, so it is one operator on  *)
(* the pool; its result also says what it returned.                        *)
(***************************************************************************)
EXTENDS Integers

CONSTANTS MAXMSG,                 \* slots in msgmng.free_msg_pool (255)
          ITCSTART, ITCEND,       \* slots meant for messages (0..99)
          SEMSTART, SEMEND,       \* slots of the semaphores (100..199)
          MUTEXSTART, MUTEXEND    \* slots of the mutexes (200..254)

ASSUME PoolAssumption ==
  /\ {MAXMSG, ITCSTART, ITCEND, SEMSTART, SEMEND, MUTEXSTART, MUTEXEND}
       \subseteq Nat
  /\ ITCSTART = 0
  /\ ITCEND < SEMSTART
  /\ SEMSTART <= SEMEND
  /\ SEMEND < MUTEXSTART
  /\ MUTEXSTART <= MUTEXEND
  /\ MUTEXEND < MAXMSG

Index == 0 .. MAXMSG - 1
Slot  == [data : Int, flag : Int]
Pool  == [Index -> Slot]

(* What a routine returned, the pool it left, the message it handed over.  *)
Result(ret, pool) == [ret |-> ret, pool |-> pool, data |-> 0]

BadNumber(pool) == Result(-1, pool)
TryAgain(pool)  == Result(-2, pool)

-----------------------------------------------------------------------------
msg_init == [i \in Index |-> [data |-> 0, flag |-> 0]]

msg_itc_send(pool, itcnum, data) ==
  IF itcnum \notin Index THEN BadNumber(pool)
  ELSE Result(itcnum, [pool EXCEPT ![itcnum] = [data |-> data, flag |-> 1]])

(* Variant with a defect: the message stays in the slot and can be read again. *)
msg_itc_get_keep(pool, itcnum) ==
  IF itcnum \notin Index THEN BadNumber(pool)
  ELSE IF pool[itcnum].flag = 0 THEN TryAgain(pool)
  ELSE [ret |-> 0, pool |-> pool, data |-> pool[itcnum].data]

msg_itc_get(pool, itcnum) ==
  IF itcnum \notin Index THEN BadNumber(pool)
  ELSE IF pool[itcnum].flag = 0 THEN TryAgain(pool)
  ELSE [ret  |-> 0,
        pool |-> [pool EXCEPT ![itcnum] = [data |-> 0, flag |-> 0]],
        data |-> pool[itcnum].data]

SemSlot(semnum)   == semnum + SEMSTART
SemSlots          == SEMSTART .. SEMEND
MutexSlot(mutexnum) == mutexnum + MUTEXSTART
MutexSlots        == MUTEXSTART .. MUTEXEND

msg_sem_init(pool, semnum, s) ==
  IF SemSlot(semnum) \notin SemSlots THEN BadNumber(pool)
  ELSE Result(0, [pool EXCEPT ![SemSlot(semnum)].flag = s])

(* Variant with a defect: the count may go one below zero. *)
msg_sem_p_offbyone(pool, semnum) ==
  IF SemSlot(semnum) \notin SemSlots THEN BadNumber(pool)
  ELSE IF pool[SemSlot(semnum)].flag < 0 THEN TryAgain(pool)
  ELSE Result(0, [pool EXCEPT ![SemSlot(semnum)].flag = @ - 1])

msg_sem_p(pool, semnum) ==
  IF SemSlot(semnum) \notin SemSlots THEN BadNumber(pool)
  ELSE IF pool[SemSlot(semnum)].flag <= 0 THEN TryAgain(pool)
  ELSE Result(0, [pool EXCEPT ![SemSlot(semnum)].flag = @ - 1])

(* Variant with a defect: a unit is returned by setting the count to one. *)
msg_sem_v_set(pool, semnum) ==
  IF SemSlot(semnum) \notin SemSlots THEN BadNumber(pool)
  ELSE Result(0, [pool EXCEPT ![SemSlot(semnum)].flag = 1])

msg_sem_v(pool, semnum) ==
  IF SemSlot(semnum) \notin SemSlots THEN BadNumber(pool)
  ELSE Result(0, [pool EXCEPT ![SemSlot(semnum)].flag = @ + 1])

(* Variant with a defect: the owner is not recorded. *)
msg_mutex_wait_noowner(pool, mutexnum, me) ==
  IF MutexSlot(mutexnum) \notin MutexSlots THEN BadNumber(pool)
  ELSE IF pool[MutexSlot(mutexnum)].flag # 0 THEN TryAgain(pool)
  ELSE Result(0, [pool EXCEPT ![MutexSlot(mutexnum)].flag = 1])

(* me is navilnux_current, the address of the caller's TCB: never 0. *)
msg_mutex_wait(pool, mutexnum, me) ==
  IF MutexSlot(mutexnum) \notin MutexSlots THEN BadNumber(pool)
  ELSE IF pool[MutexSlot(mutexnum)].flag # 0 THEN TryAgain(pool)
  ELSE Result(0, [pool EXCEPT ![MutexSlot(mutexnum)] =
                                [data |-> me, flag |-> 1]])

(* Variant with a defect: anybody may release, as in src/source/chap16. *)
msg_mutex_release_anyone(pool, mutexnum, me) ==
  IF MutexSlot(mutexnum) \notin MutexSlots THEN BadNumber(pool)
  ELSE Result(0, [pool EXCEPT ![MutexSlot(mutexnum)] =
                                [data |-> 0, flag |-> 0]])

(* Variant with a defect: the flag stays set. *)
msg_mutex_release_keepflag(pool, mutexnum, me) ==
  IF MutexSlot(mutexnum) \notin MutexSlots THEN BadNumber(pool)
  ELSE IF pool[MutexSlot(mutexnum)].data # me THEN TryAgain(pool)
  ELSE Result(0, [pool EXCEPT ![MutexSlot(mutexnum)].data = 0])

(* -2 here means "not mine", and the library hands it to the caller. *)
msg_mutex_release(pool, mutexnum, me) ==
  IF MutexSlot(mutexnum) \notin MutexSlots THEN BadNumber(pool)
  ELSE IF pool[MutexSlot(mutexnum)].data # me THEN TryAgain(pool)
  ELSE Result(0, [pool EXCEPT ![MutexSlot(mutexnum)] =
                                [data |-> 0, flag |-> 0]])
=============================================================================
