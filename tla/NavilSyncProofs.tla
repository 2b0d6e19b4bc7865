-------------------------- MODULE NavilSyncProofs --------------------------
(***************************************************************************)
(* Proofs about NavilSync for any number of tasks, any user programs and   *)
(* any division of the pool.  Where the objects could interfere through    *)
(* the pool the theorems assume MessagesInRange: the code does not.        *)
(***************************************************************************)
EXTENDS NavilSync, TotalsProofs

(* The library knows what it is doing for whom. *)
PlaceInv ==
  \A t \in Task :
    /\ at[t] \in 1 .. Len(Program[t])
    /\ pc[t] = "user" <=> op[t] = NoOp
    /\ op[t] # NoOp => \E i \in 1 .. Len(Program[t]) : op[t] \in Program[t][i]
    /\ pc[t] = "try" => op[t].call # "sleep"
    /\ pc[t] \in {"test", "arm", "store", "wake"} => op[t].call = "sleep"
    /\ op[t].call = "sleep" => op[t].num \in 0 .. MAXSLEEP

(* A deadline, stored or about to be, is no closer than the sleep still    *)
(* has to last.                                                            *)
SleepInv ==
  \A t \in Task :
    /\ pc[t] = "store" <=> reg[t] # UNARMED
    /\ pc[t] = "store" => reg[t] + since[t] >= op[t].num
    /\ end[t] # UNARMED => /\ Sleeping(t)
                           /\ pc[t] \notin {"arm", "store"}
                           /\ end[t] + since[t] >= op[t].num
    /\ pc[t] = "wake" => since[t] >= op[t].num

(* The pool against the history of grants. *)
MutexInv ==
  \A m \in Mutex :
    LET slot == pool[MutexSlot(m)] IN
    /\ slot.flag \in {0, 1}
    /\ slot.flag = 0 => slot.data = 0
    /\ slot.flag = 1 => \E t \in Task : m \in owns[t]
    /\ \A t \in Task : m \in owns[t] => slot.flag = 1 /\ slot.data = TCB(t)

IInv == TypeOK /\ PlaceInv /\ SleepInv

-----------------------------------------------------------------------------
(* The parts of the pool lie in it and apart. *)
LEMMA SlotsApart ==
  /\ \A n \in Int : SemSlot(n) \in SemSlots <=> n \in Sem
  /\ \A n \in Int : MutexSlot(n) \in MutexSlots <=> n \in Mutex
  /\ \A s \in Sem : SemSlot(s) \in Index
  /\ \A m \in Mutex : MutexSlot(m) \in Index
  /\ \A s \in Sem, m \in Mutex : SemSlot(s) # MutexSlot(m)
  /\ \A b \in Box : /\ b \in Index
                    /\ \A s \in Sem : SemSlot(s) # b
                    /\ \A m \in Mutex : MutexSlot(m) # b
  /\ \A s, r \in Sem : SemSlot(s) = SemSlot(r) => s = r
  /\ \A m, k \in Mutex : MutexSlot(m) = MutexSlot(k) => m = k
  /\ \A n \in Index : n <= ITCEND => n \in Box
BY PoolAssumption
DEF SemSlot, SemSlots, MutexSlot, MutexSlots, Index, Sem, Mutex, Box

(* Each message routine changes at most one slot, and says so. *)
Put(p, i, slot) == [p EXCEPT ![i] = slot]

LEMMA PutTyped ==
  ASSUME NEW p \in Pool, NEW i \in Index, NEW slot \in Slot
  PROVE  /\ Put(p, i, slot) \in Pool
         /\ Put(p, i, slot)[i] = slot
         /\ \A j \in Index \ {i} : Put(p, i, slot)[j] = p[j]
BY DEF Put, Pool

LEMMA SendEffect ==
  ASSUME NEW p \in Pool, NEW n \in Int, NEW d \in Int
  PROVE  \/ msg_itc_send(p, n, d) = Result(-1, p)
         \/ /\ n \in Index
            /\ msg_itc_send(p, n, d) =
                 Result(n, Put(p, n, [data |-> d, flag |-> 1]))
BY DEF msg_itc_send, BadNumber, Put

LEMMA GetEffect ==
  ASSUME NEW p \in Pool, NEW n \in Int
  PROVE  \/ msg_itc_get(p, n) = Result(-1, p)
         \/ msg_itc_get(p, n) = Result(-2, p)
         \/ /\ n \in Index
            /\ p[n].flag # 0
            /\ msg_itc_get(p, n) =
                 [ret |-> 0, pool |-> Put(p, n, [data |-> 0, flag |-> 0]),
                  data |-> p[n].data]
BY DEF msg_itc_get, BadNumber, TryAgain, Put

LEMMA FlagOnly ==
  ASSUME NEW p \in Pool, NEW s \in Sem, NEW f \in Int
  PROVE  [p EXCEPT ![SemSlot(s)].flag = f]
           = Put(p, SemSlot(s), [data |-> p[SemSlot(s)].data, flag |-> f])
<1>1. p[SemSlot(s)] \in Slot
  BY SlotsApart DEF Pool
<1>2. [p[SemSlot(s)] EXCEPT !.flag = f]
        = [data |-> p[SemSlot(s)].data, flag |-> f]
  BY <1>1 DEF Slot
<1> QED
  BY <1>2 DEF Put

LEMMA PEffect ==
  ASSUME NEW p \in Pool, NEW n \in Int
  PROVE  \/ msg_sem_p(p, n) = Result(-1, p)
         \/ msg_sem_p(p, n) = Result(-2, p)
         \/ /\ n \in Sem
            /\ p[SemSlot(n)].flag > 0
            /\ msg_sem_p(p, n) =
                 Result(0, Put(p, SemSlot(n),
                               [data |-> p[SemSlot(n)].data,
                                flag |-> p[SemSlot(n)].flag - 1]))
<1>1. CASE n \notin Sem
  BY <1>1, SlotsApart DEF msg_sem_p, BadNumber
<1>2. CASE n \in Sem
  <2> DEFINE i == SemSlot(n)
  <2>1. i \in SemSlots /\ p[i].flag \in Int
    BY <1>2, SlotsApart DEF Pool, Slot
  <2>2. msg_sem_p(p, n) = IF p[i].flag <= 0 THEN Result(-2, p)
                     ELSE Result(0, [p EXCEPT ![i].flag = p[i].flag - 1])
    BY <2>1 DEF msg_sem_p, TryAgain
  <2>3. p[i].flag - 1 \in Int /\ (p[i].flag > 0 \/ p[i].flag <= 0)
    BY <2>1
  <2> QED
    BY <1>2, <2>2, <2>3, FlagOnly
<1> QED
  BY <1>1, <1>2

LEMMA VEffect ==
  ASSUME NEW p \in Pool, NEW n \in Int
  PROVE  \/ msg_sem_v(p, n) = Result(-1, p)
         \/ /\ n \in Sem
            /\ msg_sem_v(p, n) =
                 Result(0, Put(p, SemSlot(n),
                               [data |-> p[SemSlot(n)].data,
                                flag |-> p[SemSlot(n)].flag + 1]))
<1>1. CASE n \notin Sem
  BY <1>1, SlotsApart DEF msg_sem_v, BadNumber
<1>2. CASE n \in Sem
  <2> DEFINE i == SemSlot(n)
  <2>1. i \in SemSlots /\ p[i].flag \in Int
    BY <1>2, SlotsApart DEF Pool, Slot
  <2>2. msg_sem_v(p, n) = Result(0, [p EXCEPT ![i].flag = p[i].flag + 1])
    BY <2>1 DEF msg_sem_v
  <2>3. p[i].flag + 1 \in Int /\ (p[i].flag > 0 \/ p[i].flag <= 0)
    BY <2>1
  <2> QED
    BY <1>2, <2>2, <2>3, FlagOnly
<1> QED
  BY <1>1, <1>2

LEMMA WaitEffect ==
  ASSUME NEW p \in Pool, NEW n \in Int, NEW d \in Int
  PROVE  \/ msg_mutex_wait(p, n, d) = Result(-1, p)
         \/ msg_mutex_wait(p, n, d) = Result(-2, p)
         \/ /\ n \in Mutex
            /\ p[MutexSlot(n)].flag = 0
            /\ msg_mutex_wait(p, n, d) =
                 Result(0, Put(p, MutexSlot(n), [data |-> d, flag |-> 1]))
BY SlotsApart DEF msg_mutex_wait, BadNumber, TryAgain, Put

LEMMA ReleaseEffect ==
  ASSUME NEW p \in Pool, NEW n \in Int, NEW d \in Int
  PROVE  \/ msg_mutex_release(p, n, d) = Result(-1, p)
         \/ msg_mutex_release(p, n, d) = Result(-2, p)
         \/ /\ n \in Mutex
            /\ p[MutexSlot(n)].data = d
            /\ msg_mutex_release(p, n, d) =
                 Result(0, Put(p, MutexSlot(n), [data |-> 0, flag |-> 0]))
BY SlotsApart DEF msg_mutex_release, BadNumber, TryAgain, Put

(* The outcomes of a system call: nothing happened, or one slot changed.   *)
Refused(o, t) == /\ Syscall(o, t).pool = pool
                 /\ Syscall(o, t).ret \in {-1, -2}

Sent(o, t) == /\ o.call = "itc_send"
              /\ o.num \in Index
              /\ Syscall(o, t).ret = o.num
              /\ Syscall(o, t).pool =
                   Put(pool, o.num, [data |-> o.arg, flag |-> 1])

Fetched(o, t) == /\ o.call = "itc_get"
                 /\ o.num \in Index
                 /\ pool[o.num].flag # 0
                 /\ Syscall(o, t).ret = 0
                 /\ Syscall(o, t).pool =
                      Put(pool, o.num, [data |-> 0, flag |-> 0])
                 /\ Syscall(o, t).data = pool[o.num].data

Taken(o, t) == /\ o.call = "sem_p"
               /\ o.num \in Sem
               /\ pool[SemSlot(o.num)].flag > 0
               /\ Syscall(o, t).ret = 0
               /\ Syscall(o, t).pool =
                    Put(pool, SemSlot(o.num),
                        [data |-> pool[SemSlot(o.num)].data,
                         flag |-> pool[SemSlot(o.num)].flag - 1])

Returned(o, t) == /\ o.call = "sem_v"
                  /\ o.num \in Sem
                  /\ Syscall(o, t).ret = 0
                  /\ Syscall(o, t).pool =
                       Put(pool, SemSlot(o.num),
                           [data |-> pool[SemSlot(o.num)].data,
                            flag |-> pool[SemSlot(o.num)].flag + 1])

Locked(o, t) == /\ o.call = "mutex_wait"
                /\ o.num \in Mutex
                /\ pool[MutexSlot(o.num)].flag = 0
                /\ Syscall(o, t).ret = 0
                /\ Syscall(o, t).pool =
                     Put(pool, MutexSlot(o.num), [data |-> TCB(t), flag |-> 1])

Unlocked(o, t) == /\ o.call = "mutex_release"
                  /\ o.num \in Mutex
                  /\ pool[MutexSlot(o.num)].data = TCB(t)
                  /\ Syscall(o, t).ret = 0
                  /\ Syscall(o, t).pool =
                       Put(pool, MutexSlot(o.num), [data |-> 0, flag |-> 0])

LEMMA SyscallOutcome ==
  ASSUME pool \in Pool, NEW o \in Op, o.call # "sleep", NEW t \in Task
  PROVE  \/ Refused(o, t) \/ Sent(o, t) \/ Fetched(o, t) \/ Taken(o, t)
         \/ Returned(o, t) \/ Locked(o, t) \/ Unlocked(o, t)
<1>1. o.num \in Int /\ o.arg \in Int /\ TCB(t) \in Int
  BY SyncAssumption DEF Op, TCB, Task
<1>2. CASE o.call = "itc_send"
  <2>1. Syscall(o, t) = msg_itc_send(pool, o.num, o.arg)
    BY <1>2 DEF Syscall
  <2>2. \/ Syscall(o, t) = Result(-1, pool)
        \/ /\ o.num \in Index
           /\ Syscall(o, t) =
                Result(o.num, Put(pool, o.num, [data |-> o.arg, flag |-> 1]))
    BY <1>1, <2>1, SendEffect
  <2> QED
    BY <1>2, <2>2 DEF Result, Refused, Sent
<1>3. CASE o.call = "itc_get"
  <2>1. Syscall(o, t) = msg_itc_get(pool, o.num)
    BY <1>3 DEF Syscall
  <2>2. \/ Syscall(o, t) = Result(-1, pool)
        \/ Syscall(o, t) = Result(-2, pool)
        \/ /\ o.num \in Index
           /\ pool[o.num].flag # 0
           /\ Syscall(o, t) =
                [ret |-> 0, pool |-> Put(pool, o.num, [data |-> 0, flag |-> 0]),
                 data |-> pool[o.num].data]
    BY <1>1, <2>1, GetEffect
  <2> QED
    BY <1>3, <2>2 DEF Result, Refused, Fetched
<1>4. CASE o.call = "sem_p"
  <2>1. Syscall(o, t) = msg_sem_p(pool, o.num)
    BY <1>4 DEF Syscall
  <2>2. \/ Syscall(o, t) = Result(-1, pool)
        \/ Syscall(o, t) = Result(-2, pool)
        \/ /\ o.num \in Sem
           /\ pool[SemSlot(o.num)].flag > 0
           /\ Syscall(o, t) =
                Result(0, Put(pool, SemSlot(o.num),
                              [data |-> pool[SemSlot(o.num)].data,
                               flag |-> pool[SemSlot(o.num)].flag - 1]))
    BY <1>1, <2>1, PEffect
  <2> QED
    BY <1>4, <2>2 DEF Result, Refused, Taken
<1>5. CASE o.call = "sem_v"
  <2>1. Syscall(o, t) = msg_sem_v(pool, o.num)
    BY <1>5 DEF Syscall
  <2>2. \/ Syscall(o, t) = Result(-1, pool)
        \/ /\ o.num \in Sem
           /\ Syscall(o, t) =
                Result(0, Put(pool, SemSlot(o.num),
                              [data |-> pool[SemSlot(o.num)].data,
                               flag |-> pool[SemSlot(o.num)].flag + 1]))
    BY <1>1, <2>1, VEffect
  <2> QED
    BY <1>5, <2>2 DEF Result, Refused, Returned
<1>6. CASE o.call = "mutex_wait"
  <2>1. Syscall(o, t) = msg_mutex_wait(pool, o.num, TCB(t))
    BY <1>6 DEF Syscall
  <2>2. \/ Syscall(o, t) = Result(-1, pool)
        \/ Syscall(o, t) = Result(-2, pool)
        \/ /\ o.num \in Mutex
           /\ pool[MutexSlot(o.num)].flag = 0
           /\ Syscall(o, t) = Result(0, Put(pool, MutexSlot(o.num),
                                            [data |-> TCB(t), flag |-> 1]))
    BY <1>1, <2>1, WaitEffect
  <2> QED
    BY <1>6, <2>2 DEF Result, Refused, Locked
<1>7. CASE o.call = "mutex_release"
  <2>1. Syscall(o, t) = msg_mutex_release(pool, o.num, TCB(t))
    BY <1>7 DEF Syscall
  <2>2. \/ Syscall(o, t) = Result(-1, pool)
        \/ Syscall(o, t) = Result(-2, pool)
        \/ /\ o.num \in Mutex
           /\ pool[MutexSlot(o.num)].data = TCB(t)
           /\ Syscall(o, t) = Result(0, Put(pool, MutexSlot(o.num),
                                            [data |-> 0, flag |-> 0]))
    BY <1>1, <2>1, ReleaseEffect
  <2> QED
    BY <1>7, <2>2 DEF Result, Refused, Unlocked
<1> QED
  BY <1>2, <1>3, <1>4, <1>5, <1>6, <1>7 DEF Op, Calls

(* A call leaves a pool behind, and a message it fetched is a number. *)
LEMMA SyscallTyped ==
  ASSUME pool \in Pool, NEW o \in Op, o.call # "sleep", NEW t \in Task
  PROVE  /\ Syscall(o, t).pool \in Pool
         /\ Syscall(o, t).ret = 0 /\ o.call = "itc_get"
              => Syscall(o, t).data \in Int
<1>1. o.num \in Int /\ o.arg \in Int /\ TCB(t) \in Int
  BY SyncAssumption DEF Op, TCB, Task
<1>2. \A i \in Index : pool[i].data \in Int /\ pool[i].flag \in Int
  BY DEF Pool, Slot
<1>3. \A d, f \in Int : [data |-> d, flag |-> f] \in Slot
  BY DEF Slot
<1>4. \A i \in Index, d, f \in Int :
        Put(pool, i, [data |-> d, flag |-> f]) \in Pool
  BY <1>3, PutTyped
<1>5. CASE Refused(o, t)
  BY <1>5 DEF Refused
<1>6. CASE Sent(o, t)
  BY <1>1, <1>4, <1>6 DEF Sent
<1>7. CASE Fetched(o, t)
  BY <1>2, <1>4, <1>7 DEF Fetched
<1>8. CASE Taken(o, t)
  <2>1. SemSlot(o.num) \in Index
    BY <1>8, SlotsApart DEF Taken
  <2>2. pool[SemSlot(o.num)].flag - 1 \in Int
    BY <1>2, <2>1
  <2> QED
    BY <1>2, <1>4, <1>8, <2>1, <2>2 DEF Taken
<1>9. CASE Returned(o, t)
  <2>1. SemSlot(o.num) \in Index
    BY <1>9, SlotsApart DEF Returned
  <2>2. pool[SemSlot(o.num)].flag + 1 \in Int
    BY <1>2, <2>1
  <2> QED
    BY <1>2, <1>4, <1>9, <2>1, <2>2 DEF Returned
<1>10. CASE Locked(o, t)
  <2>1. MutexSlot(o.num) \in Index
    BY <1>10, SlotsApart DEF Locked
  <2> QED
    BY <1>1, <1>4, <1>10, <2>1 DEF Locked
<1>11. CASE Unlocked(o, t)
  <2>1. MutexSlot(o.num) \in Index
    BY <1>11, SlotsApart DEF Unlocked
  <2> QED
    BY <1>4, <1>11, <2>1 DEF Unlocked
<1> QED
  BY <1>5, <1>6, <1>7, <1>8, <1>9, <1>10, <1>11, SyscallOutcome

(* What a program can ask for. *)
LEMMA ProgramTyped ==
  ASSUME NEW t \in Task
  PROVE  /\ Len(Program[t]) \in Nat \ {0}
         /\ \A i \in 1 .. Len(Program[t]) : \A o \in Program[t][i] :
              /\ o \in Op
              /\ o # NoOp
              /\ o.call = "sleep" => o.num \in 0 .. MAXSLEEP
<1>1. Program[t] \in Seq(SUBSET Op) /\ Program[t] # <<>>
  BY SyncAssumption
<1>2. \A i \in 1 .. Len(Program[t]) : \A o \in Program[t][i] : o \in Op
  BY <1>1
<1>3. Len(Program[t]) \in Nat \ {0}
  BY <1>1
<1>4. \A o \in Op : o # NoOp
  BY DEF Op, NoOp, Do, Calls
<1> QED
  BY <1>2, <1>3, <1>4, SyncAssumption

LEMMA InitInv == Init => IInv
<1> SUFFICES ASSUME Init PROVE IInv
  OBVIOUS
<1>1. pool \in Pool
  <2>1. msg_init \in Pool
    BY DEF msg_init, Pool, Slot
  <2>2. pool = [msg_init EXCEPT ![SemSlot(SEMNUM)].flag = SEMVALUE]
        \/ pool = msg_init
    BY DEF Init, msg_sem_init, Result, BadNumber
  <2> QED
    BY <2>1, <2>2, SyncAssumption DEF Pool, Slot
<1>2. TypeOK
  BY <1>1, SyncAssumption DEF Init, TypeOK, UNARMED
<1>3. PlaceInv
  BY ProgramTyped DEF Init, PlaceInv, NoOp, Do
<1>4. SleepInv
  BY DEF Init, SleepInv, UNARMED
<1> QED
  BY <1>2, <1>3, <1>4 DEF IInv

-----------------------------------------------------------------------------
(* The library's bookkeeping: one lemma per kind of step. *)

(* The scheduler picks a task, from any index it may have had. *)
LEMMA SchedulerTyped ==
  ASSUME current_index \in -1 .. NTASKS - 1, scheduler
  PROVE  current_index' \in Task
<1>1. NTASKS \in Nat \ {0}
  BY SyncAssumption
<1>2. current_index + 1 \in Nat
  BY <1>1
<1>3. (current_index + 1) % NTASKS \in 0 .. NTASKS - 1
  BY <1>1, <1>2
<1> QED
  BY <1>3 DEF scheduler, Task

LEMMA CallInv ==
  ASSUME IInv, NEW t \in Task, Call(t), slice' \in 0 .. MINSLICE
  PROVE  IInv'
<1> USE DEF IInv
<1>1. PICK o \in Program[t][at[t]] :
        /\ op' = [op EXCEPT ![t] = o]
        /\ Goes(t, IF o.call = "sleep" THEN "test" ELSE "try")
  BY DEF Call
<1>2. /\ o \in Op /\ o # NoOp
      /\ o.call = "sleep" => o.num \in 0 .. MAXSLEEP
      /\ at[t] \in 1 .. Len(Program[t])
  BY <1>1, ProgramTyped DEF PlaceInv
<1>3. /\ pc[t] = "user"
      /\ UNCHANGED <<current_index, pool, at, end, reg, since, got, owns,
                     taken>>
  BY DEF Call, timeVars, history
<1>4. TypeOK'
  BY <1>1, <1>2, <1>3 DEF TypeOK, Goes
<1>5. PlaceInv'
  <2>1. \A u \in Task : u # t => op'[u] = op[u] /\ pc'[u] = pc[u]
    BY <1>1 DEF Goes, TypeOK
  <2>2. op'[t] = o /\ pc'[t] = (IF o.call = "sleep" THEN "test" ELSE "try")
    BY <1>1 DEF Goes, TypeOK
  <2> QED
    BY <1>2, <1>3, <2>1, <2>2 DEF PlaceInv
<1>6. SleepInv'
  <2>1. \A u \in Task : u # t => op'[u] = op[u] /\ pc'[u] = pc[u]
    BY <1>1 DEF Goes, TypeOK
  <2>2. /\ op'[t] = o
        /\ pc'[t] \in {"test", "try"}
        /\ reg[t] = UNARMED /\ end[t] = UNARMED
    BY <1>1, <1>3 DEF Goes, TypeOK, SleepInv, Sleeping
  <2> QED
    BY <1>3, <2>1, <2>2 DEF SleepInv, Sleeping
<1> QED
  BY <1>4, <1>5, <1>6

(* The place a task returns to is in its program. *)
LEMMA ReturnPlace ==
  ASSUME IInv, NEW t \in Task, Return(t)
  PROVE  /\ pc' \in [Task -> {"user", "try", "yield", "test", "arm", "store",
                              "wake"}]
         /\ op' \in [Task -> Op \cup {NoOp}]
         /\ at' \in [Task -> Nat \ {0}]
         /\ pc'[t] = "user" /\ op'[t] = NoOp
         /\ at'[t] \in 1 .. Len(Program[t])
         /\ \A u \in Task : u # t => /\ op'[u] = op[u]
                                     /\ pc'[u] = pc[u]
                                     /\ at'[u] = at[u]
<1>1. Len(Program[t]) \in Nat \ {0} /\ at[t] \in 1 .. Len(Program[t])
  BY ProgramTyped DEF IInv, PlaceInv
<1>2. (at[t] % Len(Program[t])) + 1 \in 1 .. Len(Program[t])
  BY <1>1
<1>3. /\ pc' = [pc EXCEPT ![t] = "user"]
      /\ op' = [op EXCEPT ![t] = NoOp]
      /\ at' = [at EXCEPT ![t] = (at[t] % Len(Program[t])) + 1]
  BY DEF Return, Goes
<1> QED
  BY <1>2, <1>3 DEF IInv, TypeOK

(* Counting a unit leaves counts. *)
LEMMA CountedTyped ==
  ASSUME NEW o, NEW units \in [Sem -> Int]
  PROVE  Counted(o, units) \in [Sem -> Int]
<1>1. \A n \in Sem : units[n] + 1 \in Int /\ units[n] - 1 \in Int
  OBVIOUS
<1>2. CASE o.num \in Sem
  BY <1>1, <1>2 DEF Counted
<1>3. CASE o.num \notin Sem
  BY <1>3 DEF Counted
<1> QED
  BY <1>2, <1>3

LEMMA ReturnsInv ==
  ASSUME IInv, NEW t \in Task, SyscallReturns(t), slice' \in 0 .. MINSLICE
  PROVE  IInv'
<1> USE DEF IInv
<1> DEFINE o == op[t]
<1>1. /\ pc[t] = "try"
      /\ o \in Op /\ o.call # "sleep"
      /\ pool' = Syscall(o, t).pool
      /\ Return(t)
      /\ UNCHANGED <<current_index, end, reg, since>>
  BY ProgramTyped DEF SyscallReturns, PlaceInv, TypeOK, timeVars
<1>2. pool' \in Pool
  BY <1>1, SyscallTyped DEF TypeOK
<1>3. /\ got' \in [Task -> Int]
      /\ owns' \in [Task -> SUBSET Mutex]
      /\ taken' \in [Task -> [Sem -> Int]]
  <2>1. CASE Syscall(o, t).ret = 0
    <3>1. Grant(o, t)
      BY <2>1 DEF SyscallReturns
    <3>2. got' \in [Task -> Int]
      <4>1. o.call = "itc_get" => Syscall(o, t).data \in Int
        BY <1>1, <2>1, SyscallTyped DEF TypeOK
      <4>2. got' = [got EXCEPT ![t] = IF o.call = "itc_get"
                                        THEN Syscall(o, t).data ELSE got[t]]
        BY <3>1 DEF Grant
      <4>3. got[t] \in Int /\ got \in [Task -> Int]
        BY DEF TypeOK
      <4>4. (IF o.call = "itc_get" THEN Syscall(o, t).data ELSE got[t]) \in Int
        BY <4>1, <4>3
      <4> HIDE DEF o, IInv
      <4> QED
        BY <4>2, <4>3, <4>4
    <3>3. o.call = "mutex_wait" => o.num \in Mutex
      <4>1. pool \in Pool
        BY DEF TypeOK
      <4>2. \/ Refused(o, t) \/ Sent(o, t) \/ Fetched(o, t) \/ Taken(o, t)
            \/ Returned(o, t) \/ Locked(o, t) \/ Unlocked(o, t)
        BY <1>1, <4>1, SyscallOutcome
      <4> HIDE DEF o, IInv
      <4> QED
        BY <2>1, <4>2
        DEF Refused, Sent, Fetched, Taken, Returned, Locked, Unlocked
    <3>4. owns' \in [Task -> SUBSET Mutex]
      BY <3>1, <3>3 DEF Grant, TypeOK
    <3>5. taken' \in [Task -> [Sem -> Int]]
      <4>1. taken[t] \in [Sem -> Int] /\ taken \in [Task -> [Sem -> Int]]
        BY DEF TypeOK
      <4>2. Counted(o, taken[t]) \in [Sem -> Int]
        BY <4>1, CountedTyped
      <4> HIDE DEF o, IInv
      <4> QED
        BY <3>1, <4>1, <4>2 DEF Grant
    <3> QED
      BY <3>2, <3>4, <3>5
  <2>2. CASE Syscall(o, t).ret # 0
    BY <2>2 DEF SyscallReturns, TypeOK, history
  <2> QED
    BY <2>1, <2>2
<1> HIDE DEF o
<1>4. TypeOK'
  BY <1>1, <1>2, <1>3, ReturnPlace DEF TypeOK
<1>5. PlaceInv'
  BY <1>1, ReturnPlace DEF PlaceInv, NoOp, Do
<1>6. SleepInv'
  <2>1. reg[t] = UNARMED /\ end[t] = UNARMED
    BY <1>1 DEF o, SleepInv, Sleeping, TypeOK
  <2> QED
    BY <1>1, <2>1, ReturnPlace DEF SleepInv, Sleeping
<1> QED
  BY <1>4, <1>5, <1>6

LEMMA WakeInv ==
  ASSUME IInv, NEW t \in Task, SleepWake(t), slice' \in 0 .. MINSLICE
  PROVE  IInv'
<1> USE DEF IInv
<1>1. /\ pc[t] = "wake"
      /\ end' = [end EXCEPT ![t] = UNARMED]
      /\ since' = [since EXCEPT ![t] = 0]
      /\ Return(t)
      /\ UNCHANGED <<current_index, pool, reg, got, owns, taken>>
  BY DEF SleepWake, history
<1>2. TypeOK'
  <2>1. MAXSLEEP \in Nat /\ UNARMED \in UNARMED .. MAXSLEEP
    BY SyncAssumption DEF UNARMED
  <2>2. /\ end' \in [Task -> UNARMED .. MAXSLEEP]
        /\ since' \in [Task -> 0 .. MAXSLEEP]
    BY <1>1, <2>1 DEF TypeOK
  <2> QED
    BY <1>1, <2>2, ReturnPlace DEF TypeOK
<1>3. PlaceInv'
  <2>1. /\ pc'[t] = "user" /\ op'[t] = NoOp
        /\ at'[t] \in 1 .. Len(Program[t])
        /\ \A u \in Task : u # t => /\ op'[u] = op[u]
                                    /\ pc'[u] = pc[u]
                                    /\ at'[u] = at[u]
    BY <1>1, ReturnPlace
  <2> QED
    BY <2>1 DEF PlaceInv, NoOp, Do
<1>4. SleepInv'
  <2>1. /\ end'[t] = UNARMED /\ reg'[t] = UNARMED
        /\ \A u \in Task : u # t => end'[u] = end[u] /\ since'[u] = since[u]
    BY <1>1 DEF TypeOK, SleepInv
  <2> QED
    BY <1>1, <2>1, ReturnPlace DEF SleepInv, Sleeping
<1> QED
  BY <1>2, <1>3, <1>4

(* The steps that only move a task inside the library. *)
LEMMA MoveInv ==
  ASSUME IInv, NEW t \in Task, slice' \in 0 .. MINSLICE,
         \/ SyscallBlocks(t) \/ CallScheduler(t) \/ SleepTest(t)
  PROVE  IInv'
<1> USE DEF IInv
<1>1. /\ \/ /\ pc[t] = "try" /\ pc'[t] = "yield"
         \/ /\ pc[t] = "yield"
            /\ pc'[t] = IF op[t].call = "sleep" THEN "test" ELSE "try"
         \/ /\ pc[t] = "test" /\ end[t] = UNARMED /\ pc'[t] = "arm"
         \/ /\ pc[t] = "test" /\ end[t] = 0 /\ pc'[t] = "wake"
         \/ /\ pc[t] = "test" /\ end[t] # UNARMED /\ end[t] # 0
            /\ pc'[t] = "yield"
      /\ pc' = [pc EXCEPT ![t] = pc'[t]]
      /\ UNCHANGED <<pool, op, at, end, reg, since, got, owns, taken>>
  BY DEF SyscallBlocks, CallScheduler, SleepTest, Goes, TypeOK, timeVars,
         history
<1>2. current_index' \in -1 .. NTASKS - 1
  <2>1. current_index' = current_index \/ scheduler
    BY DEF SyscallBlocks, CallScheduler, SleepTest
  <2>2. Task \subseteq -1 .. NTASKS - 1
    BY SyncAssumption DEF Task
  <2>3. current_index \in -1 .. NTASKS - 1
    BY DEF TypeOK
  <2>4. CASE scheduler
    BY <2>2, <2>3, <2>4, SchedulerTyped
  <2>5. CASE current_index' = current_index
    BY <2>3, <2>5
  <2> HIDE DEF scheduler, IInv
  <2> QED
    BY <2>1, <2>4, <2>5
<1>3. /\ pc'[t] \in {"try", "yield", "test", "arm", "wake"}
      /\ \A u \in Task : u # t => pc'[u] = pc[u]
  BY <1>1 DEF TypeOK
<1>4. TypeOK'
  BY <1>1, <1>2, <1>3 DEF TypeOK
<1>5. PlaceInv'
  BY <1>1, <1>3 DEF PlaceInv
<1>6. SleepInv'
  <2>1. end[t] = 0 => since[t] >= op[t].num
    <3>1. end[t] = 0 => 0 + since[t] >= op[t].num
      BY DEF SleepInv, UNARMED
    <3>2. since[t] \in Int
      BY DEF TypeOK
    <3> QED
      BY <3>1, <3>2
  <2>2. pc'[t] = "arm" => end[t] = UNARMED
    BY <1>1
  <2>3. \A u \in Task : Sleeping(u)' <=> Sleeping(u)
    BY <1>1, <1>3 DEF Sleeping
  <2> QED
    BY <1>1, <1>3, <2>1, <2>2, <2>3 DEF SleepInv
<1> QED
  BY <1>4, <1>5, <1>6

(* The deadline is computed: not yet visible to the task's next test. *)
LEMMA ArmInv ==
  ASSUME IInv, NEW t \in Task, SleepArm(t), slice' \in 0 .. MINSLICE
  PROVE  IInv'
<1> USE DEF IInv
<1>1. /\ pc[t] = "arm" /\ op[t].call = "sleep"
      /\ op[t].num \in 0 .. MAXSLEEP
      /\ since[t] \in 0 .. MAXSLEEP
      /\ end[t] = UNARMED /\ MAXSLEEP \in Nat
  BY SyncAssumption DEF SleepArm, PlaceInv, SleepInv, TypeOK
<1>2. /\ reg' = [reg EXCEPT ![t] = op[t].num]
      /\ pc' = [pc EXCEPT ![t] = "store"]
      /\ UNCHANGED <<current_index, pool, op, at, end, since, got, owns,
                     taken>>
  BY DEF SleepArm, Goes, history
<1>3. /\ pc'[t] = "store" /\ reg'[t] = op[t].num
      /\ \A u \in Task : u # t => pc'[u] = pc[u] /\ reg'[u] = reg[u]
  BY <1>2 DEF TypeOK
<1>4. TypeOK'
  <2>1. op[t].num \in UNARMED .. MAXSLEEP
    BY <1>1 DEF UNARMED
  <2>2. /\ reg' \in [Task -> UNARMED .. MAXSLEEP]
        /\ pc' \in [Task -> {"user", "try", "yield", "test", "arm", "store",
                             "wake"}]
    BY <1>2, <2>1 DEF TypeOK
  <2> QED
    BY <1>2, <2>2 DEF TypeOK
<1>5. PlaceInv'
  BY <1>1, <1>2, <1>3 DEF PlaceInv
<1>6. SleepInv'
  <2>1. op[t].num # UNARMED /\ op[t].num + since[t] >= op[t].num
    BY <1>1 DEF UNARMED
  <2> QED
    BY <1>1, <1>2, <1>3, <2>1 DEF SleepInv, Sleeping
<1> QED
  BY <1>4, <1>5, <1>6

LEMMA StoreInv ==
  ASSUME IInv, NEW t \in Task, SleepStore(t), slice' \in 0 .. MINSLICE
  PROVE  IInv'
<1> USE DEF IInv
<1>1. /\ pc[t] = "store" /\ op[t].call = "sleep"
      /\ reg[t] # UNARMED /\ reg[t] + since[t] >= op[t].num
  BY DEF SleepStore, PlaceInv, SleepInv
<1>2. /\ end' = [end EXCEPT ![t] = reg[t]]
      /\ reg' = [reg EXCEPT ![t] = UNARMED]
      /\ pc' = [pc EXCEPT ![t] = "test"]
      /\ UNCHANGED <<current_index, pool, op, at, since, got, owns, taken>>
  BY DEF SleepStore, Goes, history
<1>3. /\ pc'[t] = "test" /\ reg'[t] = UNARMED /\ end'[t] = reg[t]
      /\ \A u \in Task : u # t => /\ pc'[u] = pc[u]
                                  /\ reg'[u] = reg[u]
                                  /\ end'[u] = end[u]
  BY <1>2 DEF TypeOK
<1>4. TypeOK'
  <2>1. MAXSLEEP \in Nat /\ UNARMED \in UNARMED .. MAXSLEEP
    BY SyncAssumption DEF UNARMED
  <2>2. /\ end' \in [Task -> UNARMED .. MAXSLEEP]
        /\ reg' \in [Task -> UNARMED .. MAXSLEEP]
        /\ pc' \in [Task -> {"user", "try", "yield", "test", "arm", "store",
                             "wake"}]
    BY <1>2, <2>1 DEF TypeOK
  <2> QED
    BY <1>2, <2>2 DEF TypeOK
<1>5. PlaceInv'
  BY <1>1, <1>2, <1>3 DEF PlaceInv
<1>6. SleepInv'
  BY <1>1, <1>2, <1>3 DEF SleepInv, Sleeping
<1> QED
  BY <1>4, <1>5, <1>6

(* A tick shortens what is left of a deadline by no more than it adds to   *)
(* what has been slept, unless the sleep is over already.                  *)
LEMMA CloserBounds ==
  ASSUME NEW n \in UNARMED .. MAXSLEEP
  PROVE  /\ Closer(n) \in UNARMED .. MAXSLEEP
         /\ Closer(n) = UNARMED <=> n = UNARMED
         /\ Closer(n) = n \/ Closer(n) = n - 1
         /\ n # UNARMED => n >= 0 /\ Closer(n) >= 0
<1>1. MAXSLEEP \in Nat
  BY SyncAssumption
<1> QED
  BY <1>1 DEF Closer, UNARMED

LEMMA TickInv ==
  ASSUME IInv, TimerTick
  PROVE  IInv'
<1> USE DEF IInv
<1>1. /\ UNCHANGED <<pool, pc, op, at, got, owns, taken>>
      /\ slice' \in 0 .. MINSLICE
      /\ current_index' \in -1 .. NTASKS - 1
      /\ MAXSLEEP \in Nat
  <2>1. Task \subseteq -1 .. NTASKS - 1
    BY SyncAssumption DEF Task
  <2>2. current_index' \in Task
    BY SchedulerTyped DEF TimerTick, TypeOK
  <2> QED
    BY <2>1, <2>2, SyncAssumption DEF TimerTick, userVars, history
<1>2. \A u \in Task :
        /\ end[u] \in UNARMED .. MAXSLEEP
        /\ reg[u] \in UNARMED .. MAXSLEEP
        /\ since[u] \in 0 .. MAXSLEEP
  BY DEF TypeOK
<1>3. /\ end' = [u \in Task |-> Closer(end[u])]
      /\ reg' = [u \in Task |-> Closer(reg[u])]
      /\ since' = [u \in Task |-> IF Sleeping(u) /\ since[u] < MAXSLEEP
                                    THEN since[u] + 1 ELSE since[u]]
  BY DEF TimerTick
<1>4. \A u \in Task : Sleeping(u)' <=> Sleeping(u)
  BY <1>1 DEF Sleeping
<1>5. \A u \in Task : /\ end'[u] = Closer(end[u])
                      /\ reg'[u] = Closer(reg[u])
                      /\ since'[u] \in 0 .. MAXSLEEP
                      /\ since'[u] >= since[u]
  BY <1>1, <1>2, <1>3
<1>6. TypeOK'
  <2>1. end' \in [Task -> UNARMED .. MAXSLEEP]
    BY <1>2, <1>3, CloserBounds
  <2>2. reg' \in [Task -> UNARMED .. MAXSLEEP]
    BY <1>2, <1>3, CloserBounds
  <2>3. since' \in [Task -> 0 .. MAXSLEEP]
    BY <1>3, <1>5
  <2> QED
    BY <1>1, <2>1, <2>2, <2>3 DEF TypeOK
<1>7. PlaceInv'
  BY <1>1 DEF PlaceInv
<1>8. \A u \in Task : Sleeping(u) =>
        /\ op[u].num \in 0 .. MAXSLEEP
        /\ since'[u] = since[u] + 1 \/ since'[u] >= op[u].num
  <2> SUFFICES ASSUME NEW u \in Task, Sleeping(u)
               PROVE  /\ op[u].num \in 0 .. MAXSLEEP
                      /\ since'[u] = since[u] + 1 \/ since'[u] >= op[u].num
    OBVIOUS
  <2>1. op[u].num \in 0 .. MAXSLEEP
    BY DEF Sleeping, PlaceInv
  <2>2. since'[u] = IF since[u] < MAXSLEEP THEN since[u] + 1 ELSE since[u]
    BY <1>3
  <2> QED
    BY <1>1, <1>2, <2>1, <2>2
<1>9. SleepInv'
  <2> SUFFICES ASSUME NEW u \in Task PROVE
        /\ pc[u] = "store" <=> reg'[u] # UNARMED
        /\ pc[u] = "store" => reg'[u] + since'[u] >= op[u].num
        /\ end'[u] # UNARMED => /\ Sleeping(u)
                                /\ pc[u] \notin {"arm", "store"}
                                /\ end'[u] + since'[u] >= op[u].num
        /\ pc[u] = "wake" => since'[u] >= op[u].num
    BY <1>1, <1>4 DEF SleepInv
  <2>1. /\ pc[u] = "store" <=> reg[u] # UNARMED
        /\ pc[u] = "store" => reg[u] + since[u] >= op[u].num
        /\ end[u] # UNARMED => /\ Sleeping(u)
                               /\ pc[u] \notin {"arm", "store"}
                               /\ end[u] + since[u] >= op[u].num
        /\ pc[u] = "wake" => since[u] >= op[u].num
    BY DEF SleepInv
  <2>2. pc[u] \in {"store", "wake"} => Sleeping(u)
    BY DEF Sleeping, PlaceInv
  <2>3. \A n \in UNARMED .. MAXSLEEP :
          n # UNARMED /\ Sleeping(u) /\ n + since[u] >= op[u].num
            => Closer(n) + since'[u] >= op[u].num
    <3> SUFFICES ASSUME NEW n \in UNARMED .. MAXSLEEP, n # UNARMED,
                        Sleeping(u), n + since[u] >= op[u].num
                 PROVE  Closer(n) + since'[u] >= op[u].num
      OBVIOUS
    <3>1. /\ n \in Int /\ n >= 0
          /\ Closer(n) \in Int /\ Closer(n) >= 0
          /\ Closer(n) = n \/ Closer(n) = n - 1
      BY <1>1, CloserBounds DEF UNARMED
    <3>2. /\ since[u] \in Int /\ since'[u] \in Int /\ op[u].num \in Int
          /\ since'[u] >= since[u]
          /\ since'[u] = since[u] + 1 \/ since'[u] >= op[u].num
      BY <1>1, <1>2, <1>5, <1>8
    <3> QED
      BY <3>1, <3>2
  <2>4. /\ reg'[u] = UNARMED <=> reg[u] = UNARMED
        /\ end'[u] = UNARMED <=> end[u] = UNARMED
    BY <1>2, <1>5, CloserBounds
  <2>5. pc[u] = "store" => reg'[u] + since'[u] >= op[u].num
    BY <1>2, <1>5, <2>1, <2>2, <2>3
  <2>6. end[u] # UNARMED => end'[u] + since'[u] >= op[u].num
    BY <1>2, <1>5, <2>1, <2>3
  <2>7. pc[u] = "wake" => since'[u] >= op[u].num
    <3> SUFFICES ASSUME pc[u] = "wake" PROVE since'[u] >= op[u].num
      OBVIOUS
    <3>1. /\ since[u] \in Int /\ since'[u] \in Int /\ op[u].num \in Int
          /\ since'[u] >= since[u] /\ since[u] >= op[u].num
      BY <1>1, <1>2, <1>5, <1>8, <2>1, <2>2
    <3> QED
      BY <3>1
  <2> QED
    BY <2>1, <2>4, <2>5, <2>6, <2>7
<1> QED
  BY <1>6, <1>7, <1>9

LEMMA StepInv ==
  ASSUME IInv, [Next]_vars
  PROVE  IInv'
<1>1. CASE TaskStep
  <2>1. PICK t \in Task : Step(t)
    BY <1>1 DEF TaskStep
  <2>2. slice' \in 0 .. MINSLICE
    <3>1. MINSLICE \in Nat /\ slice \in 0 .. MINSLICE /\ Took
      BY <2>1, SyncAssumption DEF IInv, TypeOK, Step
    <3> QED
      BY <3>1 DEF Took
  <2> QED
    BY <2>1, <2>2, CallInv, ReturnsInv, MoveInv, ArmInv, StoreInv, WakeInv
    DEF Step
<1>2. CASE TimerTick
  BY <1>2, TickInv
<1>3. CASE UNCHANGED vars
  <2>1. TypeOK'
    BY <1>3 DEF IInv, TypeOK, vars, userVars, timeVars, history
  <2>2. PlaceInv'
    BY <1>3 DEF IInv, PlaceInv, vars, userVars
  <2>3. SleepInv'
    BY <1>3 DEF IInv, SleepInv, Sleeping, vars, userVars, timeVars
  <2> QED
    BY <2>1, <2>2, <2>3 DEF IInv
<1> QED
  BY <1>1, <1>2, <1>3 DEF Next

LEMMA Invariance == Spec => []IInv
<1>1. Init => IInv
  BY InitInv
<1>2. IInv /\ [Next]_vars => IInv'
  BY StepInv
<1> QED
  BY <1>1, <1>2, PTL DEF Spec

(* Every state the tasks, the library and the timer reach is well typed,   *)
(* for any programs.                                                       *)
THEOREM TypeCorrect == Spec => []TypeOK
<1>1. IInv => TypeOK
  BY DEF IInv
<1> QED
  BY <1>1, Invariance, PTL

(* navilnux_sleep(n) lets at least n ticks pass, for any n and wherever    *)
(* the timer interrupts it.                                                *)
THEOREM SleepsLongEnough == Spec => []SleepNotEarly
<1>1. IInv => SleepNotEarly
  BY DEF IInv, SleepInv, SleepNotEarly
<1> QED
  BY <1>1, Invariance, PTL

-----------------------------------------------------------------------------
(* Mutexes: from here on messages stay in the slots that are theirs. *)

LEMMA TCBsDiffer ==
  ASSUME NEW t \in Task, NEW u \in Task
  PROVE  /\ TCB(t) \in Int /\ TCB(t) # 0
         /\ TCB(t) = TCB(u) => t = u
         /\ TCB(t) - 1 = t
BY SyncAssumption DEF TCB, Task

LEMMA MutexInit == Init => MutexInv
<1> SUFFICES ASSUME Init, NEW m \in Mutex
             PROVE  /\ pool[MutexSlot(m)] = [data |-> 0, flag |-> 0]
                    /\ \A t \in Task : m \notin owns[t]
  BY DEF MutexInv
<1>1. \A t \in Task : m \notin owns[t]
  BY DEF Init
<1>2. MutexSlot(m) \in Index /\ MutexSlot(m) # SemSlot(SEMNUM)
  BY SyncAssumption, SlotsApart
<1>3. \/ pool = [msg_init EXCEPT ![SemSlot(SEMNUM)].flag = SEMVALUE]
      \/ pool = msg_init
  BY DEF Init, msg_sem_init, Result, BadNumber
<1> QED
  BY <1>1, <1>2, <1>3 DEF msg_init

(* What the running task asks for is one of its program's calls. *)
LEMMA CallInProgram ==
  ASSUME IInv, NEW t \in Task, pc[t] = "try"
  PROVE  /\ op[t] \in Op /\ op[t].call # "sleep"
         /\ MessagesInRange =>
              (op[t].call \in {"itc_send", "itc_get"} /\ op[t].num \in Index
                 => op[t].num <= ITCEND)
<1>1. op[t] # NoOp /\ op[t].call # "sleep" /\ op[t] \in Op \cup {NoOp}
  BY DEF IInv, PlaceInv, TypeOK
<1>2. PICK i \in 1 .. Len(Program[t]) : op[t] \in Program[t][i]
  BY <1>1 DEF IInv, PlaceInv
<1> QED
  BY <1>1, <1>2 DEF MessagesInRange

(* A call that touches neither a mutex slot nor a grant keeps MutexInv. *)
LEMMA ElsewhereMutexInv ==
  ASSUME MutexInv,
         \A m \in Mutex : pool'[MutexSlot(m)] = pool[MutexSlot(m)],
         owns' = owns
  PROVE  MutexInv'
BY DEF MutexInv

LEMMA MutexReturns ==
  ASSUME MessagesInRange, IInv, MutexInv, NEW t \in Task, SyscallReturns(t)
  PROVE  MutexInv'
<1> DEFINE o == op[t]
<1>1. /\ o \in Op /\ o.call # "sleep"
      /\ o.call \in {"itc_send", "itc_get"} /\ o.num \in Index
           => o.num <= ITCEND
      /\ pool \in Pool
      /\ pool' = Syscall(o, t).pool
      /\ IF Syscall(o, t).ret = 0 THEN Grant(o, t) ELSE UNCHANGED history
      /\ owns \in [Task -> SUBSET Mutex]
  BY CallInProgram DEF SyscallReturns, IInv, TypeOK
<1>2. /\ o.call \notin {"mutex_wait", "mutex_release"} => owns' = owns
      /\ Syscall(o, t).ret # 0 => owns' = owns
  BY <1>1 DEF Grant, history
<1>3. /\ o.call = "mutex_wait" /\ Syscall(o, t).ret = 0
           => owns' = [owns EXCEPT ![t] = owns[t] \cup {o.num}]
      /\ o.call = "mutex_release" /\ Syscall(o, t).ret = 0
           => owns' = [owns EXCEPT ![t] = owns[t] \ {o.num}]
  BY <1>1 DEF Grant
<1> HIDE DEF o
<1>4. \A i \in Index, d, f \in Int :
        LET p == Put(pool, i, [data |-> d, flag |-> f]) IN
        /\ p[i] = [data |-> d, flag |-> f]
        /\ \A j \in Index \ {i} : p[j] = pool[j]
  BY <1>1, PutTyped DEF Slot
<1>5. \A m \in Mutex : MutexSlot(m) \in Index
  BY SlotsApart
<1>6. \A i \in Index : pool[i].data \in Int /\ pool[i].flag \in Int
  BY <1>1 DEF Pool, Slot
<1>7. o.arg \in Int /\ o.num \in Int
  BY <1>1 DEF Op
<1>8. CASE Refused(o, t)
  BY <1>1, <1>2, <1>8, ElsewhereMutexInv DEF Refused
<1>9. CASE Sent(o, t)
  <2>1. o.num \in Box /\ owns' = owns
    BY <1>1, <1>2, <1>9, SlotsApart DEF Sent
  <2>2. \A m \in Mutex : MutexSlot(m) \in Index \ {o.num}
    BY <1>5, <2>1, SlotsApart
  <2>3. \A m \in Mutex : pool'[MutexSlot(m)] = pool[MutexSlot(m)]
    BY <1>1, <1>4, <1>7, <1>9, <2>2 DEF Sent
  <2> QED
    BY <2>1, <2>3, ElsewhereMutexInv
<1>10. CASE Fetched(o, t)
  <2>1. o.num \in Box /\ owns' = owns
    BY <1>1, <1>2, <1>10, SlotsApart DEF Fetched
  <2>2. \A m \in Mutex : MutexSlot(m) \in Index \ {o.num}
    BY <1>5, <2>1, SlotsApart
  <2>3. \A m \in Mutex : pool'[MutexSlot(m)] = pool[MutexSlot(m)]
    BY <1>1, <1>4, <1>10, <2>2 DEF Fetched
  <2> QED
    BY <2>1, <2>3, ElsewhereMutexInv
<1>11. CASE Taken(o, t)
  <2>1. SemSlot(o.num) \in Index /\ owns' = owns
    BY <1>1, <1>2, <1>11, SlotsApart DEF Taken
  <2>2. \A m \in Mutex : MutexSlot(m) \in Index \ {SemSlot(o.num)}
    BY <1>5, <1>11, SlotsApart DEF Taken
  <2>3. /\ pool[SemSlot(o.num)].data \in Int
        /\ pool[SemSlot(o.num)].flag - 1 \in Int
    BY <1>6, <2>1
  <2>4. \A m \in Mutex : pool'[MutexSlot(m)] = pool[MutexSlot(m)]
    BY <1>1, <1>4, <1>11, <2>1, <2>2, <2>3 DEF Taken
  <2> QED
    BY <2>1, <2>4, ElsewhereMutexInv
<1>12. CASE Returned(o, t)
  <2>1. SemSlot(o.num) \in Index /\ owns' = owns
    BY <1>1, <1>2, <1>12, SlotsApart DEF Returned
  <2>2. \A m \in Mutex : MutexSlot(m) \in Index \ {SemSlot(o.num)}
    BY <1>5, <1>12, SlotsApart DEF Returned
  <2>3. /\ pool[SemSlot(o.num)].data \in Int
        /\ pool[SemSlot(o.num)].flag + 1 \in Int
    BY <1>6, <2>1
  <2>4. \A m \in Mutex : pool'[MutexSlot(m)] = pool[MutexSlot(m)]
    BY <1>1, <1>4, <1>12, <2>1, <2>2, <2>3 DEF Returned
  <2> QED
    BY <2>1, <2>4, ElsewhereMutexInv
<1>13. CASE Locked(o, t)
  <2>1. /\ o.num \in Mutex /\ pool[MutexSlot(o.num)].flag = 0
        /\ owns' = [owns EXCEPT ![t] = owns[t] \cup {o.num}]
    BY <1>3, <1>13 DEF Locked
  <2>2. /\ pool'[MutexSlot(o.num)] = [data |-> TCB(t), flag |-> 1]
        /\ \A m \in Mutex : m # o.num =>
             pool'[MutexSlot(m)] = pool[MutexSlot(m)]
    <3>1. \A m \in Mutex : m # o.num =>
            MutexSlot(m) \in Index \ {MutexSlot(o.num)}
      BY <1>5, <2>1, SlotsApart
    <3> QED
      BY <1>1, <1>4, <1>5, <1>13, <2>1, <3>1, TCBsDiffer DEF Locked
  <2>3. \A u \in Task : o.num \notin owns[u]
    BY <2>1 DEF MutexInv
  <2>4. /\ \A u \in Task : u # t => owns'[u] = owns[u]
        /\ owns'[t] = owns[t] \cup {o.num}
    BY <1>1, <2>1
  <2> QED
    BY <2>1, <2>2, <2>3, <2>4 DEF MutexInv
<1>14. CASE Unlocked(o, t)
  <2>1. /\ o.num \in Mutex /\ pool[MutexSlot(o.num)].data = TCB(t)
        /\ owns' = [owns EXCEPT ![t] = owns[t] \ {o.num}]
    BY <1>3, <1>14 DEF Unlocked
  <2>2. /\ pool'[MutexSlot(o.num)] = [data |-> 0, flag |-> 0]
        /\ \A m \in Mutex : m # o.num =>
             pool'[MutexSlot(m)] = pool[MutexSlot(m)]
    <3>1. \A m \in Mutex : m # o.num =>
            MutexSlot(m) \in Index \ {MutexSlot(o.num)}
      BY <1>5, <2>1, SlotsApart
    <3> QED
      BY <1>1, <1>4, <1>5, <1>14, <2>1, <3>1 DEF Unlocked
  <2>3. \A u \in Task : o.num \in owns[u] => u = t
    BY <2>1, TCBsDiffer DEF MutexInv
  <2>4. /\ \A u \in Task : u # t => owns'[u] = owns[u]
        /\ owns'[t] = owns[t] \ {o.num}
    BY <1>1, <2>1
  <2> QED
    BY <2>1, <2>2, <2>3, <2>4 DEF MutexInv
<1> QED
  BY <1>1, <1>8, <1>9, <1>10, <1>11, <1>12, <1>13, <1>14, SyscallOutcome

(* Only a system call that returns changes the pool or a grant. *)
LEMMA OthersLeavePool ==
  ASSUME NEW t \in Task, Step(t)
  PROVE  SyscallReturns(t) \/ UNCHANGED <<pool, got, owns, taken>>
BY DEF Step, Call, SyscallBlocks, CallScheduler, SleepTest, SleepArm,
       SleepStore, SleepWake, history

LEMMA MutexStep ==
  ASSUME MessagesInRange, IInv, MutexInv, [Next]_vars
  PROVE  MutexInv'
<1>1. CASE TaskStep
  <2>1. PICK t \in Task : Step(t)
    BY <1>1 DEF TaskStep
  <2>2. CASE SyscallReturns(t)
    BY <2>2, MutexReturns
  <2>3. CASE UNCHANGED <<pool, got, owns, taken>>
    BY <2>3 DEF MutexInv
  <2> QED
    BY <2>1, <2>2, <2>3, OthersLeavePool
<1>2. CASE TimerTick
  BY <1>2 DEF TimerTick, MutexInv, history
<1>3. CASE UNCHANGED vars
  BY <1>3 DEF MutexInv, vars, history
<1> QED
  BY <1>1, <1>2, <1>3 DEF Next

LEMMA MutexInvariance ==
  ASSUME MessagesInRange
  PROVE  Spec => [](IInv /\ MutexInv)
<1>1. Init => MutexInv
  BY MutexInit
<1>2. IInv /\ MutexInv /\ [Next]_vars => MutexInv'
  BY MutexStep
<1> QED
  BY <1>1, <1>2, Invariance, PTL DEF Spec

(* A locked mutex belongs to the task whose TCB is recorded, an unlocked   *)
(* one to nobody, for any programs that keep messages in their slots.      *)
THEOREM OwnersRecorded ==
  ASSUME MessagesInRange
  PROVE  Spec => []MutexOwnership
<1>1. MutexInv => MutexOwnership
  BY DEF MutexInv, MutexOwnership
<1> QED
  BY <1>1, MutexInvariance, PTL

(* No two tasks hold a mutex, whoever calls what and whenever the timer    *)
(* interrupts: rests on the owner check of msg_mutex_release.              *)
THEOREM MutexExclusive ==
  ASSUME MessagesInRange
  PROVE  Spec => []MutualExclusion
<1>1. MutexInv => MutualExclusion
  BY TCBsDiffer DEF MutexInv, MutualExclusion
<1> QED
  BY <1>1, MutexInvariance, PTL

-----------------------------------------------------------------------------
(* The refinement: the pool seen as independent objects. *)
Owner == [m \in Mutex |-> OwnerOf(m)]
Units == [s \in Sem |-> pool[SemSlot(s)].flag]
Boxes == [b \in Box |-> IF pool[b].flag = 0 THEN <<>> ELSE <<pool[b].data>>]

(* A step that leaves a part of the pool alone leaves its objects alone.   *)
LEMMA PartsUntouched ==
  /\ (\A m \in Mutex : pool'[MutexSlot(m)] = pool[MutexSlot(m)])
       => Owner' = Owner
  /\ (\A s \in Sem : pool'[SemSlot(s)] = pool[SemSlot(s)]) => Units' = Units
  /\ (\A b \in Box : pool'[b] = pool[b]) => Boxes' = Boxes
BY DEF Owner, OwnerOf, Units, Boxes

(* One slot changes: the objects of the other two kinds do not, nor do the *)
(* other objects of its kind.                                              *)
LEMMA OneSlot ==
  ASSUME pool \in Pool, NEW i \in Index, NEW d \in Int, NEW f \in Int,
         pool' = Put(pool, i, [data |-> d, flag |-> f])
  PROVE  /\ pool'[i] = [data |-> d, flag |-> f]
         /\ \A m \in Mutex : MutexSlot(m) # i =>
              pool'[MutexSlot(m)] = pool[MutexSlot(m)]
         /\ \A s \in Sem : SemSlot(s) # i =>
              pool'[SemSlot(s)] = pool[SemSlot(s)]
         /\ \A b \in Box : b # i => pool'[b] = pool[b]
<1>1. [data |-> d, flag |-> f] \in Slot
  BY DEF Slot
<1>2. /\ pool'[i] = [data |-> d, flag |-> f]
      /\ \A j \in Index \ {i} : pool'[j] = pool[j]
  BY <1>1, PutTyped
<1> QED
  BY <1>2, SlotsApart

(* Two functions that differ at one point. *)
LEMMA OneChange ==
  ASSUME NEW S, NEW F, NEW G, NEW n \in S, NEW v,
         F = [x \in S |-> F[x]], G = [x \in S |-> G[x]],
         G[n] = v, \A x \in S : x # n => G[x] = F[x]
  PROVE  G = [F EXCEPT ![n] = v]
<1> DEFINE H == [F EXCEPT ![n] = v]
<1>1. H = [x \in S |-> H[x]]
  OBVIOUS
<1>2. \A x \in S : H[x] = G[x]
  OBVIOUS
<1> HIDE DEF H
<1>3. G = H
  BY <1>1, <1>2
<1> QED
  BY <1>3 DEF H

LEMMA MessageChange ==
  ASSUME pool \in Pool, NEW n \in Box, NEW d \in Int, NEW f \in Int,
         pool' = Put(pool, n, [data |-> d, flag |-> f])
  PROVE  /\ Owner' = Owner /\ Units' = Units
         /\ Boxes' = [Boxes EXCEPT ![n] = IF f = 0 THEN <<>> ELSE <<d>>]
<1>1. /\ n \in Index
      /\ \A m \in Mutex : MutexSlot(m) # n
      /\ \A s \in Sem : SemSlot(s) # n
  BY SlotsApart
<1>2. /\ pool'[n] = [data |-> d, flag |-> f]
      /\ \A m \in Mutex : pool'[MutexSlot(m)] = pool[MutexSlot(m)]
      /\ \A s \in Sem : pool'[SemSlot(s)] = pool[SemSlot(s)]
      /\ \A b \in Box : b # n => pool'[b] = pool[b]
  BY <1>1, OneSlot
<1>3. Owner' = Owner /\ Units' = Units
  BY <1>2, PartsUntouched
<1>4. Boxes' = [Boxes EXCEPT ![n] = IF f = 0 THEN <<>> ELSE <<d>>]
  <2>1. /\ Boxes = [x \in Box |-> Boxes[x]]
        /\ Boxes' = [x \in Box |-> Boxes'[x]]
    BY DEF Boxes
  <2>2. /\ Boxes'[n] = (IF f = 0 THEN <<>> ELSE <<d>>)
        /\ \A x \in Box : x # n => Boxes'[x] = Boxes[x]
    BY <1>2 DEF Boxes
  <2> HIDE DEF Boxes
  <2> QED
    BY <2>1, <2>2, OneChange
<1> QED
  BY <1>3, <1>4

LEMMA UnitChange ==
  ASSUME pool \in Pool, NEW n \in Sem, NEW d \in Int, NEW f \in Int,
         pool' = Put(pool, SemSlot(n), [data |-> d, flag |-> f])
  PROVE  /\ Owner' = Owner /\ Boxes' = Boxes
         /\ Units' = [Units EXCEPT ![n] = f]
<1>1. /\ SemSlot(n) \in Index
      /\ \A m \in Mutex : MutexSlot(m) # SemSlot(n)
      /\ \A s \in Sem : s # n => SemSlot(s) # SemSlot(n)
      /\ \A b \in Box : b # SemSlot(n)
  BY SlotsApart
<1>2. /\ pool'[SemSlot(n)] = [data |-> d, flag |-> f]
      /\ \A m \in Mutex : pool'[MutexSlot(m)] = pool[MutexSlot(m)]
      /\ \A s \in Sem : s # n => pool'[SemSlot(s)] = pool[SemSlot(s)]
      /\ \A b \in Box : pool'[b] = pool[b]
  BY <1>1, OneSlot
<1>3. Owner' = Owner /\ Boxes' = Boxes
  BY <1>2, PartsUntouched
<1>4. Units' = [Units EXCEPT ![n] = f]
  <2>1. /\ Units = [x \in Sem |-> Units[x]]
        /\ Units' = [x \in Sem |-> Units'[x]]
    BY DEF Units
  <2>2. /\ Units'[n] = f
        /\ \A x \in Sem : x # n => Units'[x] = Units[x]
    BY <1>2 DEF Units
  <2> HIDE DEF Units
  <2> QED
    BY <2>1, <2>2, OneChange
<1> QED
  BY <1>3, <1>4

LEMMA OwnerChange ==
  ASSUME pool \in Pool, NEW n \in Mutex, NEW d \in Int, NEW f \in Int,
         pool' = Put(pool, MutexSlot(n), [data |-> d, flag |-> f])
  PROVE  /\ Units' = Units /\ Boxes' = Boxes
         /\ Owner' = [Owner EXCEPT ![n] = IF f = 0 THEN -1 ELSE d - 1]
<1>1. /\ MutexSlot(n) \in Index
      /\ \A m \in Mutex : m # n => MutexSlot(m) # MutexSlot(n)
      /\ \A s \in Sem : SemSlot(s) # MutexSlot(n)
      /\ \A b \in Box : b # MutexSlot(n)
  BY SlotsApart
<1>2. /\ pool'[MutexSlot(n)] = [data |-> d, flag |-> f]
      /\ \A m \in Mutex : m # n => pool'[MutexSlot(m)] = pool[MutexSlot(m)]
      /\ \A s \in Sem : pool'[SemSlot(s)] = pool[SemSlot(s)]
      /\ \A b \in Box : pool'[b] = pool[b]
  BY <1>1, OneSlot
<1>3. Units' = Units /\ Boxes' = Boxes
  BY <1>2, PartsUntouched
<1>4. Owner' = [Owner EXCEPT ![n] = IF f = 0 THEN -1 ELSE d - 1]
  <2>1. /\ Owner = [x \in Mutex |-> Owner[x]]
        /\ Owner' = [x \in Mutex |-> Owner'[x]]
    BY DEF Owner
  <2>2. /\ Owner'[n] = (IF f = 0 THEN -1 ELSE d - 1)
        /\ \A x \in Mutex : x # n => Owner'[x] = Owner[x]
    BY <1>2 DEF Owner, OwnerOf
  <2> HIDE DEF Owner
  <2> QED
    BY <2>1, <2>2, OneChange
<1> QED
  BY <1>3, <1>4

(* A fetch, in the names of this module. *)
LEMMA FetchAs ==
  ASSUME NEW n \in Box,
         current_index \in Task,
         Boxes[n] # <<>>,
         got' = [got EXCEPT ![current_index] = Head(Boxes[n])],
         Boxes' = [Boxes EXCEPT ![n] = <<>>],
         UNCHANGED <<current_index, Owner, Units>>
  PROVE  Service!Fetch(n)
BY DEF Service!Fetch, Owner, Units, Boxes

LEMMA ReturnsRefines ==
  ASSUME MessagesInRange, IInv, MutexInv, NEW t \in Task, Step(t),
         SyscallReturns(t)
  PROVE  [Service!Next]_<<current_index, Owner, Units, Boxes, got>>
<1> DEFINE o == op[t]
<1>1. /\ o \in Op /\ o.call # "sleep"
      /\ o.call \in {"itc_send", "itc_get"} /\ o.num \in Index
           => o.num <= ITCEND
      /\ pool \in Pool
      /\ pool' = Syscall(o, t).pool
      /\ IF Syscall(o, t).ret = 0 THEN Grant(o, t) ELSE UNCHANGED history
      /\ current_index = t /\ current_index' = current_index
      /\ got \in [Task -> Int]
  BY CallInProgram DEF Step, SyscallReturns, IInv, TypeOK
<1>2. /\ o.call # "itc_get" => got' = got
      /\ Syscall(o, t).ret # 0 => got' = got
      /\ o.call = "itc_get" /\ Syscall(o, t).ret = 0
           => got' = [got EXCEPT ![t] = Syscall(o, t).data]
  BY <1>1 DEF Grant, history
<1> HIDE DEF o
<1>3. o.arg \in Int /\ o.num \in Int
  BY <1>1 DEF Op
<1>4. \A i \in Index : pool[i].data \in Int /\ pool[i].flag \in Int
  BY <1>1 DEF Pool, Slot
<1>5. CASE Refused(o, t)
  <2>1. pool' = pool /\ got' = got
    BY <1>1, <1>2, <1>5 DEF Refused
  <2> QED
    BY <1>1, <2>1 DEF Owner, OwnerOf, Units, Boxes
<1>6. CASE Sent(o, t)
  <2>1. o.num \in Box /\ got' = got
    BY <1>1, <1>2, <1>6, SlotsApart DEF Sent
  <2>2. /\ Owner' = Owner /\ Units' = Units
        /\ Boxes' = [Boxes EXCEPT ![o.num] = <<o.arg>>]
    BY <1>1, <1>3, <1>6, <2>1, MessageChange DEF Sent
  <2>3. PICK n \in Box : n = o.num
    BY <2>1
  <2>4. Boxes'[n] = <<o.arg>> /\ Len(<<o.arg>>) = 1
    BY <2>2, <2>3 DEF Boxes
  <2>5. Boxes' = [Boxes EXCEPT ![n] = Boxes'[n]]
    BY <2>2, <2>3, <2>4
  <2>6. Service!Send(n)
    BY <1>1, <2>1, <2>2, <2>4, <2>5
    DEF Service!Send, Owner, Units, Boxes
  <2> QED
    BY <2>6 DEF Service!Next
<1>7. CASE Fetched(o, t)
  <2>1. /\ o.num \in Box /\ pool[o.num].flag # 0
        /\ got' = [got EXCEPT ![t] = pool[o.num].data]
    BY <1>1, <1>2, <1>7, SlotsApart DEF Fetched
  <2>2. /\ Owner' = Owner /\ Units' = Units
        /\ Boxes' = [Boxes EXCEPT ![o.num] = <<>>]
    BY <1>1, <1>7, <2>1, MessageChange DEF Fetched
  <2>3. PICK n \in Box : n = o.num
    BY <2>1
  <2>4. Boxes[n] = <<pool[n].data>>
    BY <2>1, <2>3 DEF Boxes
  <2>5. Boxes[n] # <<>> /\ Head(Boxes[n]) = pool[n].data
    BY <2>4
  <2>6. Service!Fetch(n)
    BY <1>1, <2>1, <2>2, <2>3, <2>5, FetchAs
  <2> QED
    BY <2>6 DEF Service!Next
<1>8. CASE Taken(o, t)
  <2>1. /\ o.num \in Sem /\ got' = got /\ SemSlot(o.num) \in Index
        /\ pool[SemSlot(o.num)].flag > 0
    BY <1>1, <1>2, <1>8, SlotsApart DEF Taken
  <2>2. /\ pool[SemSlot(o.num)].data \in Int
        /\ pool[SemSlot(o.num)].flag - 1 \in Int
    BY <1>4, <2>1
  <2>3. /\ Owner' = Owner /\ Boxes' = Boxes
        /\ Units' = [Units EXCEPT ![o.num] = pool[SemSlot(o.num)].flag - 1]
    BY <1>1, <1>8, <2>1, <2>2, UnitChange DEF Taken
  <2>4. Units[o.num] = pool[SemSlot(o.num)].flag
    BY <2>1 DEF Units
  <2>5. Service!P(o.num)
    BY <1>1, <2>1, <2>3, <2>4 DEF Service!P, Owner, Units, Boxes
  <2> QED
    BY <2>1, <2>5 DEF Service!Next
<1>9. CASE Returned(o, t)
  <2>1. /\ o.num \in Sem /\ got' = got /\ SemSlot(o.num) \in Index
    BY <1>1, <1>2, <1>9, SlotsApart DEF Returned
  <2>2. /\ pool[SemSlot(o.num)].data \in Int
        /\ pool[SemSlot(o.num)].flag + 1 \in Int
    BY <1>4, <2>1
  <2>3. /\ Owner' = Owner /\ Boxes' = Boxes
        /\ Units' = [Units EXCEPT ![o.num] = pool[SemSlot(o.num)].flag + 1]
    BY <1>1, <1>9, <2>1, <2>2, UnitChange DEF Returned
  <2>4. Units[o.num] = pool[SemSlot(o.num)].flag
    BY <2>1 DEF Units
  <2>5. Service!V(o.num)
    BY <1>1, <2>1, <2>3, <2>4 DEF Service!V, Owner, Units, Boxes
  <2> QED
    BY <2>1, <2>5 DEF Service!Next
<1>10. CASE Locked(o, t)
  <2>1. /\ o.num \in Mutex /\ got' = got
        /\ pool[MutexSlot(o.num)].flag = 0
        /\ TCB(t) \in Int /\ TCB(t) - 1 = t
    BY <1>1, <1>2, <1>10, TCBsDiffer DEF Locked
  <2>2. /\ Units' = Units /\ Boxes' = Boxes
        /\ Owner' = [Owner EXCEPT ![o.num] = t]
    BY <1>1, <1>10, <2>1, OwnerChange DEF Locked
  <2>3. Owner[o.num] = -1
    BY <2>1 DEF Owner, OwnerOf
  <2>4. Service!Acquire(o.num)
    BY <1>1, <2>1, <2>2, <2>3 DEF Service!Acquire, Owner, Units, Boxes
  <2> QED
    BY <2>1, <2>4 DEF Service!Next
<1>11. CASE Unlocked(o, t)
  <2>1. /\ o.num \in Mutex /\ got' = got
        /\ pool[MutexSlot(o.num)].data = TCB(t)
        /\ TCB(t) # 0 /\ TCB(t) - 1 = t
    BY <1>1, <1>2, <1>11, TCBsDiffer DEF Unlocked
  <2>2. /\ Units' = Units /\ Boxes' = Boxes
        /\ Owner' = [Owner EXCEPT ![o.num] = -1]
    BY <1>1, <1>11, <2>1, OwnerChange DEF Unlocked
  <2>3. Owner[o.num] = t
    BY <2>1 DEF Owner, OwnerOf, MutexInv
  <2>4. Service!Release(o.num)
    BY <1>1, <2>1, <2>2, <2>3 DEF Service!Release, Owner, Units, Boxes
  <2> QED
    BY <2>1, <2>4 DEF Service!Next
<1> QED
  BY <1>1, <1>5, <1>6, <1>7, <1>8, <1>9, <1>10, <1>11, SyscallOutcome

LEMMA StepRefines ==
  ASSUME MessagesInRange, IInv, MutexInv, [Next]_vars
  PROVE  [Service!Next]_<<current_index, Owner, Units, Boxes, got>>
<1>0. pool' = pool => Owner' = Owner /\ Units' = Units /\ Boxes' = Boxes
  BY DEF Owner, OwnerOf, Units, Boxes
<1>1. ASSUME scheduler, UNCHANGED <<pool, got>>
      PROVE  Service!Next
  <2>1. current_index' \in Task
    BY <1>1, SchedulerTyped DEF IInv, TypeOK
  <2>2. Service!Reschedule
    BY <1>0, <1>1, <2>1 DEF Service!Reschedule, Owner, Units, Boxes
  <2> QED
    BY <2>2 DEF Service!Next
<1>2. CASE TaskStep
  <2>1. PICK t \in Task : Step(t)
    BY <1>2 DEF TaskStep
  <2>2. CASE SyscallReturns(t)
    BY <2>1, <2>2, ReturnsRefines
  <2>3. CASE CallScheduler(t)
    BY <1>1, <2>3 DEF CallScheduler, history
  <2>4. CASE UNCHANGED <<current_index, pool, got>>
    BY <1>0, <2>4
  <2>5. \/ SyscallReturns(t) \/ CallScheduler(t)
        \/ UNCHANGED <<current_index, pool, got>>
    BY <2>1 DEF Step, Call, SyscallBlocks, SleepTest, SleepArm, SleepStore,
                SleepWake, history
  <2> QED
    BY <2>2, <2>3, <2>4, <2>5
<1>3. CASE TimerTick
  BY <1>1, <1>3 DEF TimerTick, history
<1>4. CASE UNCHANGED vars
  BY <1>0, <1>4 DEF vars, history
<1> QED
  BY <1>2, <1>3, <1>4 DEF Next

LEMMA InitRefines == Init => Service!Init
<1> SUFFICES ASSUME Init PROVE Service!Init
  OBVIOUS
<1>1. pool \in Pool /\ MutexInv /\ got \in [Task -> Int]
  BY InitInv, MutexInit DEF IInv, TypeOK
<1>2. \A m \in Mutex : OwnerOf(m) = -1
  <2>1. \A m \in Mutex : \A t \in Task : m \notin owns[t]
    BY DEF Init
  <2> QED
    BY <1>1, <2>1 DEF MutexInv, OwnerOf
<1>3. \A b \in Box : pool[b].flag = 0
  <2>1. \A b \in Box : b \in Index /\ b # SemSlot(SEMNUM)
    BY SyncAssumption, SlotsApart
  <2>2. \/ pool = [msg_init EXCEPT ![SemSlot(SEMNUM)].flag = SEMVALUE]
        \/ pool = msg_init
    BY DEF Init, msg_sem_init, Result, BadNumber
  <2> QED
    BY <2>1, <2>2 DEF msg_init
<1>4. [s \in Sem |-> pool[SemSlot(s)].flag] \in [Sem -> Int]
  BY <1>1, SlotsApart DEF Pool, Slot
<1>5. current_index = -1
  BY DEF Init
<1> QED
  BY <1>1, <1>2, <1>3, <1>4, <1>5 DEF Service!Init

(* One pool and one library of polling loops serve as independent owned    *)
(* mutexes, counting semaphores and one-place mailboxes, for any programs  *)
(* that keep messages in their slots.                                      *)
THEOREM ImplementsService ==
  ASSUME MessagesInRange
  PROVE  Spec => ServiceSpec
<1>1. Init => Service!Init
  BY InitRefines
<1>2. IInv /\ MutexInv /\ [Next]_vars => [Service!Next]_(Service!vars)
  BY StepRefines DEF Service!vars, Owner, Units, Boxes
<1> QED
  BY <1>1, <1>2, MutexInvariance, PTL DEF Spec, ServiceSpec, Service!Spec

-----------------------------------------------------------------------------
(* A wait for one's own mutex: the flag its owner set is what refuses it.  *)
LEMMA SelfWaitBlocks ==
  ASSUME IInv, MutexInv, NEW t \in Task, SelfWait(t)
  PROVE  Blocks(op[t], t)
<1> DEFINE m == op[t].num
<1>1. m \in Mutex /\ op[t].call = "mutex_wait" /\ m \in owns[t]
  BY DEF SelfWait, IInv, TypeOK
<1>2. MutexSlot(m) \in MutexSlots
  BY <1>1, SlotsApart DEF Mutex
<1>3. pool[MutexSlot(m)].flag = 1
  BY <1>1 DEF MutexInv
<1>4. msg_mutex_wait(pool, m, TCB(t)) = Result(-2, pool)
  BY <1>2, <1>3 DEF msg_mutex_wait, TryAgain
<1>5. Syscall(op[t], t) = msg_mutex_wait(pool, m, TCB(t))
  BY <1>1 DEF Syscall
<1> QED
  BY <1>1, <1>4, <1>5 DEF Blocks, Blocking, Result

(* What a task is doing and what it was granted is its own business. *)
LEMMA OthersKeepCall ==
  ASSUME IInv, NEW t \in Task, NEW u \in Task, u # t, Step(u)
  PROVE  pc'[t] = pc[t] /\ op'[t] = op[t] /\ owns'[t] = owns[t]
<1>1. pc'[t] = pc[t] /\ op'[t] = op[t]
  BY DEF Step, Call, SyscallReturns, SyscallBlocks, CallScheduler, SleepTest,
         SleepArm, SleepStore, SleepWake, Return, Goes, IInv, TypeOK
<1>2. owns'[t] = owns[t]
  <2>1. CASE UNCHANGED owns
    BY <2>1
  <2>2. CASE ~ UNCHANGED owns
    <3>1. SyscallReturns(u)
      BY <2>2, OthersLeavePool
    <3>2. Grant(op[u], u)
      BY <2>2, <3>1 DEF SyscallReturns, history
    <3> QED
      BY <3>2 DEF Grant, IInv, TypeOK
  <2> QED
    BY <2>1, <2>2
<1> QED
  BY <1>1, <1>2

LEMMA SelfWaitStep ==
  ASSUME IInv, MutexInv, [Next]_vars, NEW t \in Task, SelfWait(t)
  PROVE  SelfWait(t)'
<1>1. CASE TaskStep
  <2>1. PICK u \in Task : Step(u)
    BY <1>1 DEF TaskStep
  <2>2. CASE u # t
    BY <2>1, <2>2, OthersKeepCall DEF SelfWait
  <2>3. CASE u = t
    <3>1. ~ SyscallReturns(t)
      BY SelfWaitBlocks DEF SyscallReturns
    <3>2. UNCHANGED owns
      BY <2>1, <2>3, <3>1, OthersLeavePool
    <3>3. SyscallBlocks(t) \/ CallScheduler(t)
      BY <2>1, <2>3, <3>1
      DEF Step, SelfWait, Call, SleepTest, SleepArm, SleepStore, SleepWake
    <3>4. op' = op /\ pc'[t] \in {"try", "yield"}
      BY <3>3 DEF SyscallBlocks, CallScheduler, Goes, SelfWait, IInv, TypeOK
    <3> QED
      BY <3>2, <3>4 DEF SelfWait
  <2> QED
    BY <2>2, <2>3
<1>2. CASE TimerTick \/ UNCHANGED vars
  BY <1>2 DEF TimerTick, vars, userVars, history, SelfWait
<1> QED
  BY <1>1, <1>2 DEF Next

(* navilnux_mutex_wait does not ask who owns the mutex: whoever waits for  *)
(* one it was granted waits in every later state, whatever other tasks     *)
(* call, because nobody else can release it.                               *)
THEOREM SelfWaitIsForEver ==
  ASSUME MessagesInRange
  PROVE  Spec => SelfWaitsForever
<1>1. IInv /\ MutexInv /\ [Next]_vars
        => [\A t \in Task : SelfWait(t) => SelfWait(t)']_vars
  BY SelfWaitStep
<1> QED
  BY <1>1, MutexInvariance, PTL DEF Spec, SelfWaitsForever

-----------------------------------------------------------------------------
(* The units of a semaphore, in the pool and with the tasks. *)
Held(s) == [t \in Task |-> taken[t][s]]

LEMMA TaskFinite == IsFiniteSet(Task)
BY SyncAssumption, FS_Interval DEF Task

LEMMA HeldTyped ==
  ASSUME taken \in [Task -> [Sem -> Int]], NEW s \in Sem
  PROVE  Held(s) \in [Task -> Int] /\ \A t \in Task : Held(s)[t] = taken[t][s]
BY DEF Held

(* One task's units change: so does the total. *)
LEMMA HeldChange ==
  ASSUME NEW a \in [Task -> [Sem -> Int]], NEW b \in [Task -> [Sem -> Int]],
         NEW s \in Sem, NEW t \in Task,
         \A u \in Task \ {t} : b[u][s] = a[u][s]
  PROVE  /\ Total([u \in Task |-> b[u][s]])
              = Total([u \in Task |-> a[u][s]]) + (b[t][s] - a[t][s])
         /\ Total([u \in Task |-> a[u][s]]) \in Int
<1> DEFINE f == [u \in Task |-> a[u][s]]
           h == [u \in Task |-> b[u][s]]
<1>1. f \in [Task -> Int] /\ h \in [Task -> Int]
  OBVIOUS
<1>2. \A u \in Task : f[u] = a[u][s] /\ h[u] = b[u][s]
  OBVIOUS
<1>3. \A u \in Task \ {t} : h[u] = f[u]
  BY <1>2
<1> HIDE DEF f, h
<1>4. Total(h) = Total(f) + (h[t] - f[t])
  BY <1>1, <1>3, TaskFinite, TotalUpdate
<1>5. Total(f) \in Int
  BY <1>1, TaskFinite, TotalType
<1>6. Total(h) = Total(f) + (b[t][s] - a[t][s]) /\ Total(f) \in Int
  BY <1>2, <1>4, <1>5
<1> QED
  BY <1>6 DEF f, h

LEMMA UnitsInit == Init => SemConserved
<1> SUFFICES ASSUME Init, NEW s \in Sem
             PROVE  pool[SemSlot(s)].flag + Total(Held(s)) = SemInitial(s)
  BY DEF SemConserved, Held
<1>1. Total(Held(s)) = 0
  <2>1. Held(s) \in [Task -> Int] /\ \A t \in Task : Held(s)[t] = 0
    BY DEF Init, Held
  <2> HIDE DEF Held
  <2> QED
    BY <2>1, TaskFinite, TotalZero
<1>2. pool = [msg_init EXCEPT ![SemSlot(SEMNUM)].flag = SEMVALUE]
  <2>1. SEMNUM \in Sem /\ SEMNUM \in Int
    BY SyncAssumption DEF Sem
  <2>2. SemSlot(SEMNUM) \in SemSlots
    BY <2>1, SlotsApart
  <2> QED
    BY <2>2 DEF Init, msg_sem_init, Result
<1>3. /\ SemSlot(s) \in Index /\ SemSlot(SEMNUM) \in Index
      /\ SemSlot(s) = SemSlot(SEMNUM) => s = SEMNUM
  BY SyncAssumption, SlotsApart
<1>4. pool[SemSlot(s)].flag = SemInitial(s)
  BY <1>2, <1>3 DEF msg_init, SemInitial
<1>5. SemInitial(s) \in Int
  BY SyncAssumption DEF SemInitial
<1> QED
  BY <1>1, <1>4, <1>5

(* What a call does to one semaphore: the unit that leaves the pool is the *)
(* one the task is told of.                                                *)
LEMMA UnitsBalance ==
  ASSUME MessagesInRange, IInv, NEW t \in Task, SyscallReturns(t),
         NEW s \in Sem
  PROVE  /\ pool'[SemSlot(s)].flag - pool[SemSlot(s)].flag
              = taken[t][s] - taken'[t][s]
         /\ \A u \in Task \ {t} : taken'[u][s] = taken[u][s]
<1> DEFINE o == op[t]
<1>1. /\ o \in Op /\ o.call # "sleep"
      /\ o.call \in {"itc_send", "itc_get"} /\ o.num \in Index
           => o.num <= ITCEND
      /\ pool \in Pool
      /\ pool' = Syscall(o, t).pool
      /\ IF Syscall(o, t).ret = 0 THEN Grant(o, t) ELSE UNCHANGED history
      /\ taken \in [Task -> [Sem -> Int]]
  BY CallInProgram DEF SyscallReturns, IInv, TypeOK
<1> HIDE DEF o
<1>2. \/ taken' = taken
      \/ taken' = [taken EXCEPT ![t] = Counted(o, taken[t])]
  BY <1>1 DEF Grant, history
<1>3. \A u \in Task \ {t} : taken'[u][s] = taken[u][s]
  BY <1>1, <1>2
<1>4. taken[t][s] \in Int /\ SemSlot(s) \in Index
  BY <1>1, SlotsApart
<1>5. /\ pool[SemSlot(s)].flag \in Int
      /\ \A n \in Index : pool[n].data \in Int /\ pool[n].flag \in Int
  BY <1>1, <1>4 DEF Pool, Slot
<1>6. ASSUME pool'[SemSlot(s)] = pool[SemSlot(s)], taken' = taken
      PROVE  pool'[SemSlot(s)].flag - pool[SemSlot(s)].flag
               = taken[t][s] - taken'[t][s]
  BY <1>4, <1>5, <1>6
<1>7. o.call \notin {"sem_p", "sem_v"} => taken' = taken
  <2>1. o.call \notin {"sem_p", "sem_v"} => Counted(o, taken[t]) = taken[t]
    BY DEF Counted
  <2> QED
    BY <1>1, <1>2, <2>1
(* A call about another slot. *)
<1>8. ASSUME NEW i \in Index, i # SemSlot(s), NEW d \in Int, NEW f \in Int,
             pool' = Put(pool, i, [data |-> d, flag |-> f])
      PROVE  pool'[SemSlot(s)] = pool[SemSlot(s)]
  BY <1>1, <1>4, <1>8, OneSlot
<1>9. CASE Refused(o, t)
  <2>1. UNCHANGED history
    BY <1>1, <1>9 DEF Refused
  <2> QED
    BY <1>1, <1>6, <1>9, <2>1 DEF Refused, history
<1>10. CASE Sent(o, t) \/ Fetched(o, t)
  <2>1. o.num \in Index /\ o.num # SemSlot(s) /\ o.arg \in Int
    BY <1>1, <1>10, SlotsApart DEF Sent, Fetched, Op
  <2>2. taken' = taken
    BY <1>7, <1>10 DEF Sent, Fetched
  <2>3. CASE Sent(o, t)
    BY <1>1, <1>6, <1>8, <2>1, <2>2, <2>3 DEF Sent
  <2>4. CASE Fetched(o, t)
    BY <1>1, <1>6, <1>8, <2>1, <2>2, <2>4 DEF Fetched
  <2> QED
    BY <1>10, <2>3, <2>4
<1>11. CASE Locked(o, t) \/ Unlocked(o, t)
  <2>1. /\ MutexSlot(o.num) \in Index /\ MutexSlot(o.num) # SemSlot(s)
        /\ TCB(t) \in Int
    BY <1>11, SlotsApart, TCBsDiffer DEF Locked, Unlocked
  <2>2. taken' = taken
    BY <1>7, <1>11 DEF Locked, Unlocked
  <2>3. CASE Locked(o, t)
    BY <1>1, <1>6, <1>8, <2>1, <2>2, <2>3 DEF Locked
  <2>4. CASE Unlocked(o, t)
    BY <1>1, <1>6, <1>8, <2>1, <2>2, <2>4 DEF Unlocked
  <2> QED
    BY <1>11, <2>3, <2>4
<1>12. ASSUME Taken(o, t) \/ Returned(o, t)
       PROVE  pool'[SemSlot(s)].flag - pool[SemSlot(s)].flag
                = taken[t][s] - taken'[t][s]
  <2> DEFINE n == o.num
             i == SemSlot(n)
  <2>1. n \in Sem /\ i \in Index /\ Syscall(o, t).ret = 0
    BY <1>12, SlotsApart DEF Taken, Returned
  <2>2. taken' = [taken EXCEPT ![t] = Counted(o, taken[t])]
    BY <1>1, <2>1 DEF Grant
  <2>3. taken[t][n] \in Int /\ taken[t] \in [Sem -> Int]
        /\ pool[i].flag \in Int /\ pool[i].data \in Int
    BY <1>1, <1>5, <2>1
  <2>4. PICK d \in {1, -1} :
          /\ pool' = Put(pool, i, [data |-> pool[i].data,
                                   flag |-> pool[i].flag - d])
          /\ taken'[t][n] = taken[t][n] + d
          /\ \A r \in Sem : r # n => taken'[t][r] = taken[t][r]
    <3>1. CASE Taken(o, t)
      <4>1. Counted(o, taken[t]) = [taken[t] EXCEPT ![n] = @ + 1]
        BY <3>1 DEF Counted, Taken
      <4>2. pool' = Put(pool, i, [data |-> pool[i].data,
                                  flag |-> pool[i].flag - 1])
        BY <1>1, <3>1 DEF Taken
      <4> HIDE DEF n, i
      <4>3. /\ taken'[t][n] = taken[t][n] + 1
            /\ \A r \in Sem : r # n => taken'[t][r] = taken[t][r]
        BY <1>1, <2>1, <2>2, <2>3, <4>1
      <4> QED
        BY <4>2, <4>3
    <3>2. CASE Returned(o, t)
      <4>1. Counted(o, taken[t]) = [taken[t] EXCEPT ![n] = @ - 1]
        BY <3>2 DEF Counted, Returned
      <4>2. pool' = Put(pool, i, [data |-> pool[i].data,
                                  flag |-> pool[i].flag + 1])
        BY <1>1, <3>2 DEF Returned
      <4> HIDE DEF n, i
      <4>3. /\ taken'[t][n] = taken[t][n] - 1
            /\ \A r \in Sem : r # n => taken'[t][r] = taken[t][r]
        BY <1>1, <2>1, <2>2, <2>3, <4>1
      <4>4. /\ taken[t][n] - 1 = taken[t][n] + (-1)
            /\ pool[i].flag + 1 = pool[i].flag - (-1)
        BY <2>3
      <4> QED
        BY <4>2, <4>3, <4>4
    <3> QED
      BY <1>12, <3>1, <3>2
  <2> HIDE DEF n, i
  <2>5. pool[i].flag - d \in Int
    BY <2>3
  <2>6. CASE s = n
    <3>1. pool'[i] = [data |-> pool[i].data, flag |-> pool[i].flag - d]
      BY <1>1, <2>1, <2>3, <2>4, <2>5, OneSlot
    <3>2. pool'[i].flag = pool[i].flag - d
      BY <3>1
    <3>3. SemSlot(s) = i
      BY <2>6 DEF i
    <3> QED
      BY <2>3, <2>4, <2>6, <3>2, <3>3
  <2>7. CASE s # n
    <3>1. i # SemSlot(s)
      BY <2>1, <2>7, SlotsApart DEF i
    <3>2. pool'[SemSlot(s)] = pool[SemSlot(s)]
      BY <1>8, <2>1, <2>3, <2>4, <2>5, <3>1
    <3> QED
      BY <1>4, <1>5, <2>4, <2>7, <3>2
  <2> QED
    BY <2>6, <2>7
<1> QED
  BY <1>1, <1>3, <1>9, <1>10, <1>11, <1>12, SyscallOutcome

LEMMA UnitsStep ==
  ASSUME MessagesInRange, IInv, IInv', SemConserved, [Next]_vars
  PROVE  SemConserved'
<1>1. ASSUME UNCHANGED <<pool, taken>> PROVE SemConserved'
  BY <1>1 DEF SemConserved
<1>2. ASSUME NEW t \in Task, SyscallReturns(t) PROVE SemConserved'
  <2> SUFFICES ASSUME NEW s \in Sem
               PROVE  pool'[SemSlot(s)].flag
                        + Total([u \in Task |-> taken'[u][s]]) = SemInitial(s)
    BY DEF SemConserved, SemInitial
  <2>1. taken \in [Task -> [Sem -> Int]] /\ taken' \in [Task -> [Sem -> Int]]
    BY DEF IInv, TypeOK
  <2>2. /\ pool'[SemSlot(s)].flag - pool[SemSlot(s)].flag
             = taken[t][s] - taken'[t][s]
        /\ \A u \in Task \ {t} : taken'[u][s] = taken[u][s]
    BY <1>2, UnitsBalance
  <2>3. /\ Total([u \in Task |-> taken'[u][s]])
             = Total([u \in Task |-> taken[u][s]])
                 + (taken'[t][s] - taken[t][s])
        /\ Total([u \in Task |-> taken[u][s]]) \in Int
    BY <2>1, <2>2, HeldChange
  <2>4. pool[SemSlot(s)].flag + Total([u \in Task |-> taken[u][s]])
          = SemInitial(s)
    BY DEF SemConserved
  <2>5. /\ pool[SemSlot(s)].flag \in Int /\ pool'[SemSlot(s)].flag \in Int
        /\ taken[t][s] \in Int /\ taken'[t][s] \in Int
        /\ SemInitial(s) \in Int
    <3>1. SemSlot(s) \in Index
      BY SlotsApart
    <3>2. pool \in Pool /\ pool' \in Pool
      BY DEF IInv, TypeOK
    <3>3. /\ pool[SemSlot(s)].flag \in Int
          /\ pool'[SemSlot(s)].flag \in Int
      BY <3>1, <3>2 DEF Pool, Slot
    <3>4. taken[t][s] \in Int /\ taken'[t][s] \in Int
      BY <2>1
    <3>5. SemInitial(s) \in Int
      BY SyncAssumption DEF SemInitial
    <3> QED
      BY <3>3, <3>4, <3>5
  <2> DEFINE before == Total([u \in Task |-> taken[u][s]])
             after == Total([u \in Task |-> taken'[u][s]])
  <2>6. /\ after = before + (taken'[t][s] - taken[t][s])
        /\ before \in Int
        /\ pool[SemSlot(s)].flag + before = SemInitial(s)
    BY <2>3, <2>4
  <2> HIDE DEF before, after
  <2>7. pool'[SemSlot(s)].flag + after = SemInitial(s)
    BY <2>2, <2>5, <2>6
  <2> QED
    BY <2>7 DEF after
<1>3. CASE TaskStep
  BY <1>1, <1>2, <1>3, OthersLeavePool DEF TaskStep
<1>4. CASE TimerTick \/ UNCHANGED vars
  BY <1>1, <1>4 DEF TimerTick, vars, history
<1> QED
  BY <1>3, <1>4 DEF Next

LEMMA UnitsInvariance ==
  ASSUME MessagesInRange
  PROVE  Spec => [](IInv /\ SemConserved)
<1>1. IInv /\ IInv' /\ SemConserved /\ [Next]_vars => SemConserved'
  BY UnitsStep
<1> QED
  BY <1>1, UnitsInit, Invariance, PTL DEF Spec

(* What sem_p takes from the pool its callers hold, and sem_v returns it:  *)
(* no unit is lost or made, for any number of tasks and any calls.         *)
THEOREM UnitsConserved ==
  ASSUME MessagesInRange
  PROVE  Spec => []SemConserved
BY UnitsInvariance, PTL

(* What bounds the tasks inside: no task returns a unit it does not hold   *)
(* beyond MAXEXTRA, and sem_p takes only units that are there.             *)
BorrowInv ==
  \A t \in Task, s \in Sem :
    /\ taken[t][s] >= -MAXEXTRA
    /\ op[t].call = "sem_v" /\ op[t].num = s => taken[t][s] > -MAXEXTRA

FlagInv == \A s \in Sem : pool[SemSlot(s)].flag >= 0

LEMMA BorrowInit == Init => BorrowInv
BY SyncAssumption DEF Init, BorrowInv, NoOp, Do

LEMMA FlagInit == ASSUME SEMVALUE >= 0, Init PROVE FlagInv
<1> SUFFICES ASSUME NEW s \in Sem PROVE pool[SemSlot(s)].flag >= 0
  BY DEF FlagInv
<1>1. SemSlot(s) \in Index
  BY SlotsApart
<1>2. \/ pool = [msg_init EXCEPT ![SemSlot(SEMNUM)].flag = SEMVALUE]
      \/ pool = msg_init
  BY DEF Init, msg_sem_init, Result, BadNumber
<1> QED
  BY <1>1, <1>2 DEF msg_init

(* A unit is taken by a task that called sem_p, returned by one that       *)
(* called sem_v; nobody else's count changes.                              *)
LEMMA TakenChange ==
  ASSUME IInv, NEW t \in Task, SyscallReturns(t), NEW s \in Sem
  PROVE  \/ taken'[t][s] >= taken[t][s]
         \/ /\ op[t].call = "sem_v" /\ op[t].num = s
            /\ taken'[t][s] = taken[t][s] - 1
<1> DEFINE o == op[t]
<1>1. \/ taken' = taken
      \/ taken' = [taken EXCEPT ![t] = Counted(o, taken[t])]
  BY DEF SyscallReturns, Grant, history
<1>2. taken \in [Task -> [Sem -> Int]] /\ taken[t] \in [Sem -> Int]
      /\ taken[t][s] \in Int
  BY DEF IInv, TypeOK
<1>3. CASE taken' = taken
  BY <1>2, <1>3
<1>4. CASE taken' = [taken EXCEPT ![t] = Counted(o, taken[t])]
  <2>1. taken'[t] = Counted(o, taken[t])
    BY <1>2, <1>4
  <2>2. CASE o.call = "sem_p"
    <3>1. taken'[t] = [taken[t] EXCEPT ![o.num] = @ + 1]
      BY <2>1, <2>2 DEF Counted
    <3> HIDE DEF o
    <3>2. taken'[t][s] = IF s = o.num THEN taken[t][s] + 1 ELSE taken[t][s]
      BY <1>2, <3>1
    <3> QED
      BY <1>2, <3>2
  <2>3. CASE o.call = "sem_v"
    <3>1. taken'[t] = [taken[t] EXCEPT ![o.num] = @ - 1]
      BY <2>1, <2>3 DEF Counted
    <3> HIDE DEF o
    <3>2. taken'[t][s] = IF s = o.num THEN taken[t][s] - 1 ELSE taken[t][s]
      BY <1>2, <3>1
    <3>3. s = o.num \/ taken'[t][s] >= taken[t][s]
      BY <1>2, <3>2
    <3>4. s = o.num => taken'[t][s] = taken[t][s] - 1
      BY <3>2
    <3> QED
      BY <2>3, <3>3, <3>4 DEF o
  <2>4. CASE o.call \notin {"sem_p", "sem_v"}
    BY <1>2, <2>1, <2>4 DEF Counted
  <2> QED
    BY <2>2, <2>3, <2>4
<1> QED
  BY <1>1, <1>3, <1>4

LEMMA BorrowStep ==
  ASSUME IInv, IInv', BorrowInv, [Next]_vars
  PROVE  BorrowInv'
<1> SUFFICES ASSUME NEW t \in Task, NEW s \in Sem
             PROVE  /\ taken'[t][s] >= -MAXEXTRA
                    /\ op'[t].call = "sem_v" /\ op'[t].num = s
                          => taken'[t][s] > -MAXEXTRA
  BY DEF BorrowInv
<1>1. taken[t][s] \in Int /\ taken'[t][s] \in Int /\ MAXEXTRA \in Nat
  BY SyncAssumption DEF IInv, TypeOK
<1>2. /\ taken[t][s] >= -MAXEXTRA
      /\ op[t].call = "sem_v" /\ op[t].num = s => taken[t][s] > -MAXEXTRA
  BY DEF BorrowInv
<1>3. CASE taken'[t] = taken[t] /\ (op'[t] = op[t] \/ op'[t] = NoOp)
  BY <1>2, <1>3 DEF NoOp, Do
<1>4. CASE TaskStep
  <2>1. PICK u \in Task : Step(u)
    BY <1>4 DEF TaskStep
  <2>2. CASE SyscallReturns(u)
    <3>1. Return(u)
      BY <2>2 DEF SyscallReturns
    <3>2. op'[u] = NoOp /\ \A v \in Task : v # u => op'[v] = op[v]
      BY <3>1, ReturnPlace
    <3>3. CASE u = t
      <4>1. op'[t].call # "sem_v"
        BY <3>2, <3>3 DEF NoOp, Do
      <4>2. taken'[t][s] >= -MAXEXTRA
        BY <1>1, <1>2, <2>2, <3>3, TakenChange
      <4> QED
        BY <4>1, <4>2
    <3>4. CASE u # t
      <4>1. taken'[t] = taken[t]
        BY <2>2, <3>4 DEF SyscallReturns, Grant, history, IInv, TypeOK
      <4> QED
        BY <1>3, <3>2, <3>4, <4>1
    <3> QED
      BY <3>3, <3>4
  <2>3. CASE Call(u)
    <3>1. UNCHANGED taken
      BY <2>3 DEF Call, history
    <3>2. CASE u # t
      <4>1. op'[t] = op[t]
        BY <2>3, <3>2 DEF Call, IInv, TypeOK
      <4> QED
        BY <1>3, <3>1, <4>1
    <3>3. CASE u = t
      <4>1. PICK o \in Program[t][at[t]] :
              /\ o.call = "sem_v" /\ o.num \in Sem
                   => taken[t][o.num] > -MAXEXTRA
              /\ op' = [op EXCEPT ![t] = o]
        BY <2>3, <3>3 DEF Call
      <4>2. op'[t] = o
        BY <4>1 DEF IInv, TypeOK
      <4> QED
        BY <1>2, <3>1, <4>1, <4>2
    <3> QED
      BY <3>2, <3>3
  <2>4. CASE ~ SyscallReturns(u) /\ ~ Call(u)
    <3>1. UNCHANGED taken
      BY <2>1, <2>4, OthersLeavePool
    <3>2. op'[t] = op[t] \/ op'[t] = NoOp
      <4>1. CASE SleepWake(u)
        BY <4>1, ReturnPlace DEF SleepWake
      <4>2. CASE ~ SleepWake(u)
        BY <2>1, <2>4, <4>2
        DEF Step, SyscallBlocks, CallScheduler, SleepTest, SleepArm, SleepStore
      <4> QED
        BY <4>1, <4>2
    <3> QED
      BY <1>3, <3>1, <3>2
  <2> QED
    BY <2>2, <2>3, <2>4
<1>5. CASE TimerTick \/ UNCHANGED vars
  BY <1>3, <1>5 DEF TimerTick, vars, userVars, history
<1> QED
  BY <1>4, <1>5 DEF Next

LEMMA FlagStep ==
  ASSUME MessagesInRange, IInv, FlagInv, [Next]_vars
  PROVE  FlagInv'
<1>1. ASSUME UNCHANGED pool PROVE FlagInv'
  BY <1>1 DEF FlagInv
<1>2. ASSUME NEW t \in Task, SyscallReturns(t) PROVE FlagInv'
  <2> SUFFICES ASSUME NEW s \in Sem PROVE pool'[SemSlot(s)].flag >= 0
    BY DEF FlagInv
  <2> DEFINE o == op[t]
  <2>1. /\ o \in Op /\ o.call # "sleep"
        /\ o.call \in {"itc_send", "itc_get"} /\ o.num \in Index
             => o.num <= ITCEND
        /\ pool \in Pool
        /\ pool' = Syscall(o, t).pool
    BY <1>2, CallInProgram DEF SyscallReturns, IInv, TypeOK
  <2> HIDE DEF o
  <2>2. /\ SemSlot(s) \in Index
        /\ pool[SemSlot(s)].flag \in Int /\ pool[SemSlot(s)].flag >= 0
    BY <2>1, SlotsApart DEF Pool, Slot, FlagInv
  <2>3. \A n \in Index : pool[n].data \in Int /\ pool[n].flag \in Int
    BY <2>1 DEF Pool, Slot
  <2>4. ASSUME NEW i \in Index, i # SemSlot(s), NEW d \in Int, NEW f \in Int,
               pool' = Put(pool, i, [data |-> d, flag |-> f])
        PROVE  pool'[SemSlot(s)].flag >= 0
    BY <2>1, <2>2, <2>4, OneSlot
  <2>5. ASSUME NEW i \in Index, NEW d \in Int, NEW f \in Int, f >= 0,
               pool' = Put(pool, i, [data |-> d, flag |-> f])
        PROVE  pool'[SemSlot(s)].flag >= 0
    <3>1. CASE i = SemSlot(s)
      <4>1. pool'[i] = [data |-> d, flag |-> f]
        BY <2>1, <2>5, OneSlot
      <4>2. pool'[i].flag = f
        BY <4>1
      <4> QED
        BY <2>5, <3>1, <4>2
    <3>2. CASE i # SemSlot(s)
      BY <2>4, <2>5, <3>2
    <3> QED
      BY <3>1, <3>2
  <2>6. CASE Refused(o, t)
    BY <2>1, <2>2, <2>6 DEF Refused
  <2>7. CASE Sent(o, t)
    BY <2>1, <2>5, <2>7 DEF Sent, Op
  <2>8. CASE Fetched(o, t)
    BY <2>1, <2>5, <2>8 DEF Fetched
  <2>9. CASE Taken(o, t) \/ Returned(o, t)
    <3> DEFINE i == SemSlot(o.num)
    <3>1. /\ i \in Index /\ pool[i].flag \in Int /\ pool[i].flag >= 0
          /\ pool[i].data \in Int
      BY <2>3, <2>9, SlotsApart DEF Taken, Returned, FlagInv
    <3>2. PICK f \in Int : /\ f >= 0
                           /\ pool' = Put(pool, i, [data |-> pool[i].data,
                                                    flag |-> f])
      <4>1. CASE Taken(o, t)
        <5>1. /\ pool[i].flag > 0
              /\ pool' = Put(pool, i, [data |-> pool[i].data,
                                       flag |-> pool[i].flag - 1])
          BY <2>1, <4>1 DEF Taken
        <5>2. pool[i].flag - 1 \in Int /\ pool[i].flag - 1 >= 0
          BY <3>1, <5>1
        <5> QED
          BY <5>1, <5>2
      <4>2. CASE Returned(o, t)
        <5>1. pool' = Put(pool, i, [data |-> pool[i].data,
                                    flag |-> pool[i].flag + 1])
          BY <2>1, <4>2 DEF Returned
        <5>2. pool[i].flag + 1 \in Int /\ pool[i].flag + 1 >= 0
          BY <3>1
        <5> QED
          BY <5>1, <5>2
      <4> QED
        BY <2>9, <4>1, <4>2
    <3> HIDE DEF i
    <3> QED
      BY <2>5, <3>1, <3>2
  <2>10. CASE Locked(o, t) \/ Unlocked(o, t)
    <3>1. MutexSlot(o.num) \in Index /\ TCB(t) \in Int
      BY <2>10, SlotsApart, TCBsDiffer DEF Locked, Unlocked
    <3>2. CASE Locked(o, t)
      BY <2>1, <2>5, <3>1, <3>2 DEF Locked
    <3>3. CASE Unlocked(o, t)
      BY <2>1, <2>5, <3>1, <3>3 DEF Unlocked
    <3> QED
      BY <2>10, <3>2, <3>3
  <2> QED
    BY <2>1, <2>6, <2>7, <2>8, <2>9, <2>10, SyscallOutcome
<1>3. CASE TaskStep
  BY <1>1, <1>2, <1>3, OthersLeavePool DEF TaskStep
<1>4. CASE TimerTick \/ UNCHANGED vars
  BY <1>1, <1>4 DEF TimerTick, vars
<1> QED
  BY <1>3, <1>4 DEF Next

LEMMA BoundFollows ==
  ASSUME MAXEXTRA = 0, IInv, SemConserved, BorrowInv, FlagInv
  PROVE  SemBound
<1> DEFINE f == [t \in Task |-> taken[t][SEMNUM]]
           Inside == {t \in Task : f[t] > 0}
<1>1. SEMNUM \in Sem /\ SemSlot(SEMNUM) \in Index
  BY SyncAssumption, SlotsApart
<1>2. f \in [Task -> Nat]
  <2>1. \A t \in Task : taken[t][SEMNUM] \in Int /\ taken[t][SEMNUM] >= 0
    BY <1>1 DEF IInv, TypeOK, BorrowInv
  <2> QED
    BY <2>1
<1>3. Inside = {t \in Task : taken[t][SEMNUM] > 0}
  OBVIOUS
<1>4. pool[SemSlot(SEMNUM)].flag + Total(f) = SEMVALUE
  BY <1>1 DEF SemConserved, SemInitial
<1>5. /\ pool[SemSlot(SEMNUM)].flag \in Int
      /\ pool[SemSlot(SEMNUM)].flag >= 0
  BY <1>1 DEF FlagInv, IInv, TypeOK, Pool, Slot
<1> HIDE DEF f
<1>6. /\ IsFiniteSet(Inside)
      /\ Cardinality(Inside) <= Total(f)
  BY <1>2, TaskFinite, TotalCounts
<1>7. Total(f) \in Int
  <2>1. f \in [Task -> Int]
    BY <1>2
  <2> QED
    BY <2>1, TaskFinite, TotalType
<1> HIDE DEF Inside
<1>8. Cardinality(Inside) \in Nat
  BY <1>6, FS_CardinalityType
<1>9. Cardinality(Inside) <= SEMVALUE
  BY <1>4, <1>5, <1>6, <1>7, <1>8, SyncAssumption
<1> QED
  BY <1>3, <1>9 DEF SemBound

(* A semaphore keeps its promise: where tasks return only units they took, *)
(* never more of them are inside than navilnux_user allowed.               *)
THEOREM SemaphoreBounds ==
  ASSUME MessagesInRange, MAXEXTRA = 0, SEMVALUE >= 0
  PROVE  Spec => []SemBound
<1>1. Init => BorrowInv /\ FlagInv
  BY BorrowInit, FlagInit
<1>2. IInv /\ IInv' /\ BorrowInv /\ FlagInv /\ [Next]_vars
        => BorrowInv' /\ FlagInv'
  BY BorrowStep, FlagStep
<1>3. IInv /\ SemConserved /\ BorrowInv /\ FlagInv => SemBound
  BY BoundFollows
<1> QED
  BY <1>1, <1>2, <1>3, UnitsInvariance, PTL DEF Spec
=============================================================================
