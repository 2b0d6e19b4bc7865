--------------------------- MODULE NavilDrvProofs ---------------------------
(***************************************************************************)
(* Theorems about NavilDrv, for any tasks, table size and driver numbers.  *)
(***************************************************************************)
EXTENDS NavilDrv, TotalsProofs

(* Why the one check in sys_open is enough: an entry that counts as        *)
(* assigned has a driver, and so has every entry a task has opened.        *)
Registered ==
  /\ \A n \in Entry : pool[n].usecount >= 0 => pool[n].fops = "mydrv"
  /\ \A t \in Task, n \in Entry : opened[t][n] > 0 => pool[n].fops = "mydrv"

IInv == TypeOK /\ Registered /\ WildOnlyUnopened /\ PushesConserved

LEMMA InitInv == Init => IInv
<1> SUFFICES ASSUME Init PROVE IInv
  OBVIOUS
<1>1. pool \in [Entry -> EntryType]
  BY DEF Init, EntryType, Behind
<1>2. \A n \in Entry : pool[n].usecount >= 0 => pool[n].fops = "mydrv"
  BY DEF Init, Behind
<1>3. opened \in [Task -> [Entry -> Nat]]
      /\ \A t \in Task, n \in Entry : opened[t][n] = 0
  BY DEF Init
<1>4. TypeOK
  BY <1>1, <1>3 DEF Init, TypeOK
<1>5. Registered
  BY <1>2, <1>3 DEF Registered
<1> QED BY <1>4, <1>5 DEF Init, IInv, WildOnlyUnopened, PushesConserved

(* The range check lets exactly the entries of the table, and the one      *)
(* behind it, through.                                                     *)
LEMMA InRangeIsEntry ==
  ASSUME NEW n \in Number, InRange(n)
  PROVE  n \in Entry
BY DrvAssumption DEF InRange, Entry

LEMMA OpenInv ==
  ASSUME IInv, NEW t \in Task, NEW n \in Number, sys_open(t, n)
  PROVE  IInv'
<1> n \in Entry
  BY InRangeIsEntry DEF sys_open
<1>1. pool[n].fops = "mydrv" /\ pool[n].usecount \in Int
  BY DEF sys_open, IInv, Registered, TypeOK, EntryType
<1>2. /\ pool' = [pool EXCEPT ![n].usecount = @ + 1]
      /\ opened' = [opened EXCEPT ![t][n] = @ + 1]
      /\ vector' = "gpio0" /\ switch_pushed' = 0
      /\ dropped' = dropped + switch_pushed
      /\ wild' = wild /\ wild = <<>>
  BY <1>1 DEF sys_open, mydrv_open, Running
<1>3. UNCHANGED <<edge, reading, extra, pushes, accepted, read>>
  BY DEF sys_open
<1>4. TypeOK'
  <2>1. pool' \in [Entry -> EntryType]
    <3>1. pool[n] \in EntryType
      BY DEF IInv, TypeOK
    <3>2. [pool[n] EXCEPT !.usecount = @ + 1] \in EntryType
      BY <3>1 DEF EntryType
    <3> QED BY <1>2, <3>2 DEF IInv, TypeOK
  <2>2. opened' \in [Task -> [Entry -> Nat]]
    <3>1. [opened[t] EXCEPT ![n] = @ + 1] \in [Entry -> Nat]
      BY DEF IInv, TypeOK
    <3> QED BY <1>2, <3>1 DEF IInv, TypeOK
  <2> QED BY <1>2, <1>3, <2>1, <2>2 DEF IInv, TypeOK
<1>5. \A m \in Entry : pool'[m].fops = pool[m].fops
  BY <1>2 DEF IInv, TypeOK, EntryType
<1>6. \A m \in Entry : m # n => pool'[m].usecount = pool[m].usecount
  BY <1>2 DEF IInv, TypeOK, EntryType
<1>7. \A u \in Task, m \in Entry :
        <<u, m>> # <<t, n>> => opened'[u][m] = opened[u][m]
  BY <1>2 DEF IInv, TypeOK, EntryType
<1>8. Registered'
  BY <1>1, <1>5, <1>6, <1>7 DEF IInv, Registered
<1>9. WildOnlyUnopened'
  BY <1>2 DEF WildOnlyUnopened
<1>10. PushesConserved'
  BY <1>2, <1>3 DEF IInv, TypeOK, PushesConserved
<1> QED BY <1>4, <1>8, <1>9, <1>10 DEF IInv

LEMMA CloseInv ==
  ASSUME IInv, NEW t \in Task, NEW n \in Number, sys_close(t, n)
  PROVE  IInv'
<1> n \in Entry
  BY InRangeIsEntry DEF sys_close
<1>1. /\ pool' = [pool EXCEPT ![n].usecount = @ - 1]
      /\ UNCHANGED <<vector, switch_pushed, edge, reading, pushes, accepted,
                     read, dropped>>
      /\ wild = <<>>
  BY DEF sys_close, Running
<1>2. pool' \in [Entry -> EntryType]
  <2>1. pool[n] \in EntryType
    BY DEF IInv, TypeOK
  <2>2. [pool[n] EXCEPT !.usecount = @ - 1] \in EntryType
    BY <2>1 DEF EntryType
  <2> QED BY <1>1, <2>2 DEF IInv, TypeOK
<1>3. /\ opened' \in [Task -> [Entry -> Nat]] /\ extra' \in Nat
      /\ \A u \in Task, m \in Entry : opened'[u][m] <= opened[u][m]
  <2>1. CASE opened[t][n] > 0
    <3>1. opened' = [opened EXCEPT ![t][n] = @ - 1] /\ extra' = extra
      BY <2>1 DEF sys_close
    <3>2. opened[t] \in [Entry -> Nat] /\ opened[t][n] \in Nat
      BY DEF IInv, TypeOK
    <3>3. [opened[t] EXCEPT ![n] = @ - 1] \in [Entry -> Nat]
      BY <2>1, <3>2
    <3> QED BY <3>1, <3>2, <3>3 DEF IInv, TypeOK
  <2>2. CASE ~ (opened[t][n] > 0)
    BY <2>2 DEF sys_close, IInv, TypeOK
  <2> QED BY <2>1, <2>2
<1>4. /\ wild' \in {<<>>} \cup (Task \X Entry)
      /\ wild' # <<>> => wild' = <<t, n>> /\ pool[n].fops # "mydrv"
  BY <1>1 DEF sys_close, Jump
<1>5. TypeOK'
  BY <1>1, <1>2, <1>3, <1>4 DEF IInv, TypeOK
<1>6. \A m \in Entry : /\ pool'[m].fops = pool[m].fops
                       /\ pool'[m].usecount <= pool[m].usecount
                       /\ pool'[m].usecount \in Int /\ pool[m].usecount \in Int
  BY <1>1 DEF IInv, TypeOK, EntryType
<1>7. \A u \in Task, m \in Entry : opened[u][m] \in Nat /\ opened'[u][m] \in Nat
  BY <1>3 DEF IInv, TypeOK
<1>8. Registered'
  BY <1>3, <1>6, <1>7 DEF IInv, Registered
<1>9. WildOnlyUnopened'
  <2> SUFFICES ASSUME wild' # <<>> PROVE opened'[wild'[1]][wild'[2]] = 0
    BY DEF WildOnlyUnopened
  <2>1. wild' = <<t, n>> /\ pool[n].fops # "mydrv"
    BY <1>4
  <2>2. ~ (opened[t][n] > 0)
    BY <2>1 DEF IInv, Registered
  <2>3. opened'[t][n] = 0
    BY <1>3, <1>7, <2>2
  <2> QED BY <2>1, <2>3
<1>10. PushesConserved'
  BY <1>1 DEF IInv, PushesConserved
<1> QED BY <1>5, <1>8, <1>9, <1>10 DEF IInv

(* sys_read and sys_write: a driver, or a wild jump, and nothing else.     *)
LEMMA JumpInv ==
  ASSUME IInv, NEW t \in Task, NEW n \in Entry,
         pool[n].fops = "mydrv" \/ wild' = <<t, n>>,
         pool[n].fops = "mydrv" => wild' = wild,
         wild = <<>>, reading' \subseteq Task,
         UNCHANGED <<pool, vector, switch_pushed, edge, opened, extra, pushes,
                     accepted, read, dropped>>
  PROVE  IInv'
<1>1. TypeOK'
  BY DEF IInv, TypeOK
<1>2. Registered' /\ PushesConserved'
  BY DEF IInv, Registered, PushesConserved
<1>3. WildOnlyUnopened'
  <2>1. CASE pool[n].fops = "mydrv"
    BY <2>1 DEF WildOnlyUnopened
  <2>2. CASE pool[n].fops # "mydrv"
    <3>1. ~ (opened[t][n] > 0) /\ opened[t][n] \in Nat
      BY <2>2 DEF IInv, Registered, TypeOK
    <3> QED BY <2>2, <3>1 DEF WildOnlyUnopened
  <2> QED BY <2>1, <2>2
<1> QED BY <1>1, <1>2, <1>3 DEF IInv

LEMMA NextInv == IInv /\ [Next]_vars => IInv'
<1> SUFFICES ASSUME IInv, [Next]_vars PROVE IInv'
  OBVIOUS
<1>1. ASSUME NEW t \in Task, NEW n \in Number, sys_open(t, n) PROVE IInv'
  BY <1>1, OpenInv
<1>2. ASSUME NEW t \in Task, NEW n \in Number, sys_close(t, n) PROVE IInv'
  BY <1>2, CloseInv
<1>3. ASSUME NEW t \in Task, NEW n \in Number, sys_read(t, n) PROVE IInv'
  <2>1. n \in Entry
    BY <1>3, InRangeIsEntry DEF sys_read
  <2> QED BY <1>3, <2>1, JumpInv DEF sys_read, Running, Jump, IInv, TypeOK
<1>4. ASSUME NEW t \in Task, NEW n \in Number, sys_write(t, n) PROVE IInv'
  <2>1. n \in Entry
    BY <1>4, InRangeIsEntry DEF sys_write
  <2> QED BY <1>4, <2>1, JumpInv DEF sys_write, Running, Jump, IInv, TypeOK
<1>5. ASSUME NEW t \in Task, mydrv_read(t) PROVE IInv'
  BY <1>5 DEF mydrv_read, IInv, TypeOK, Registered, WildOnlyUnopened,
              PushesConserved
<1>6. CASE Push
  BY <1>6 DEF Push, IInv, TypeOK, Registered, WildOnlyUnopened, PushesConserved
<1>7. CASE irqHandler
  <2>1. /\ UNCHANGED <<pool, vector, wild, reading, opened, extra, pushes, read,
                       dropped>>
        /\ edge' = FALSE
    BY <1>7 DEF irqHandler
  <2>2. \/ UNCHANGED <<switch_pushed, accepted>>
        \/ switch_pushed # 1 /\ switch_pushed' = 1 /\ accepted' = accepted + 1
    BY <1>7 DEF irqHandler, gpio0_irq_handler
  <2>3. switch_pushed' \in {0, 1} /\ accepted' \in Nat /\ edge' \in BOOLEAN
    <3>1. switch_pushed' \in {0, 1} /\ accepted' \in Nat
      BY <2>2 DEF IInv, TypeOK
    <3>2. edge' \in BOOLEAN
      BY <2>1
    <3> QED BY <3>1, <3>2
  <2>4. TypeOK'
    BY <2>1, <2>3 DEF IInv, TypeOK
  <2>5. PushesConserved'
    BY <2>1, <2>2 DEF IInv, TypeOK, PushesConserved
  <2>6. Registered' /\ WildOnlyUnopened'
    BY <2>1 DEF IInv, Registered, WildOnlyUnopened
  <2> QED BY <2>4, <2>5, <2>6 DEF IInv
<1>8. CASE UNCHANGED vars
  BY <1>8 DEF vars, IInv, TypeOK, Registered, WildOnlyUnopened, PushesConserved
<1> QED BY <1>1, <1>2, <1>3, <1>4, <1>5, <1>6, <1>7, <1>8 DEF Next

LEMMA Invariance == Spec => []IInv
BY InitInv, NextInv, PTL DEF Spec

(* The table, the counts and the driver's flags keep their types.          *)
THEOREM TypeCorrect == Spec => []TypeOK
<1>1. IInv => TypeOK BY DEF IInv
<1> QED BY <1>1, Invariance, PTL

(* A task that calls only drivers it has opened never sends the kernel     *)
(* through an entry without a driver, whatever the other tasks do.         *)
THEOREM OpenProtects == Spec => []WildOnlyUnopened
<1>1. IInv => WildOnlyUnopened BY DEF IInv
<1> QED BY <1>1, Invariance, PTL

(* Every push noted is read once, waiting, or cleared by an open.          *)
THEOREM PushesAccounted == Spec => []PushesConserved
<1>1. IInv => PushesConserved BY DEF IInv
<1> QED BY <1>1, Invariance, PTL

-----------------------------------------------------------------------------
(* There is one driver: what has one's operations is its entry.  Without   *)
(* it an open of another entry would count and change no use count of      *)
(* mydrv.                                                                  *)
OneDriver == \A n \in Entry : pool[n].fops = "mydrv" => n = MYDRV

Opens == [t \in Task |-> opened[t][MYDRV]]

LEMMA OpensTyped == ASSUME TypeOK PROVE Opens \in [Task -> Int]
<1>1. MYDRV \in Entry
  BY DrvAssumption DEF MYDRV, Entry
<1> QED BY <1>1 DEF Opens, TypeOK

LEMMA CountInit == Init => OneDriver /\ UseCountMatches
<1> SUFFICES ASSUME Init PROVE OneDriver /\ UseCountMatches
  OBVIOUS
<1>1. MYDRV \in Entry
  BY DrvAssumption DEF MYDRV, Entry
<1>2. OneDriver
  BY DEF Init, OneDriver, Behind, NULL
<1>3. TypeOK
  BY InitInv DEF IInv
<1>4. \A t \in Task : Opens[t] = 0
  BY <1>1 DEF Init, Opens
<1>5. Total(Opens) = 0
  <2>1. Opens \in [Task -> Int]
    BY <1>3, OpensTyped
  <2> HIDE DEF Opens
  <2> QED BY <1>4, <2>1, DrvAssumption, TotalZero
<1>6. pool[MYDRV].usecount = 0 /\ extra = 0
  BY <1>1 DEF Init
<1> QED BY <1>2, <1>5, <1>6 DEF UseCountMatches, Opens

(* One task's count of its opens changes, or none does. *)
LEMMA OpensChange ==
  ASSUME TypeOK, TypeOK', NEW t \in Task,
         \A u \in Task \ {t} : opened'[u][MYDRV] = opened[u][MYDRV]
  PROVE  /\ Total(Opens') = Total(Opens)
                              + (opened'[t][MYDRV] - opened[t][MYDRV])
         /\ Total(Opens) \in Int
<1>1. Opens \in [Task -> Int]
  BY OpensTyped
<1>2. Opens' \in [Task -> Int]
  <2>1. MYDRV \in Entry
    BY DrvAssumption DEF MYDRV, Entry
  <2> QED BY <2>1 DEF Opens, TypeOK
<1>3. \A u \in Task : /\ Opens[u] = opened[u][MYDRV]
                       /\ Opens'[u] = opened'[u][MYDRV]
  BY DEF Opens
<1>4. \A u \in Task \ {t} : Opens'[u] = Opens[u]
  BY <1>3
<1>5. IsFiniteSet(Task)
  BY DrvAssumption
<1> HIDE DEF Opens
<1>6. Total(Opens') = Total(Opens) + (Opens'[t] - Opens[t])
  BY <1>1, <1>2, <1>4, <1>5, TotalUpdate
<1>7. Total(Opens) \in Int
  BY <1>1, <1>5, TotalType
<1> QED BY <1>3, <1>6, <1>7

LEMMA CountNext ==
  IInv /\ OneDriver /\ UseCountMatches /\ [Next]_vars
    => OneDriver' /\ UseCountMatches'
<1> SUFFICES ASSUME IInv, OneDriver, UseCountMatches, [Next]_vars
             PROVE  OneDriver' /\ UseCountMatches'
  OBVIOUS
<1>1. MYDRV \in Entry
  BY DrvAssumption DEF MYDRV, Entry
<1>2. TypeOK /\ TypeOK'
  BY NextInv DEF IInv
(* A call of t that changes the books of entry n, and balances them. *)
<1>3. ASSUME NEW t \in Task, NEW n \in Entry,
             wild = <<>>,
             wild' = <<>> => pool[n].fops = "mydrv",
             \A m \in Entry : pool'[m].fops = pool[m].fops,
             (pool'[n].usecount - pool[n].usecount) + (extra' - extra)
               = opened'[t][n] - opened[t][n],
             \A u \in Task \ {t} : opened'[u] = opened[u]
      PROVE  OneDriver' /\ UseCountMatches'
  <2>1. OneDriver'
    BY <1>3 DEF OneDriver
  <2>2. ASSUME wild' = <<>>
        PROVE  pool'[MYDRV].usecount + extra' = Total(Opens')
    <3>1. n = MYDRV
      BY <1>3, <2>2 DEF OneDriver
    <3>2. /\ Total(Opens') = Total(Opens)
                                + (opened'[t][MYDRV] - opened[t][MYDRV])
          /\ Total(Opens) \in Int
      BY <1>2, <1>3, OpensChange
    <3>3. pool[MYDRV].usecount + extra = Total(Opens)
      BY <1>3 DEF UseCountMatches, Opens
    <3>4. /\ pool[MYDRV].usecount \in Int /\ pool'[MYDRV].usecount \in Int
          /\ extra \in Int /\ extra' \in Int
      BY <1>1, <1>2 DEF TypeOK, EntryType
    <3> HIDE DEF Opens
    <3> QED BY <1>3, <3>1, <3>2, <3>3, <3>4
  <2> QED BY <2>1, <2>2 DEF UseCountMatches, Opens
<1>4. ASSUME NEW n \in Entry, NEW t \in Task
      PROVE  /\ pool[n] \in EntryType /\ pool[n].usecount \in Int
             /\ opened[t][n] \in Nat /\ extra \in Nat
  BY <1>2 DEF TypeOK, EntryType
<1>5. ASSUME NEW t \in Task, NEW n \in Number,
             sys_open(t, n) \/ sys_close(t, n)
      PROVE  OneDriver' /\ UseCountMatches'
  <2>1. n \in Entry
    BY <1>5, InRangeIsEntry DEF sys_open, sys_close
  <2>2. /\ wild = <<>>
        /\ wild' = <<>> => pool[n].fops = "mydrv"
    BY <1>5 DEF sys_open, sys_close, Running, Jump
  <2>3. \A m \in Entry : pool'[m].fops = pool[m].fops
    <3>1. \/ pool' = [pool EXCEPT ![n].usecount = @ + 1]
          \/ pool' = [pool EXCEPT ![n].usecount = @ - 1]
      BY <1>5 DEF sys_open, sys_close
    <3>2. pool \in [Entry -> EntryType]
      BY <1>2 DEF TypeOK
    <3>3. CASE pool' = [pool EXCEPT ![n].usecount = @ + 1]
      BY <3>2, <3>3 DEF EntryType
    <3>4. CASE pool' = [pool EXCEPT ![n].usecount = @ - 1]
      BY <3>2, <3>4 DEF EntryType
    <3> QED BY <3>1, <3>3, <3>4
  <2>4. \A u \in Task \ {t} : opened'[u] = opened[u]
    BY <1>2, <1>5 DEF sys_open, sys_close, TypeOK
  <2>5. (pool'[n].usecount - pool[n].usecount) + (extra' - extra)
          = opened'[t][n] - opened[t][n]
    <3>1. CASE sys_open(t, n)
      <4>1. /\ pool' = [pool EXCEPT ![n].usecount = @ + 1]
            /\ opened' = [opened EXCEPT ![t][n] = @ + 1]
            /\ extra' = extra
        BY <3>1 DEF sys_open
      <4>2. /\ pool'[n].usecount = pool[n].usecount + 1
            /\ opened'[t][n] = opened[t][n] + 1
        BY <1>2, <2>1, <4>1 DEF TypeOK, EntryType
      <4> QED BY <1>4, <2>1, <4>1, <4>2
    <3>2. CASE sys_close(t, n)
      <4>1. pool' = [pool EXCEPT ![n].usecount = @ - 1]
        BY <3>2 DEF sys_close
      <4>2. pool'[n].usecount = pool[n].usecount - 1
        BY <1>2, <2>1, <4>1 DEF TypeOK, EntryType
      <4>3. CASE opened[t][n] > 0
        <5>1. opened' = [opened EXCEPT ![t][n] = @ - 1] /\ extra' = extra
          BY <3>2, <4>3 DEF sys_close
        <5>2. opened'[t][n] = opened[t][n] - 1
          BY <1>2, <2>1, <5>1 DEF TypeOK
        <5> QED BY <1>4, <2>1, <4>2, <5>1, <5>2
      <4>4. CASE ~ (opened[t][n] > 0)
        <5>1. opened' = opened /\ extra' = extra + 1
          BY <3>2, <4>4 DEF sys_close
        <5> QED BY <1>4, <2>1, <4>2, <5>1
      <4> QED BY <4>3, <4>4
    <3> QED BY <1>5, <3>1, <3>2
  <2> QED BY <1>3, <2>1, <2>2, <2>3, <2>4, <2>5
<1>6. ASSUME UNCHANGED <<pool, opened, extra>>, wild' = <<>> => wild = <<>>
      PROVE  OneDriver' /\ UseCountMatches'
  BY <1>6 DEF OneDriver, UseCountMatches
<1>7. ASSUME NEW t \in Task, NEW n \in Number, sys_read(t, n) \/ sys_write(t, n)
      PROVE  OneDriver' /\ UseCountMatches'
  BY <1>6, <1>7 DEF sys_read, sys_write, Running
<1>8. ASSUME NEW t \in Task, mydrv_read(t) PROVE OneDriver' /\ UseCountMatches'
  BY <1>6, <1>8 DEF mydrv_read
<1>9. CASE Push \/ irqHandler \/ UNCHANGED vars
  BY <1>6, <1>9 DEF Push, irqHandler, vars
<1> QED BY <1>5, <1>7, <1>8, <1>9 DEF Next

(* The use count says who has the driver open, for any number of tasks and *)
(* calls, except for what sys_close let through: a close too many is the   *)
(* only way to lose it.                                                    *)
THEOREM UseCountIsOpens == Spec => []UseCountMatches
<1>1. Init => IInv /\ OneDriver /\ UseCountMatches
  BY InitInv, CountInit
<1>2. /\ IInv /\ OneDriver /\ UseCountMatches /\ [Next]_vars
        => (IInv /\ OneDriver /\ UseCountMatches)'
  BY NextInv, CountNext
<1> QED BY <1>1, <1>2, PTL DEF Spec
=============================================================================
