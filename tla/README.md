# osMaking in TLA+

Specifications, model-checking runs and proofs for the two programs of this
repository that are its own: the Navilnux kernel, a small preemptive kernel for
the PXA255 written along the book "osMaking", and ezboot, the boot loader that
brings a board up, fetches images over the network and keeps them in flash.

The repository holds the kernel once per chapter and twice over:
`src/navilnux/chapN*` is the author's own version, `src/source/chapN` the book's.
The kernel specified here is **`src/navilnux/chap16_driver`**, the last of the
author's chapters. Its device driver layer is unfinished (`navilnux_drv.c` is not
linked), so drivers and the second interrupt source are those of
**`src/source/chap16`**, as are the user programs. ezboot is
**`src/source/ezboot`** (its comments are in EUC-KR).

## 1. Inventory

| Part | State | Operations | Calls / shares | Correct when |
|---|---|---|---|---|
| boot (`entry.S`, `navilnux.c`) | processor mode and stacks | `kernel_init`, `main`, `navilnux_init`, `sched_init`, `irq_enable` | calls every `*_init`, then `navilnux_user`, then idles until the first tick | tasks start from clean tables; a panic starts over |
| task manager (`navilnux_task.c`) | `free_task_pool[40]`, `max_task_id` | `task_init`, `task_create` | takes a stack block from the memory manager | a task it reports has a TCB and a stack; one it refuses is never run |
| stack blocks (`navilnux_memory.c`) | `free_mem_pool[40].is_used` | `mem_init`, `mem_alloc` | called by `task_create` | no block has two owners |
| scheduler and context switch (`navilnux.c`, `entry.S`) | `navilnux_current`, `navilnux_next`, `navilnux_current_index`, saved contexts, registers, `navilnux_time_tick` | `scheduler`, `irqHandler`, `navilnux_irqHandler`, `sys_scheduler`, `navilnux_swiHandler` | entered by the timer and by `swi` | each task computes as if alone, and gets its turn |
| system calls (`navilnux_sys.c`, `navilnux_lib.S`) | `navilnux_syscallvec` | `sys_*` wrappers | `swi` into the managers, interrupts masked | the call reaches the right manager, atomically |
| message manager (`navilnux_msg.c`) | `free_msg_pool[255]` of `[data, flag]`: messages 0-99, semaphores 100-199, mutexes 200-254 | `msg_itc_send/get`, `msg_sem_init/p/v`, `msg_mutex_wait/release` | reads `navilnux_current` for the owner | objects are independent; mutual exclusion; no unit or message lost or invented |
| blocking library (`navilnux_clib.c`) | `sleep_end_tick` in the caller's TCB | `navilnux_itc_get`, `sem_p`, `mutex_wait`, `sleep` and the direct calls | runs in user mode: try, `call_scheduler`, try again | calls return when they should, not before |
| heap (`navilnux_memory.c`) | `heap_start`, `used_end`, headers in memory | `mem_malloc`, `mem_free` | system calls | live blocks are disjoint and inside the heap; the walk ends |
| device drivers (`source/chap16`: `navilnux_drv.c`, `my_drv.c`) | `free_drv_pool`, `navilnux_irq_vector`, `switch_pushed` | open, close, read, write, the GPIO handler | system calls and the GPIO interrupt | a push is read once; use counts match |
| user programs (`navilnux_user.c`) | their variables | tasks 1-9 | the library | |
| ezboot TFTP (`tftp_cmd.c`, `net.c`, `time.c`, `cs8900.c`) | last block number, received size, timer 0, work memory | `TftpProcess`, `TftpResiveHandler` | the network; hands memory and size to the flash commands | TRUE means the whole file is in memory |
| ezboot NAND store (`nand.c`) | the chip, `Nand1` (bad blocks, `VirBlock`), `Nand1Partition` | scan, erase, program, verify, load | table sizes from `Cfg` | what was verified is what is loaded; partitions stay apart |
| ezboot boot flash, configuration (`flash_29lvx.c`, `config.c`) | the flash, `Cfg` | `BootFlash_ProgramEx`, `LoadConfig`, `SaveConfig`, the menu | the loader starts from the same flash | the settings saved are the settings found |
| ezboot start and prompt (`main.c`, `flash_cmd.c`, `go_cmd.c`) | `start_option` | automatic start, commands, `SelfCopy_BootLoader` | all of the above | |
| zmodem, console, strings, time, ARP and BOOTP | | | | not modelled |
| u-boot (`src/gumstix_uboot`) | | | vendored | not modelled |

How the parts interact. There is one processor. All kernel code runs with IRQ
and FIQ masked (`0xc0` in every `msr cpsr_c` of `entry.S`), so a system call, an
interrupt and the whole of `main` up to `irq_enable` are each atomic. Tasks run
in user mode with IRQ enabled (`STARTUSRCPSR`): the timer takes the processor
away between any two of their instructions, including the instructions of the
library loops. A task also gives the processor up with `call_scheduler`.
Nothing is queued: a task that waits is one that keeps trying.

ezboot is single-threaded and without interrupts: it polls. What runs
concurrently with it is the network with the servers behind it, the timer, and
the power supply.

What is hard here. In the kernel: the order of save, schedule and load in two
exception paths that share `navilnux_current`, and an interrupt that does not
schedule; the library's polling loops, interrupted anywhere; one pool of slots behind
three kinds of objects; error paths whose results nobody looks at; a heap whose
headers lie between the tasks' data. In ezboot: packets late, twice, out of order or
of another download; writes to flash that fail or are cut short by the power, of
which only some are looked at; tables computed once from a configuration that
changes. The list, line by line, is `hazards` in `PROJECT.json`; a `note` there
says what the properties concede of a hazard.

## 2. Modules

| Module | Models | Needs |
|---|---|---|
| `NavilKernel` | boot, `task_create`, stack blocks, scheduler, context switch | `VirtualCPU` |
| `VirtualCPU` | what a task may assume of its registers (abstract) | |
| `NavilKernelProofs` | theorems about `NavilKernel` | `NavilKernel` |
| `NavilIrq` | the kernel of `source/chap16` with the switch's interrupt: composes `NavilKernel`'s creation, scheduler and entries with `gpio_irq` | `NavilKernel` |
| `NavilIrqProofs` | theorems about `NavilIrq` | `NavilIrq`, `NavilKernelProofs` |
| `Totals` | the sum of a function's values, for use counts and semaphore units | |
| `TotalsProofs` | theorems about the sum | `Totals` |
| `NavilMsg` | the message manager, as operators on the pool | |
| `NavilSync` | tasks running programs over the library, the system calls, the scheduler and the timer | `NavilMsg`, `SyncService`, `Totals` |
| `SyncService` | independent mutexes, semaphores and mailboxes (abstract) | |
| `MCNavilSync`, `NavilSyncProofs` | the user programs of the runs; theorems | `NavilSync`, `TotalsProofs` |
| `NavilHeap` | `mem_malloc` header by header, `mem_free` | `HeapService` |
| `HeapService` | a heap of disjoint regions (abstract) | |
| `MCNavilHeap`, `NavilHeapProofs` | sizes and memory contents; theorems | `NavilHeap` |
| `NavilDrv` | driver table, driver calls, switch driver, GPIO interrupt | `Totals` |
| `NavilDrvProofs` | theorems | `NavilDrv`, `TotalsProofs` |
| `EzTftp` | the TFTP client over a faulty network, its timer, an external server | `FileTransfer` |
| `FileTransfer` | the blocks of one file, in order, none left out (abstract) | |
| `MCEzTftp`, `EzTftpProofs` | files; theorems | `EzTftp` |
| `EzCells` | flash cells: erased, programmed, half done | |
| `EzNand` | the NAND store | `EzCells` |
| `EzBootFlash` | the boot flash with loader and configuration | `EzCells` |
| `EzStore` | power-on, automatic start, prompt and power failures: composes `EzNand` and `EzBootFlash` | both |
| `MCEzStore`, `EzStoreProofs` | a small board; theorems | `EzStore` |

Operators named like a C function model that function. `X_something` just before
`X`, commented "Variant with a defect", is what a plausible bug would make of
`X`; no specification uses it. It shows that a property can fail
(`mutants` in `PROJECT.json`).

### NavilKernel

State: the C globals of the same names. `tcb` holds the contexts of
`free_task_pool` and of `dummyTCB`, `cpu` the processor's registers, `phase` how
far `main` has come. A TCB pointer is its index in the pool, `DUMMY` or `NULL`.

The register file is cut down to one register of each kind that the entry code
treats differently: `r0` (a call's result), `r4` (r1-r9, r11, r12, lr: saved and
restored alike), `r10` (the call number is decoded in it *before* the yield path
saves the registers), `sp`, `pc`, `cpsr`. `sp` is the number of the stack block.

`navilnux_irqHandler` and `sys_scheduler` are `SaveContext`, `scheduler` and
`LoadContext` in this order; the index taken by `task_create` before its checks,
and kept when they fail, is `TakeIndex`. When the code writes or loads a TCB
that is outside the pool or was never filled in, what follows depends on the
memory behind the pool: `phase` becomes `"wild"` and the model says no more.
Whatever else was saved is resumed in the mode it was saved in, main's supervisor
context included: `LoadContext` asks nothing, as `entry.S` does.

### NavilSync

State: the pool; for every task its place in the library (`pc`), its call
(`op`) and its place in its program (`at`); `end` is `sleep_end_tick`, `reg` the
deadline `navilnux_sleep` has computed and not stored. Deadlines are *relative to
the tick*, with 0 for one that has passed, so the counter needs no bound; what
its 32-bit wrap and the value 0 as "not sleeping" do is left out (section 7). `got`, `owns`, `taken` and `since` record what the callers were told.

| Action | Code |
|---|---|
| `Call` | the user program enters a library routine |
| `SyscallReturns`, `SyscallBlocks` | `swi`, `sys_*`, `msg_*`: one atomic step, and the library's test of its result |
| `CallScheduler` | `call_scheduler` in the retry loops and in `navilnux_sleep` |
| `SleepTest`, `SleepArm`, `SleepStore`, `SleepWake` | the reads and writes of `navilnux_sleep` |
| `TimerTick` | the timer interrupt: `navilnux_time_tick++`, `scheduler` |

The two reads of `sleep_end_tick` in `navilnux_sleep` are one step (`SleepTest`):
only the running task writes its own deadline, and a tick between the two can
only turn "later" into "now", which the task finds at its next test.

`Program[t]` is a constant: for each step, the set of calls the task may make.

### NavilIrq

`NavilKernel` with the second interrupt source of `source/chap16`. The entry code
is the same for every cause; only the timer half of `irqHandler` calls the
scheduler. `gpio_irq` is therefore `SaveContext` and `LoadContext` with nothing
between them. Before the first tick `navilnux_current` is `dummyTCB` and
`navilnux_next` is task 0 (`sched_init`): the switch then starts task 0 while
nobody is current, its registers go to `dummyTCB`, and the first tick starts it
from the beginning. `early`, `begun` and `again` are history.

### NavilHeap and HeapService

| Variable, action | Code |
|---|---|
| `hdr`, `used_end` | the `Dy_mem_header` words in memory, `memmng.used_end` |
| `cur_pos`, `call` | the locals of `mem_malloc` |
| `mem_malloc` | entry of the routine: `size += sizeof(...)`, `cur_pos = heap_start` |
| `TakeBlock`, `NextBlock` | one turn of the `while` |
| `AppendBlock`, `HeapFull` | what follows it: `used_end += size`, then the test |
| `mem_free` | the whole routine |

The routine is atomic in the program; one header per step makes the end of the
walk a question of liveness. Addresses and ints wrap at `ADDRMOD`. An address no
header was written to shows a header of the set `Junk`. `held` is what tasks
believe they own. `spoiled` says why the chain is no longer one: a size that
wrapped, a request that did not fit, a free that hit somebody else's block.
`HeapService` promises disjoint regions until then and nothing after.

### NavilDrv

State: `pool` is `free_drv_pool` with the words behind it, which index
`DRVLIMIT` reaches; `vector` is `navilnux_irq_vector[IRQ8]`; `edge` is the GPIO
edge register. One action per system call and one for the GPIO half of
`irqHandler`; `mydrv_read` is the poll of `navilnux_read` that finds a push.
`wild` records the call that jumped through an entry without a driver, after
which nothing more is said.

### EzTftp and FileTransfer

| Action | Code |
|---|---|
| `TftpProcess`, `NoNetwork` | start of a download, up to the loop |
| `ReceiveBlock`, `ReceiveLast`, `ReceiveOACK`, `ReceiveFailure` | the handler's case with the loop's reaction to the state it leaves |
| `TimerMatch`, `TimeOverflow` | timer 0 matches; the loop finds it |
| `ServeRequest`, `ServeAck` | the server (external) |

The network is a set; a delivery takes the packet out or leaves a copy, and a
packet never delivered is lost. Since the client neither compares the server's
port nor changes its own, packets carry the download they belong to only for the
history variable `stale`. A block is `[file, num]`: its bytes do not matter, its
length does, because the handler computes `DataSize` from the length of the
frame, which is at least `PAD` data bytes. `FileTransfer` is the contract: the
blocks of one file in order, success with the last one.

### EzCells, EzNand, EzBootFlash, EzStore

`EzCells`: programming clears bits, so a cell that is neither erased nor already
right becomes `MIXED`, as does one whose operation failed or lost power.

| Action | Code |
|---|---|
| `NandFlash_Init` | layout from `Cfg`, the scan for the marks of bad blocks, `VirBlock` |
| `StartCopy`, `ErasePartition` | `CopyTo_NandFlash_*`; NEK, NER, NEA |
| `EraseNext`, `EraseDone`, `ProgramNext`, `Verify` | the loops over blocks and pages, comparison |
| `WriteLoader`, `SaveConfig`, `SelfCopy_BootLoader` | calls of `BootFlash_ProgramEx` |
| `EraseNorBlock`, `WriteWord`, `WriteDone`, `VerifyNor` | its loops, and the retries of `SaveConfig` |
| `PowerOn`, `PowerOnWild`, `SelfCopyWild` | `LoadConfig`, scan |
| `Autoboot`, `BootMenuKey`, `NandCommand`, `BootFlashCommand`, `Apply` | `main.c`, `flash_cmd.c`, `config.c` |
| `PowerOff` | reset or power failure, with the operation under way half done |

The history `good` holds the image that `Verify` found right in each partition.
It is forgotten when the partition is written again, and when a start finds
another layout or other bad blocks, since sectors then lie elsewhere.
`VirBlock` has entries only for good blocks. The code leaves those behind the last good
block as they were (erased ROM, or the numbers of an earlier scan); such a number
lies in no partition that comes to use it, so the range check refuses it, and the
model refuses it at once. A configuration whose magic word is half done is not
taken for one; behind a good magic word a half-done layout may read as any
layout, or as sizes that are none (`"wild"`), also when eztiny brought the loader:
`main` scans before it asks what it was started for.

## 3. Runs

| Run | Question | Properties |
|---|---|---|
| `kernel_switch` | Does the switch keep every task on its own registers and stack, does each get its turn, also when creates fail? | `TypeOK`, `StacksDisjoint`, `MainSetAside`, `VirtualCPUSpec`, `EveryTaskRuns` |
| `irq_gpio` | What changes when a second interrupt does not schedule, and when more tasks are created than fit? | `WildOnlyPastCapacity`, `TaskIsCurrent`, `StartsOnce`, `VirtualCPUKept` |
| `sync_anycall` | Do mutexes, semaphores and messages keep their promises for tasks that make any call at any time, also with bad numbers, with a tick between any two steps? | `TypeOK`, `MutexOwnership`, `MutualExclusion`, `SemConserved`, `SleepNotEarly`, `ServiceSpec`, `SelfWaitsForever` |
| `sync_programs` | Do the user tasks go on for ever, never more than two inside the semaphore? | `SemBound`, `CallsReturn` |
| `itc_range` | Do messages stay in the slots the header gives them? **Violated.** | `ItcInRange` |
| `heap_calls` | Are blocks disjoint, marked as held, and does the walk end, for any sizes and any frees? | `TypeOK`, `LiveDisjoint`, `UsedMeansHeld`, `WalkEnds`, `ServiceSpec` |
| `heap_full` | Does `mem_malloc` return after a request that failed? **Violated.** | `MallocReturns` |
| `drv_calls` | Use counts, pushes and readers, for any calls in any order | `TypeOK`, `WildOnlyUnopened`, `UseCountMatches`, `PushesConserved`, `ReaderServed` |
| `tftp_net` | Is a download that succeeds the file, over any network? Does each end? | `TypeOK`, `PrefixStored`, `AcksHonest`, `SuccessComplete`, `TransferSpec`, `DownloadEnds` |
| `tftp_failure` | Does an error stop the download? **Violated.** | `FailureStops` |
| `store_power` | Is what was verified what is loaded, across failures, resets and power cuts? | `TypeOK`, `ImageLoads`, `LayoutKept`, `StoresApart`, `BadSpared`, `CommandsEnd` |
| `store_erase` | Are only the blocks of the space to be written erased? **Violated.** | `ErasesItsSpace` |

What they show:

- **The context switch is right.** `NavilKernel` implements `VirtualCPU`: an
  interrupt changes no task's registers, a yield changes only `r10` of the task
  that yields. That is a real loss: `r10` is callee-saved for the
  compiler, and `call_scheduler` does not declare it clobbered.
- **Failing creates are not.** `task_create` counts a task it could not create,
  and lets index `MAXTASKNUM` through. `WildOnlyPastCapacity` says exactly when
  this bites: only after more creates than TCBs or stack blocks.
- **The switch before the first tick** makes task 0 begin twice, and no other
  task; after the first tick an interrupt that does not schedule is harmless.
- **Ownership holds** although release is open to everybody, because
  `msg_mutex_release` compares the owner (the book's version does not). A task
  that waits for a mutex it holds waits for ever
  (`SelfWaitsForever`).
- **Messages are lossy**: `SyncService.Send` overwrites. The mailbox is still
  consumed once per message.
- **A message can destroy a mutex** (`itc_range`).
- **The heap is sound until it is full.** Double frees are refused; a stale free,
  a size that wraps and a failed request spoil it, and after a failed request
  `mem_malloc` need not return (`heap_full`), with interrupts masked.
- **Use counts protect nobody who does not open.** Read, write and close have no
  check of their own; `sys_close` may take the count below what is open.
- **TFTP's lock-step is enough** within one download: a block is stored once, in
  order, also with two servers answering. Across downloads nothing
  tells packets apart, and a file of more than 65535 blocks fails.
- **ezboot verifies what it loads**, with three exceptions that `ImageLoads` names:
  the reserve at the end of a partition, the header (not verified), and a page that
  could not be stored but equals the one before.

Bounds.
*Kernel*: the actions look at one TCB, the next one and the last one, so
three tasks distinguish them; `MAXCREATE` (5) exceeds both capacities, and in
`irq_gpio` there are more blocks (3) than TCBs (2), as in `source/chap16`, which
reaches the write past the pool; `TICKMOD` only keeps the tick finite.
*Sync*: two tasks are enough for every pairwise race and three for the semaphore
of two; the pool has two slots of each kind, so that an index error lands in a
neighbour of the same or of the next kind; `MAXSLEEP` is the longest sleep of the
program; `MAXEXTRA` lets a task return one unit it never took in `sync_anycall`
and none where the programs balance.
*Heap*: five words, so that two or three blocks and a failing request fit;
sizes that are negative, zero and too large. The constraint `Sound` stops a
behaviour at the state that spoils the heap: nothing is promised from there on.
*Drivers*: the driver, an unassigned entry, the entry behind the table, one out of
range; three pushes, so that one can be noted, one read and one missed. Deadlock is not
checked: the kernel stops where it jumps through an entry without a driver.
*TFTP*: a file with a last block shorter than a frame and one with more blocks
than there are numbers; two downloads; a third request answered; one copy left in the network.
That packets stop coming is part of the bound, and `DownloadEnds` rests on it: a
server that repeats forever keeps the loop alive forever.
*Store*: four blocks of two pages hold two partitions with a bad block in either;
two layouts; three commands, so that one can verify, one disturb and one
change the layout; one power cut in a write, one failing operation, one retry.
No symmetry is used: tasks are ordered by the round robin, and the other
instances are small.

Fairness.
*Kernel*: `main` runs on and the timer interrupt comes (`WF` on `Boot` and
`irqHandler`): every `irqHandler` re-arms the match register.
*Sync*: the processor executes the running task and ticks keep coming; a tick
comes only after `MINSLICE` task steps (12 in `sync_programs`; a tick is one
second, 3.7 million timer cycles). Without it `CallsReturn` is false, and rightly
so: if ticks could fall so fast that a task never completes its loop in its turn,
polling can miss every release. 12 is small enough that the tick still falls
at every place of every loop. No fairness is assumed between tasks: the round
robin provides it, and the runs show it. `sync_anycall` uses `MINSLICE = 0`.
*Heap*: a system call runs on (`WF` on `Walk`).
*Drivers*: an unmasked interrupt is taken, and a polling task polls again
(`EveryTaskRuns`).
*TFTP*: the timer counts and the loop polls it. Nothing is assumed of network or
server.
*Store*: a command runs on (`WF` on `Work`).

## 4. Proofs

`tlapm` checks the theorems listed in `PROJECT.json` for every value of the
constants that satisfies the named assumptions (`KernelAssumption`,
`SyncAssumption` and so on), which TLC evaluates in the runs. Every property was
model-checked first.

**NavilKernel.** `IInv` adds to the types that blocks and TCBs are handed out in
step (`BlocksInOrder`, `TCBsInOrder`: the linear search of `mem_alloc` and
`max_task_id` count alike, so task *t* owns block *t* as long as there is one) and
what each stage of `main` has set up (`PhaseInv`). One lemma per handler
(`BootInv`, `CreateInv`, `SwitchInv`, `OwnRegistersInv`) shows that it is kept;
none supposes that creates succeed. `StacksDisjoint` alone is
not inductive: it does not say which TCBs the scheduler may reach. `MainInv` says
where main's registers are: in the processor until the first switch, in
`dummyTCB` after it, never in a TCB of a task; with `IInv` it gives
`MainNeverResumed`. It is kept apart because `NavilIrq` reuses `IInv`, and there
a stray task's registers do overwrite what `dummyTCB` holds of main. The
refinement theorem `ImplementsVirtualCPU` holds for any number of creates, until
the processor runs into a TCB nobody filled in, and `WildOnlyByExcess` says when.

**NavilIrq.** The same invariant, except while a task runs *stray*
(`StrayInv`): from the switch's interrupt before the first tick to the tick or
yield that follows, the scheduler is where `sched_init` left it.
`StraySwitch` shows that this switch re-establishes the kernel's invariant. `EntryInv`
relates the history to the saved `pc`: a task that has begun is no longer at its
entry, in whichever place its context is. Theorems: `TaskIsCurrent`, `StartsOnce`,
`WildOnlyPastCapacity` and the refinement.

**NavilSync.** For any number of tasks, any programs and any pool layout.
`PlaceInv` ties a task's place in the library to its call, `SleepInv` the deadline
to the ticks gone by (*n* ticks, of which the first may come right after the
call). `MutexInv` relates each slot to its owner; it needs messages that stay in
their slots (`MessagesInRange`), which `itc_range` shows the code does not enforce.
`SyscallOutcome` gives the case analysis of one system call, from which
`ImplementsService` follows.

**NavilHeap.** For any heap size, word size, requests, frees and memory contents.
The invariant is that the headers form a chain from `heap_start` to `used_end`,
the walk of `mem_malloc` is on it, and every block held is a link of it with its
mark set - as long as nothing spoiled the heap. `LiveDisjoint` alone says nothing of the
blocks between.

**NavilDrv.** Use counts and pushes for any table and any tasks. The invariant
adds that an entry with a count has a driver (`Registered`).

**EzTftp.** For any files, numbers of downloads and network. Packets in the network
satisfy `Asked`, `Addressed` and `Sent` (nobody answers what was not asked);
`Lockstep` bounds every server by the block last acknowledged; with `Stored` and
`Progress` this gives `PrefixStored`, `SuccessComplete` and the refinement of
`FileTransfer`. Only downloads to which no packet of an earlier one was delivered
are promised anything.

**EzStore.** For any chip, layouts, images, block table, bad blocks, numbers of
failures and power cuts. `NandInv` says that what is recorded as verified is on the
chip: to keep it, sectors of different partitions must be different
pages (`PartsApart`), those of one partition as well (`SectorsApart`, from the ranks of the good
blocks), and a step must write the partition of the command only (`Spares`).
`NorInv` says what is known of the word with the magic number and the one behind
it at each moment of a save or of a loader being written; the block
with the configuration is erased exactly if the loader has the length of the boot
area or more (`ConfigBlocks`). `LoadRight` then reads an image back, page by page, with the
page for which there is no block. Theorems: `LayoutKept`, `ImageLoads`,
`StoresApart`, `BadSpared`.

**Sums.** `SemConserved` and `UseCountMatches` add up a number per task, with the
fold of the community modules, whose definition is a recursive function on sets.
What it computes is usually shown by induction over finite sets, which needs a
library theorem with an operator for parameter. `TotalsProofs` goes round it: the
strict subsets of a finite set are well-founded, so among the sets for which a
statement fails there would be a smallest (`SubsetInduction`, for a set of good
subsets instead of an operator). With it the fold's equation holds (`SumsExist`,
`TotalIs`), and from that come the only facts the components use: the sum is a
number (`TotalType`), it changes by what one summand changes (`TotalUpdate`), it is
zero if all summands are (`TotalZero`), and counts those that are one
(`TotalCounts`). It needs finitely many tasks; `NavilDrv` assumes that
(`IsFiniteSet(Task)`), `NavilSync` numbers its tasks up to a constant.

**Sums of NavilSync and NavilDrv.** `UnitsConserved`: what is in a semaphore's slot and
what all tasks together took and did not return is what `sem_init` put there, as
long as messages stay in their slots. `SemaphoreBounds` has two more hypotheses, those
of its run: the initial value is not negative, and no task returns a unit it did
not take (`MAXEXTRA = 0`; nothing in the code stops one that does, and then more
may enter). `BorrowInv` says that nobody returned more than that, `FlagInv` that a
slot is never negative; together they bound the tasks inside by the sum.
`UseCountIsOpens` needs `OneDriver`: only the switch driver's entry has its
file operations, so no other open moves the count. `SelfWaitIsForEver` is about every step:
a task that waits for a mutex it was granted still waits after it.

**What liveness rests on.** Fairness and `ENABLED` are out of the prover's reach, so
`EveryTaskRuns`, `CallsReturn`, `WalkEnds`, `ReaderServed`, `DownloadEnds` and
`CommandsEnd` are model-checked only. For four of them the other half of the
argument is a theorem for every size, stated in the module that proves it:

- `NobodyPassedOver`: a created task is at most `max_task_id + 1` switches
  from its turn; every tick or yield brings it nearer by one (`EveryTaskRuns`);
- `WalkGoesForward`: the walk of `mem_malloc` gains a header's length or more in
  each step and stays at or below `used_end`, in a heap that is not spoiled; it
  looks at headers only (`WalkOnHeaders`; `WalkEnds`);
- `CommandsAdvance`: each step of a command that writes lowers `StepsLeft`, the sum
  of the blocks, pages, words and tries ahead (`CommandsEnd`). The tries
  weigh as much as a whole round, since each failed comparison starts one;
- `WaitsUnderTimer`: a download waits under its timer throughout, and the timer is
  free outside of it (`DownloadEnds`). That packets stop coming is not the code's
  to promise: there is no bound on a download that keeps being answered.

With the first three, all that the liveness runs add is that a step that can be taken
is taken. For `CallsReturn` and `ReaderServed` there is no such measure: they depend
on what the other tasks and the switch do.

## 5. Findings

| Run | Code | What the run shows |
|---|---|---|
| `itc_range` | `navilnux_msg.c:26` | messages are accepted for every slot of the pool, not up to `ITCEND`: a send can lock a mutex or give semaphore units |
| `heap_full` | `navilnux_memory.c:103` | a request that does not fit leaves `used_end` advanced; the next walk need not end, where the comment promises NULL |
| `tftp_failure` | `tftp_cmd.c:282` | the `break` after "stop everything" leaves only the `switch`; a second answer turns the failed call into TRUE |
| `store_erase` | `flash_29lvx.c:454` | a loader that fills the boot area exactly takes the saved configuration with it |

Shown by properties that hold, and worth knowing: a yield loses `r10`
(`VirtualCPUSpec`); the switch before the first tick restarts task 0
(`StartsOnce`); a task that takes a mutex twice waits for ever (`SelfWaitsForever`);
a verified image may lack pages when there are more bad blocks than the partition
can spare (`ImageLoads`); after a forced erase the map of bad blocks is stale until
the next start (`BadSpared`).

## 6. Plan

The order was: kernel, then the message manager with the library, then the second
interrupt, heap and drivers, then ezboot's download and store; for each first the
actions, then runs, then theorems, the sums over tasks last. All of it is done. What
would come next:

- `NobodyPassedOver` for `NavilIrq`, where the switch's interrupt may come in between;
- heap, drivers and message manager under one scheduler, to run `user_task_1` to
  `user_task_9` together. Each call is atomic and touches one manager only, so
  this would add sizes rather than interleavings;
- zmodem as a second refinement of `FileTransfer`;
- the deadlines with their 32-bit wrap.

## 7. Not modelled

- **u-boot** (`src/gumstix_uboot`): a vendored boot loader of about a million lines
  for dozens of boards. It is most of the repository, and none of it was
  written here. The kernel uses nothing of it at run time.
- **Earlier chapters** of kernel and book: earlier states of the same files.
- **What happens after `"wild"`**: it depends on the memory behind the pool.
- **The tick counter's wrap** and 0 as "not sleeping": 136 years at one tick a
  second.
- **`navilnux_itc_get`'s -1**, which is also a possible message: the models'
  messages are not negative, as in the user programs.
- **`mysyscall`, `mysyscall4`, console, formatting, `string.c`**: output only.
- **Tasks writing outside their blocks or stacks**: there is no memory protection,
  and nothing could be said.
- **ezboot**: zmodem, ARP, BOOTP and ping (their failure is `NoNetwork`), the menu
  and the fields of `Cfg` other than the layout, GO, GK, MD, MW and TM, the chips' bus
  protocols. A chip that reports success and has not written is excluded
  but for power cuts; bits that fade as well.
