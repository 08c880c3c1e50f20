# A verification of the four xv6 kernels

TLA+ models of the kernels in this repository, the TLC configurations that check
them on small instances, and theorems about them checked by TLAPS.
`PROJECT.json` holds the tables behind this text: the components, the runs, the
line of the source behind every definition, the hazards and the theorems.

```
tlasany M.tla                    parse a module
tlc -workers 2 -config X.cfg M   check a configuration of module M
tlapm M.tla                      check the proofs of module M
```

## 1. The system

`src/` holds four altered copies of MIT's xv6 for RISC-V, one for each task:

| tree | directory | what it changes |
| --- | --- | --- |
| T1 | `1_XV6_System_Calls_&_Scheduling/xv6-riscv` | scheduling by accumulator or by virtual run time, `set_policy`, exit messages |
| T2 | `2_XV6_Threads_&_Synchronization/xv6-riscv` | kernel threads (`struct kthread`, `kthread_*`), user-level threads |
| T3 | `3_XV6_MemoryManagement/xv6_riscv` | paging to a swap file per process (SCFIFO, NFUA, LAPA) |
| T4 | `4_XV6_FileSystems/xv6-riscv` | `seek()`, the device `/dev/random` |

These kernel files are the same in all four: `bio.c log.c sleeplock.c spinlock.c
pipe.c kalloc.c virtio_disk.c uart.c console.c plic.c printf.c string.c
ramdisk.c start.c swtch.S kernelvec.S entry.S`. `fs.c` and `vm.c` differ only in
T3, `exec.c` in T2 and T3; `proc.c`, `trap.c`, `file.c` and `sysproc.c` differ
between the trees. T2 contains a byte-identical copy of itself in a
subdirectory. `mkfs/` is not in the repository, so the initial disk is external.

### 1.1 Inventory

| component | state | operations | who calls it | hard behaviour | what makes it correct |
| --- | --- | --- | --- | --- | --- |
| write-ahead log (`log.c`) | `struct log` (lh, outstanding, committing), the log blocks and the header on disk | `begin_op`, `log_write`, `end_op`, `commit`, recovery | every file-system call | crash between two writes, group commit, reserving room, `commit()` without the lock | groups are atomic and durable; no block changes during a commit; a logged block is not evicted; no sleeper forgotten |
| buffer cache (`bio.c`) | list of buffers, refcnt, valid, a sleep lock each | `bread`, `bwrite`, `brelse`, `bpin`, `bunpin` | `log.c`, `fs.c` | recycling races, running out of buffers | one buffer per block, no referenced buffer recycled |
| processes and kernel threads (T2 `proc.c`, `kthread.c`) | `proc[]`, `kthread[]`, parent, the states, killed flags | `fork`, `exit`, `wait`, `kill`, `kthread_create/exit/kill/join` | system calls, `usertrap` | three kinds of lock, exit racing with exit, join and wait; slots reused | no lost exit, no process without threads, dead threads stay dead |
| scheduler, sleep and wakeup (`proc.c`) | p->state, p->lock, the context of each CPU | `scheduler`, `sched`, `yield`, `sleep`, `wakeup`, `kill` | everything that waits | hand-over of p->lock across `swtch()`; the window between testing a condition and sleeping | no lost wakeup, one CPU per stack |
| sleep locks, spin locks | locked, pid; the holding CPU | `acquiresleep`, `releasesleep`, `acquire`, `release` | buffers, inodes, log, pipes | barging, spurious wakeups | mutual exclusion, sleepers are woken |
| pipes (`pipe.c`) | a ring, two free-running counters, two open flags | `pipewrite`, `piperead`, `pipeclose` | `fileread`, `filewrite`, `fileclose` | several readers and writers, wrap-around, close and kill at any point | a FIFO queue; nobody sleeps without reason; freed once and unused |
| file table, seek (`file.c`) | ftable, ref, off | `filealloc`, `filedup`, `fileclose`, `fileread`, `filewrite`, `fileseek` | system calls | one offset shared by processes, moved by seek without the inode's lock | transfers through one offset neither overlap nor leave a gap |
| inodes, blocks, directories (`fs.c`) | itable, bitmap, dinodes | `iget`, `ilock`, `iput`, `balloc`, `bfree`, `dirlink` | system calls | freeing the last link while others look up, crashes between calls | counts are exact, an inode is freed exactly when it has neither name nor user |
| `/dev/random` (T4 `random.c`) | the seed | `randomread`, `randomwrite` | `fileread` | a read-modify-write outside the lock | the generator never dies; each draw counts |
| scheduling policies (T1 `proc.c`) | accumulator, run times, policy | `update_ticks`, the three schedulers, `set_policy` | timer, `fork`, `wakeup` | unlocked reads, the minimum is stale | the least served runnable process runs |
| user-level threads (T2 `uthread.c`) | the thread table | `uthread_create`, `yield`, `exit`, `start_all` | programs | priorities, slot reuse | a runnable thread of the highest priority runs |
| paging and swap (T3 `proc.c`, `trap.c`, `vm.c`) | pages_data, the swap file, PTE_PG | page fault, swap out and in, ageing, fork | `usertrap`, `exec`, `fork` | the copy of metadata in fork, limits of the tables | what is read is what was written last |
| page allocator, page tables (`kalloc.c`, `vm.c`) | free list, tables | `kalloc`, `kfree`, `uvm*` | everything | running out | no page with two owners |
| disk driver (`virtio_disk.c`) | free[], the rings | `virtio_disk_rw`, `_intr` | `bio.c` | three descriptors for each request, interrupt | each request completes once |
| console and UART | two rings | `uartputc`, `uartintr`, `consoleread` | printf, tty | ring full while the device is idle | no byte lost on output |
| boot, trap, dispatch, exec, libraries, user programs | | | | straight-line code, set-up, clients | |

Components interact through shared state under spin locks, through sleep and
wakeup, and through the disk: a file-system call opens a transaction in the log,
locks inodes and buffers with sleep locks, and the disk driver wakes it by an
interrupt; a system call leaves the kernel through `usertrap`, where kills take
effect; `exit` closes files, and so pipes, hands children to init and wakes
`wait`.

What a test hardly reaches, with the line at which it bites and the properties
that would notice, is the list `hazards` of `PROJECT.json`; the ones no property
covers carry the reason.

## 2. Plan

The order of the work, by weight. Finished modules are described in section 3.

1. `AtomicStore`, `Log` (all trees): finished, safety and refinement proved.
2. `KThread` (T2): finished; typing and the three safety properties about
   threads, join and wait proved.
3. `AtomicSleep`, `SleepLock` (scheduler of T4), `Fifo`, `Pipe`, and
   `BlockStore`, `VirtioDisk`, `BufferCache` (all trees): finished, safety and
   refinement proved.
4. `FileLife`, `Inodes`, `RandomDev`, `Files` (T4), `Policy` (T1): finished,
   safety and the refinement proved.
5. Theorems: every safety property and every refinement that a run checks is
   one, but for `WaitsForLocksOnly`, which says ENABLED (section 5).
6. Extensions still open: the contents of files (`balloc`, `bmap`, `itrunc`)
   and subdirectories over `Inodes`; `exec` of T2, which kills threads, in
   `KThread`; the transmit ring of the UART; the free list of `kalloc`.

Compositions: `BufferCache` extends `VirtioDisk`, `Files` extends `RandomDev`.
`Log` stands on the abstract cache of `BlockStore`, `Inodes` on the atomic groups
of `AtomicStore`, `Pipe` and `VirtioDisk` on the atomic sleep of `AtomicSleep`,
`BufferCache` and `Inodes` on the sleep lock of `SleepLock`; each of these four
is the abstract side of a refinement a run checks.

## 3. What is modelled

In every module an action is a stretch of code between two points at which
another process can interfere: a section under one spin lock, one disk write,
one step of a loop that drops its lock. The state of a process is its point in
the kernel (`pc`) and the local variables that survive that point. A `panic()`
sets `panicked`, after which the system stands still. Operators that describe a
bug the code could have (`AbsorbNever`, `WakeOnlyInit`, ...) stand
before the definition they are a variant of, with a comment that says so, and
take part in no specification.

### 3.1 `Log`: the write-ahead log

`home`, `logblk` and `hdr` are the disk: the home blocks, the data blocks of the
log and its header block. `buf` and `pin` are the part of the buffer cache the
log relies on: what is cached and how often `bpin()` was called. `lh`,
`outstanding` and `committing` are `struct log`. For each process `bp` is the
buffer it has locked, `wset` the blocks its call has logged so far, `tail` the
loop index of `write_log` and `install_trans`.

| actions | code |
| --- | --- |
| `Call`, `BeginOp` | a file-system call, and `begin_op` with its sleep |
| `Modify`, `LogWrite`, `LogWritePanics` | `bread` and a change of the locked buffer, then `log_write` and `brelse` |
| `EndOp`, `EndOpPanics` | `end_op` up to the release: wake the others, or start a commit |
| `WriteLog`, `WriteLogDone`, `WriteHead`, `Install`, `InstallDone`, `Clear`, `Finish` | `commit`, one disk write each, and the end of `end_op` |
| `ReadHead`, `RecoverInstall`, `RecoverClear` | `initlog`, `recover_from_log` |
| `Recycle` | `bget` giving an unreferenced buffer to another block |
| `Crash` | power fails; the disk stays |

A write of one block is atomic: the header of the log is one block, and that is
what the code itself relies on. `AtomicStore` is what the log promises: a
volatile and a durable copy of the blocks, the durable one changing in one step,
to the whole of the volatile one, while no operation is active. `Log` maps
`durable` to what recovery would make of the disk, `current` to what an
operation would read.

### 3.2 `KThread`: processes and kernel threads (T2)

`pstate`, `parent`, `killed` are fields of `struct proc`; `kstate`, `kkilled` of
`struct kthread`; a thread is a pair of process and slot. `leaving` marks a slot
whose earlier occupant set `K_ZOMBIE` and has not reached the scheduler; `noff`
a spin lock `fork` leaves locked when memory runs out; `first` the static
variable of `exit`; `wlock`, `tlock` the holders of `wait_lock` and `tickslock`.
Each of `fork`, `wait`, `exit`, `kill`, `sleep`, `kthread_create`,
`kthread_exit`, `kthread_kill`, `kthread_join` is a group of actions, one for
each locked section (`WaitScan`, `WaitSleep`, `ExitTest`, `ExitFirst`,
`ExitMark`, `ExitJoin`, `ExitLast`, ...); `CheckProc` and `CheckThread` are the
tests of `usertrap`, `Schedule`, `Yield`, `Leave`, `Tick` the scheduler and the
clock. `Resumed` and `YieldPanics` are what happens when a dead thread runs
again and when `sched` finds a lock held.

`Calls` says which system calls the program of a thread makes; the
configurations choose it, the theorems hold for every choice.

Abstracted: a thread identifier is the index of its slot (numbers are never
reused within the life of a process); exit statuses, files, memory, failures of
`copyout`; there are as many CPUs as runnable threads; the scheduler's test of
`p->state` is one step with its choice; `kthread_kill`'s marks that `kill` makes
are one step; CPUs that spin for ever on a leaked lock are left out: their
endless wait is no state of the model. `kill(0)` and `exec`'s killing of threads
are left out.

The model ends where `wait()` frees a zombie process of which another thread is
still running on another CPU (`Reap`, with `panicked` = "undefined"; the code has
no test there and prints nothing). `freeproc()` takes that thread's page table
and trapframe away and the next `fork()` its slot and kernel stack, so what it
does next depends on memory the model does not have. Everything up to that
point is in the model, and no property speaks of what comes after it. One
consequence is known: `exists` of `kthread_join` is cleared when the call
begins and never again (proc.c:867), so that of three threads one that was freed in
the middle of a join could come back to sleep beside an UNUSED slot.

### 3.3 `SleepLock`: scheduler, sleep, wakeup and sleep locks

The code of T4's `proc.c` (the standard one) and `sleeplock.c`, one action
between any two spin-lock operations. `stack[c]` is the stack CPU c runs on, a
process's or its scheduler's; `plock` and `lk` the CPU that holds `p->lock` and
the inner lock of the sleep lock; `todo[p]` the processes p's `wakeup()` loop
has still to visit, in any order. Processes take one sleep lock and give it
back, are interrupted by the timer, and may be killed, by each other or by
processes that do not use the lock. Memory is sequentially consistent
(`__sync_synchronize` in `acquire` and `release`). `AtomicSleep` is the view the
other modules take: sleeping and releasing the condition's lock is one step, and
so is waking everybody.

### 3.4 `Pipe`

`data`, `nread`, `nwrite`, `readopen`, `writeopen` are `struct pipe`; `lock` the
holder of `pi->lock`; `openR` and `openW` the processes with a descriptor of
each end, `freed` whether the page went back. A call is `left` (bytes to go) and
a `pc`. The counters count modulo `UINTS`, a multiple of `PIPESIZE` as 2^32 is
of 512. `WriteFault` and `ReadFault` are failures of `copyin` and `copyout`,
`Kill` may come between any two steps. Sleep and wakeup are one step each, which
`SleepLock` justifies. `Fifo` is what a pipe promises. The trees in which a
process has one thread are meant: a process closes a descriptor only outside its
calls.

### 3.5 `VirtioDisk` and `BufferCache`: blocks in memory

`free`, `avail`, `used`, `req`, `bdisk` are `struct disk` and its rings as sets,
since a ring has room for every descriptor and the device may serve in any
order; `idx` and `head` are the descriptors of a process's request; `irq` and
`vlock` the interrupt and its handler, which the device overtakes while it
drains the used ring; `io` is where a process is in `virtio_disk_rw`. The device
(`Serve`) is external: it reads the request the driver completed, moves one
block and raises the interrupt. `Disturb` is a kill's wakeup.

`BufferCache` puts `bio.c` on top: `blockno`, `valid`, `refcnt`, `owner` are
`struct buf` with its sleep lock, `lru` the list, most recent first. `Start` is
`bget` (both passes, since both are under `bcache.lock`), `NoBuffers` its panic,
`AcquireSleep`, `Hit`, `Fill`, `Filled` the rest of `bread`; `Bwrite`, `Written`
are `bwrite`, `Pin`, `Unpin` the log's use of `bpin` and `bunpin`,
`ReleaseSleep`, `Put` are `brelse`. The callers are a reader, a writer of the log
area, `log_write` and `install_trans`; `pinned` is what the log has pinned,
`NPIN` how much it may. The second buffer that `write_log` and `install_trans`
hold is left out, and `install_trans` is one process at a time. `BlockStore` is
what the cache promises: one copy of a block, one holder, changed by him only.

### 3.6 `Inodes`: names and inodes (T4)

`din` and `dir` are the inodes and the one directory as the calls see them,
`committed` as the log's last commit left them, which is what `Crash` returns to
(`Log` shows that the groups of calls in between are atomic); `inode` is
`itable`, `lock` the sleep lock of an entry, `dlock` that of the directory's
inode, `ofile` the file each process has open. A system call is a chain of
actions between `Call` and `EndOp`: `Namei`, `OpenLock`, `Opened`; `Create`,
`Ialloc`, `IallocGet`, `CreateInit`, `CreateLink`; `UnlinkLookup`,
`UnlinkErase`, `UnlinkCount`; `LinkCount`, `LinkDir`, `LinkUndo`; and `iput` in
`Put`, `PutLast`, `Free`, `Freed`, `PutFreed`. Every error path of the calls is
an action too. `lost` records the inodes nothing will free any more. `FileLife`
is the promise: an inode lives until it has neither name nor user.

`iget()` panics when the inode is in no entry and no entry is free
(`IgetPanics`). In the code that happens: itable has 50 entries (`NINODE`),
ftable 100, a process 16 descriptors, and a disk made by the usual mkfs 200
inodes, so four processes that open files are enough. Neither the run nor the theorems assume room. The panic stops the
machine: its caller keeps `itable.lock`, and its operation of the log never
ends, so whatever the other CPUs may still do never becomes durable; after it
only `Crash`, a restart, is possible.

Left out: contents of files, subdirectories, devices. The link count is a
`short` in the code and is never tested for overflow; the bound on names keeps
it small.

### 3.7 `RandomDev` and `Files`: descriptors, seek and `/dev/random` (T4)

`RandomDev` has one action for each access of `random_seed`: `Load` before,
`Store` after the lock that `lfsr_char` takes, `CopyOut` for the byte handed to
the user. `due` is where the generator would be had every draw counted.

`file` is `ftable`, `ofile[p][g]` how many descriptors of p mean entry g, `size`
and `lock` the inode's. `Read` and `Write` are `fileread` and `filewrite` up to
`readi` and `writei` under the inode's lock, in pieces of `Chunk` bytes as
`filewrite` does; `f->off += r` is a load and a store (`LoadOff`, `StoreOff`);
`SeekSet`, `SeekCur`, `SeekAdd` and `SeekStore` are `fileseek`, which takes the
lock for `stati` only. The file is its length. Left out: `O_TRUNC`, `filestat`,
faults of `readi` and `writei` inside a block.

### 3.8 `Policy`: the schedulers of T1

`state`, `acc`, `ps`, `cfs` are fields of `struct proc`; of the timers only the
quotient `rtime / (rtime + stime + retime)` is read, whose three values `life`
tells apart. Each CPU runs `Pass` (the head of a loop), `Scan`
(`get_min_acc` or `get_min_vruntime`, one process per step), `Skip` and `Run`;
`Timer` is a timer interrupt in user mode or in the kernel, `Tick` and
`UpdateTimer` are `clockintr`, one process per step. 0 means "none yet" in
`MinStep`, as in the code, and a division by 0 gives -1, as on RISC-V. `fork()`
goes through the table like a scheduler does: `Fork` and `ForkMin` are
`get_min_acc()` of `allocproc()`, one slot per step, `ForkSearch` the search for
a free slot, `ForkTake` the slot filled under its lock (or `ForkNoMemory`, which
gives it back), `ForkRunnable` the end of `fork()`. Other CPUs run and timers
strike between any two of them, so the child gets a minimum that may be old.
Priorities are any integers, as `set_ps_priority()` stores its argument
unchecked; accumulators may be negative. A dead process counts as a free slot.
`waiting` is history: who has been RUNNABLE since the pass of a CPU began; it is
emptied when the search of that pass meets an accumulator of 0.

## 4. What the runs show

Each configuration is named after its run. Two processes are the least that
race; three where someone must be overtaken. Symmetry is used only in runs
without liveness properties.

| run | instance | shows |
| --- | --- | --- |
| `log_crash` | 2 processes, 2 blocks, 2 values, log of 4 | Nobody changes a block during a commit; exactly the logged and not yet installed blocks are pinned; after `end_op` of the last operation everything is durable; the log implements `AtomicStore`, with crashes in every state, recovery included. Two blocks make a group that could be torn, two values make a lost write visible. |
| `log_live` | 2 processes, 4 blocks, calls of one block, log of 4 | Calls that leave a block of their reservation unused never make the log panic, and a sleeper in `begin_op` is woken. Four blocks fill the log, so that waiting for room and for a commit both occur. |
| `kt_proc` | init and 2 processes, one thread each; fork, wait, exit, lack of memory | Every child's parent is alive; nobody sleeps in `wait` beside a dead child; init does not stop reaping while it has a dead child. With three slots a process can exit before its child, dead or alive. |
| `kt_thread` | init, which forks and kills, and 1 process with 2 threads: the first creates, kills and joins, the second exits, ends the process or sleeps | A living process has a living thread; nobody joins a dead thread in his sleep; a join whose target is dead returns. |
| `sleep` | 2 CPUs, 2 processes | Two CPUs are never on one stack; the sleep lock excludes; no wakeup is lost; the assertions of `sched`, `acquire` and `release` hold; sleep and wakeup are atomic for their callers; a sleeper is woken. |
| `pipe` | 2 processes on either end or both, 2 bytes, ring of 2, counters modulo 4 | The pipe is a queue through several wraps of the counters; a sleeping writer or reader has reason to; a freed pipe is not in use; end of file and broken pipe end every call; a sleeper beside bytes or room is woken. |
| `policy_ps` | 3 processes, 2 CPUs; init forks and may set its priority from 5 to -5; accumulators from -5 to 5 | Nobody runs ahead of a process that has waited since the pass began with a smaller accumulator, although the other CPU runs, ticks, wakes and forks meanwhile, unless the search of the pass came across a 0; a runnable process is not left beside idle CPUs. |
| `policy_cfs` | 2 processes, 2 CPUs, round robin and cfs | Some process always runs, whichever policy is set when; round robin passes nobody over for ever. |
| `cache` | 2 processes, 3 blocks (1 of the log area), 2 buffers, 4 descriptors | Requests never share or lose a descriptor and the device holds none whose owner has gone on; no completion is lost; counts are exact and a block is in one buffer; the cache implements `BlockStore`. More blocks than buffers, and four descriptors for requests of three, make both recycling and waiting for descriptors happen. |
| `inodes` | 2 processes, one of which creates, opens and unlinks, while the other links, 2 names, 3 inodes, a table of 2 entries, 1 file | Every entry's count is that of its users and a valid entry equals the disk; link counts equal the names; no assertion of the code fails, `iget()` panics only when every entry is in use, and the calls never wait for each other in a circle (`NeverStuck`); whoever has nothing to wait for can go on (`WaitsForLocksOnly`); nothing leaks but in two ways (section 6); the inode layer implements `FileLife`. More inodes than entries make `iget()` run out of them. |
| `files` | 2 processes, 1 open file of at most 4 bytes, chunks of 1 byte, counts 1 and 3 | The reference count of an open file is the number of its descriptors; transfers through one offset follow each other exactly, and the offset stays inside the file, unless a seek raced; the generator never dies unless somebody writes the seed 0. |
| `random_draws` | 2 readers, no writer, one byte each | violation, section 6 |

The bounds: the number of processes, slots, blocks, bytes, buffers, descriptors,
inodes, names and CPUs; `OpBlocks` (different blocks of one call), `NLOG`,
`NPIN`, `MaxN` (bytes of one pipe call), `UINTS` (values of a pipe counter),
`NKT`, `MAXSIZE`, `Chunk`, `Counts`, `Offsets`, `MaxRead` (bytes of one read of
the device), `MaxDraws` (bytes all readers draw together) and `MaxAcc` (no
accumulator leaves -MaxAcc..MaxAcc). Only the last two cut a counter off by a guard.
`MaxAcc` of 5 is one tick of the default priority 5 up or, with init's -5, down:
enough that accumulators of either sign and 0 meet, that a minimum of 0 that
`fork()` found gets into another CPU's pass, and that the order turns round.

`kt_*`, `pipe`, `policy_*`, `cache` and `random_draws` do not check for deadlock:
a system whose processes have all exited, whose pipe is closed, whose
accumulators are used up, or which has panicked for lack of buffers, stops.
`log_*`, `sleep`, `inodes` (also as `WaitsForLocksOnly`) and `files` do check.

Assumptions of the passing `log_*` runs: a call writes fewer different blocks
than it reserves (`OpBlocks < MAXOPBLOCKS`; section 6 says why), and the log on
disk has room for `LOGSIZE` blocks and a header (`NLOG - 1 >= LOGSIZE`, what mkfs
is to provide).

`NeverOvertaken` speaks of passes whose search meets no accumulator of 0:
`get_min_acc` takes 0 for "none yet", forgets the minimum it had so far and goes
on with the next slot, so after a 0 a process that waits with less may be overtaken.
A 0 that appears behind the search, or in a slot it skips, does no harm. No run claims
fairness of cfs: a process that has never slept or waited has the quotient 1, any
other 0, so one group can starve the other.

### Fairness

* `Log`: weak for the steps of begin, log_write, commit and recovery (a process
  in the kernel is scheduled), strong for `EndOp`: a call makes finitely many
  writes and then ends. Nothing makes a process call, and crashes are not fair.
* `KThread`: weak for the scheduler and for leaving the stack, strong for a
  thread's steps: interrupts do not always strike at the same instruction, and a
  spin lock that is free again and again is obtained. init calls `wait` for ever
  (`user/init.c`).
* `SleepLock`: weak for the scheduler, the timer and for steps that wait for
  nobody, strong for acquiring spin locks and for giving the sleep lock back.
* `Pipe`: weak for a process in a call, strong for taking `pi->lock`.
* `Policy`: weak for each CPU's loop, for `update_timers`, and for leaving a CPU
  (the timer interrupts every process).
* `BufferCache`, `Inodes`, `Files`: none. A process that waits for descriptors
  can be overtaken by others for ever in the code, so no such claim is made.

Strong fairness of a spin lock is an assumption about the hardware (`amoswap` in
a loop gives no bound), made by every liveness claim about this code. No
fairness is assumed of calls, kills or timers where a property needs none.

## 5. What is proved

All theorems hold for every value of the constants that meets the named
assumption of the module (`LogAssumption`, `KThreadAssumption`,
`SleepLockAssumption`, `PipeAssumption`, `DiskAssumption`, `CacheAssumption`,
`InodesAssumption`, `PolicyAssumption`, `FilesAssumption`, `RandomAssumption`):
types and distinctness of the model values, finite numbers of processes and
names where they are counted, at least one thread slot for `KThread`, one buffer
and one descriptor for the cache, for the pipe a range of the counters that is
a multiple of the size of the ring. They do not need the bounds of the runs.
Four of them assume more, in their statements: `ReservationIsEnough` that a
call writes fewer blocks than it reserves and that the log on disk has room for
`LOGSIZE` of them, `BeginOpMissesNothing` that one reservation fits into the log
(`MAXOPBLOCKS <= LOGSIZE`; param.h defines the second as three times the first),
`OrphansAreAdopted` and `NobodyIsOrphaned` that processes have one thread
(`NKT = 1`). Where a type invariant is a theorem, no run repeats it.

* **`LogProofs`** — `TypeOK`, `CommitAlone`, `PinnedExactly`, `DurableOnReturn`,
  `NeverPanics`.
  `CommitAlone` is not inductive: that no operation is active when a commit
  starts follows only from `outstanding` counting the operations (`CountInv`),
  and that none starts during it from `committing` being set exactly meanwhile
  (`CommitInv`). `DurableOnReturn` speaks of the end of a commit and needs, for
  every point of it, which of the cached copy, the log block and the home block
  agree up to `tail` (`CommitDataInv`), that the header on disk equals the one
  in memory during installation and is empty otherwise (`HeaderInv`), and that a
  header names no block twice (`WellFormed`). `BootInv` does the same for
  recovery, which a crash may repeat. `NeverPanics` is about arithmetic:
  `Left` is the set of pairs of a running call and a block it reserved and has
  not used, and `lh.n` plus their number never exceeds `LOGSIZE` (`Reserved`).
  The test of `begin_op` admits a call only when a whole reservation for it and
  for every other still fits; `log_write` of a new block takes one pair away,
  absorption takes one without growing the log, and a call that stays below its
  reservation has a pair left whenever it reaches the test of `log_write`.
  `LogIsAtomic`, the refinement: initial states map to initial states and
  each step to a step of `AtomicStore` or none. `WriteHead` is the step that
  maps to `AbsCommit`; installation and recovery map to stuttering, for which
  the same agreements are needed; `Crash` maps to `AbsCrash`. `GroupsAtOnce` says
  the consequence of the disk alone: what a power failure would leave changes in
  one step, while nobody is in an operation, and never by a crash.
  `BeginOpMissesNothing`: whoever sleeps in `begin_op` still has to, and
  somebody is in an operation or commits, who will wake him. Added for induction:
  a log that nobody uses or commits is empty (`EmptyInv`), so that a sleeper who
  waits for room waits for somebody (`AsleepInv`); that room then suffices is the
  hypothesis about the sizes.
* **`KThreadProofs`** — `TypeOK`, `SomeThreadAlive`, `JoinersWaitForLiving`.
  Added for induction: a thread between its scan and its sleep holds `wait_lock`
  and runs (`LockHolder`), and has seen its target alive (`SeenByJoin`);
  a target seen once keeps its slot, so that `exists` of an earlier scan is still
  true (`FoundStaysTaken`); only
  the threads of an existing process run (`OnlyUsedRun`), so that `fork`, which
  takes unused processes, disturbs nobody.
  Then `ParentAlive`, and `WaitersWaitForLiving` for any number of threads
  that wait together. Added: a free slot has no parent and no threads
  (`FreeProc`); a child that `fork` has not published has no parent, does not
  run and belongs to one call (`Fresh`, `FreshOnce`); who is about to sleep in
  `wait` has seen a living child and no dead one (`SeenByWait`). Most steps are
  `Quiet`: they leave the family tree alone, and one lemma covers them. For
  processes of one thread `ParentAlive` follows from the same invariant, from
  init never being a zombie, and from a process being alive whenever its thread
  is (`LoneInv`). With more threads it is false: `exit()` of a killed
  process does not wait in `kthread_join`, so another of its threads may `fork`
  when the process is a zombie already. `NobodyIsOrphaned` adds that every process
  in use but init has a parent, or a call of `fork` by a live process that has
  yet to name it: the child's parent is set in another critical section than the
  one that takes the slot (`Given`), and no death comes between the two.
* **`SleepLockProofs`** — `TypeOK`, `OneStack`, `Mutex`, `NoLostWakeup`,
  `Assertions` and `ImplementsAtomicSleep`, for any number of CPUs and
  processes. The core is who holds `p->lock` at each point of the hand-over
  across `swtch()` (`Away`, `SchedHolds`, `OnHolds`, `Off`, `ProcLock`,
  `InnerLock`); with it, `Owner` says the sleep lock has an owner exactly while
  locked and `Committed` that who is on the way to sleep finds the lock taken or
  the waker's loop still to come.
* **`PipeProofs`** — `TypeOK`, `SleepersHaveReason`, `NotUsedFreed`, for any
  number of readers and writers. `SleepersHaveReason` needs that `pi->lock` has
  one holder and is held from the test of a loop to the sleep it ends in
  (`ControlOK`, `Tested`); `NotUsedFreed` needs that who is in a call has a
  descriptor, that each end is closed once, and by the last who had it
  (`EndsOK`).
  `PipeIsFifo`, the refinement: the queue is mapped to the bytes between
  the two counters, both taken modulo `UINTS`; that they are at most `PIPESIZE`
  apart is the invariant `RingOK`. The rest is arithmetic: a counter that wraps
  does not jump in the ring because `PIPESIZE` divides `UINTS`, and two places
  less than `PIPESIZE` apart are different. So `nwrite == nread + PIPESIZE`
  means full, and a byte is written only over one that has been read.
  `SomebodyCanMove`: a reader and a writer never sleep at once, whoever is killed.
  A writer wakes the readers before it sleeps; a reader that goes to sleep has
  the lock since it found the pipe empty, so nobody is in the middle of reading
  and, by `SleepersHaveReason` and the arithmetic, no writer sleeps.
  `EndsAreFinal`: no byte follows the end of file, by `EndsOK`.
* **`BufferCacheProofs`** — `TypeOK`, `Requests`, `NoLostCompletion`,
  `BuffersExact`, `ImplementsStore`. The invariant has a part for the driver
  (`Owned`: a process in `virtio_disk_rw` owns the descriptors of its request;
  `Rings`: `b->disk` is set exactly while the request is in a ring; `Sleepers`)
  and one for the cache. Each needs the other: the driver relies on no two
  requests being about one buffer, which holds because the sleep lock of the
  buffer is held across the request (`Locks`, `InDriver`), and a completion is
  the caller's own only because the driver keeps requests apart. Counting
  reduces to adding or removing one process to or from the users of one buffer.
  For the refinement, `Clean` says that a valid buffer which is neither pinned
  nor about to be written agrees with the disk, which is why recycling it is
  invisible; `Served` that buffer and disk agree once the device has answered,
  and until an installed block is unpinned.
  `WritesReachTheDisk`, from the same parts: unless it is pinned or its write is
  under way, the disk holds each block as the cache shows it. `LogGoesFirst` is
  the write-ahead rule as the cache keeps it: the disk changes for a block of a
  file only when `install_trans()` writes it, still pinned, and then to what the
  cache shows. It needs what a request of the driver is for (`JobInv`), and that the
  device serves a request only while its caller waits for it.
* **`InodesProofs`** — `TypeOK`, `TableExact`, `LinksExact`, `NothingLeaks`,
  `Assertions`, `NoCircle` and `ImplementsLife`, for any number of processes,
  names, inodes and table entries, with crashes. None of these is inductive. The
  invariant says of every point of a call what it has: an entry of the table, its
  sleep lock, the directory, an entry that is loaded (`ControlInv`, `LockInv`,
  `DirHeld`, `UseInv`); that what was found under the directory's lock still
  holds (`DirInv`); and that an entry in use and valid is what the disk has,
  except in the hands of him who frees it (`CacheInv`). The heart is the window
  in which `iput()` has unlocked an inode it freed and still has its reference:
  `FreeInv` says that he is alone with it until `ialloc()` gives the inode to
  another call, and `FreshInv` that this one shares it with nobody but such a
  leaver. `KeptInv` names for every allocated inode who will find it again, or
  that it is `lost`. Reference counts and link counts are cardinalities of sets of
  users and of names (`At`): a step adds or removes one element, so no induction
  is needed. `NoDeadlock` follows from the order of the locks: who holds an
  inode's waits for nothing, and who holds the directory's waits for an inode's
  at most; `CallsAreNeverStuck` puts it together with
  `PanicsOnlyWhenFull`: when `iget()` panics every count is above 0 (`FullInv`),
  and as counts are exact every entry has a user. In the refinement
  a crash maps to a crash of `FileLife`, and the moment in which an inode ends is
  `Free`. Two consequences are about users: `NamesMeanInodes`, that a name means
  an allocated inode, on the disk as a crash would leave it too, and an open file
  one that is loaded; and `HandlesStay`, an action property, that the entry of the
  table that somebody keeps is never given to another inode.
* **`PolicyProofs`** — `TypeOK`, `NeverOvertaken` and that no process is on two CPUs
  (`NobodyRunsTwice`), for any number of slots and CPUs and any priorities, negative
  ones and 0 included. `MinInv` says
  that the minimum a CPU has so far is not 0 and not above the accumulator of
  anyone it has passed who has waited since the pass began; `WaitInv` that such
  a process is runnable all the time, so its accumulator does not change.
  A 0 met by the search empties `waiting`, and any other value keeps the minimum
  from being taken for "none yet"; what `fork()` puts into the table changes the
  accumulator of nobody who waits. `LoopInv` and `ForkInv` say that a process is
  on one CPU and a slot belongs to one `fork()`, which types need.
* **`FilesProofs`** — `TypeOK`, `RefsExact` and `OffsetExact`, for any number of processes, open
  files, descriptors and any sizes. The counts of descriptors are sums over
  processes and over files, here cardinalities of sets of pairs (`Pairs`), which
  grow and shrink by one pair or one column. A call keeps its `struct file`
  because it has a descriptor (`CallInv`), a process in a transfer holds the
  lock, so there is one at most (`OneTransfer`), and until a seek comes in
  between the offset lacks exactly what was moved (`MoveInv`); a seek that does
  sets `raced`, and the next one that does not makes the offset known again.
  `OffsetExact` alone is not inductive, as it says nothing of a file in the
  middle of a transfer.
  `GeneratorLives`: `FullPeriod`, for any number of processes and any seeds. The
  invariant is that no process which has loaded the seed holds 0 (`SeedInv`). That
  the other bytes form one cycle is `PeriodIs255`, a computation: `Drawn`, the
  bytes in the order `lfsr_char()` returns them, is a recursive function, which
  exists by an induction over a set of numbers (`SetInduction`, `DrawnIs`), and
  its 255 values are computed sixteen at a time.

Model-checked only:

* every liveness property (`Woken`, `InitKeepsReaping`, `JoinReturns`,
  `SleepersWake`, `CallsReturn`, `SleepersServed`, `SomebodyRuns`,
  `DefaultIsFair`): fairness and ENABLED are out of the prover's reach;
* `WaitsForLocksOnly` of `Inodes`, which says ENABLED.

## 6. Where the code departs from what is said of it

* **`random_draws`: two readers of `/dev/random` get the same byte** (T4).
  `random_read` loads `random_seed` before, and stores it after, the lock that
  `lfsr_char` takes (random.c:24), so both get the same byte and one of two draws is
  lost. `user/random_test.c:89-90` says its test
  checks that several processes draw "the proper amount of calls generated with
  correct values". What survives the race is `FullPeriod`.

The models follow the code in the following too. No run is about them; the
hazards of `PROJECT.json` name them at their lines.

* `log.c:220` tests `lh.n >= LOGSIZE` before `log.c:225` looks whether the block
  is logged already. When the calls of a group have used all they reserved,
  writing a logged block again panics "too big a transaction"
  (`LogWritePanics`). Hence `OpBlocks < MAXOPBLOCKS` in the runs.
* T2: `exit()` releases `wait_lock` (proc.c:427) before it takes `k_lock` for
  `sched()`, so that the parent may free the slot and `fork()` take it in
  between; the dead thread then runs again (`Resumed`), where the comment at
  proc.c:429 says "never to return".
* T2: the loops of `exit()` at proc.c:362-395 run under `static int first`,
  which the first `exit()` on the machine clears for all processes; the comment
  at proc.c:379 says it "terminates all other threads".
* T2: `sys_sleep` (sysproc.c:68) calls `kthread_exit()` for a killed thread
  without releasing `tickslock`; `sched()` then finds a lock held
  (`YieldPanics`, or a CPU that spins).
* T2: `fork()` returns on lack of memory with the new slot's `k_lock` held
  (proc.c:301); the model follows it (`ForkNoMemory`) into the panic of `sched`
  at the next interrupt.
* `pipewrite` returns -1 for a killed writer without waking the readers
  (pipe.c:84-86), so a reader may sleep beside bytes until the next write or
  close; `SleepersHaveReason` and `SleepersServed` except that case.
* `iput()` (fs.c:348-360) lowers the count after it has unlocked the inode it
  freed, without testing again; if the inode was given away, used and lost its
  name meanwhile, nobody frees it. An inode that is open without a name when the
  machine crashes is not freed either, as recovery does not look for it.
  `NothingLeaks` excepts exactly these two.
* T1: `get_min_acc` takes 0 for "none yet" (proc.c:49): a process whose accumulator
  is 0 is forgotten with all before it, and the pass may run somebody with more
  than the least (section 4).
* `iget()` panics "no inodes" (fs.c:266) when more inodes are in use than the table
  has entries, which the limits of param.h allow (section 3.6).
* T2: `wait()` frees a zombie process without looking whether one of its threads is
  still running (proc.c:468; section 3.2).
* `fileseek()` stores `f->off` after it has unlocked the inode, so a seek can
  overwrite, or be overwritten by, a transfer of another process (`raced`), and
  the offset may then lie behind the end of the file. `filewrite` returns -1
  after a part was written, although the offset has moved by that part.

## 7. What is not modelled

Components with status `not_modelled` in `PROJECT.json`, and why:

* **User-level threads (T2).** `uthread_create` clears the table on every call,
  since line 24 sets the flag it has just tested, so at most one thread exists
  and the scheduler never has a choice: a handful of states.
* **Paging and swap (T3).** `SWAP_ALGO` is a macro the Makefile does not pass
  on. As built, the first growth of a process other than init and sh registers
  pages before they are mapped and copies from physical address 0 when it swaps;
  no behaviour beyond that fault is left to state properties about.
* **Page allocator and page tables.** A free list under one lock, and walks of
  trees of 512 entries: address arithmetic without concurrency of its own.
* **Console and UART.** Two rings, each under one spin lock with a sleep and a
  wakeup in the pattern `Pipe` models; open work.
* **System call dispatch, exec, boot, interrupt controller, output, strings.**
  Sequential code without state of its own, assembly, register access; what
  `usertrap` decides for a thread is in `KThread`, `swtch` is the change of stack
  in `SleepLock`. `ramdisk.c` is not linked.
* **User programs and tests.** Clients of the kernel, read for the calls they
  make and the promises they test. They are the larger part of the lines of the
  repository, and each kernel file occurs in five copies.
