# ucore in TLA+: specifications, checks and proofs

The repository holds the labs of a RISC-V teaching operating system (ucore).  Lab 8,
`src/labcode/原始代码/lab8`, is the complete one: processes, a scheduler, semaphores and
monitors, a file system and a shell; earlier labs hold what it left behind, buddy and best-fit
allocators (lab 2), copy-on-write (lab 5) and stride scheduling (lab 6).  This directory specifies the parts of its kernel whose
correctness depends on order and on state that several actors share, checks them with TLC on
small instances, and proves the central ones with TLAPS for instances of every size.  Paths
below are relative to `lab8/kern` unless another lab is named.

The kernel runs on one CPU and **is not preempted**: an interrupt taken in kernel mode returns to
the code it interrupted, and a context switch happens only in `schedule()`.  A process therefore
runs undisturbed from one `schedule()` to the next, or up to the return to user mode.  That is
the grain of every action in these specifications.

## 1. Inventory

| Component | State | Operations | Hard about it | Correct when |
|---|---|---|---|---|
| Processes (`process/proc.c`) | `proc_struct`s, family tree, `nr_process`, `PF_EXITING` | `do_fork`, `do_exit`, `do_wait`, `do_kill`, `do_sleep`, `do_yield`, `do_execve`, `init_main` | exits, waits and kills in any order; orphans; a kill that arrives before a wait | no wakeup is lost, nobody is orphaned for good, zombies are reaped |
| Pids (`get_pid`) | statics `last_pid`, `next_safe` | the walk over `proc_list` | a cached window of free pids, a walk that restarts | a pid in use is never given out, the walk ends |
| Scheduler (`schedule/sched.c`, `default_sched.c`) | run queue, slices, `need_resched` | `schedule`, `wakeup_proc`, `RR_*` | double enqueue, a process that is RUNNABLE but in no queue | the queue is exactly the RUNNABLE processes, nobody starves |
| Stride scheduling (lab6 `default_sched_stride.c`, `libs/skew_heap.h`) | skew heap, strides, priorities | `stride_enqueue`, `stride_dequeue`, `stride_pick_next`, `lab6_set_priority` | strides wrap; newcomers start at 0 | the root is the least, nobody starves |
| Timers (`sched.c`) | delta-encoded list | `add_timer`, `del_timer`, `run_timer_list` | a kill races the expiry; ticks handed to the next entry | one timer per sleeper, none of a process that left |
| Traps, system calls (`trap/trap.c`, `syscall/syscall.c`) | – | timer interrupt, tail of `trap()` | where a kill and a used-up slice take effect | a killed process dies unless it may wait |
| Semaphores (`sync/sem.c`, `wait.c`) | value, wait queue, `wakeup_flags` | `up`, `down`, `try_down` | hand-over of a unit to a thread that runs later | units conserved, first come first served, no down interrupted |
| Monitor (`sync/monitor.c`) | `next_count`, `count` of each condition | `cond_signal`, `cond_wait`, entry and exit | several threads between an `up` and a `down` | one active thread; signal-and-urgent-wait |
| Philosophers (`sync/check_sync.c`) | forks, states | take and put, twice: semaphores, then monitor | deadlock, stale signals | neighbours never eat together, all finish |
| Keyboard (`fs/devs/dev_stdin.c`) | ring buffer, wait queue | interrupt writes, processes read | one key wakes several readers; killed readers; full ring | input is read once, in order; no sleeper beside input |
| SFS files (`fs/sfs/sfs_inode.c`, `bitmap.c`, `sfs_fs.c`) | inodes on disk and in memory, indirect blocks, freemap, superblock | read, write, seek, truncate, fsync, close, `fs_cleanup` | a disk that fills up half way, two descriptors on one file, dirty inodes | no block lost or shared, no holes, what is closed is stored, the disk mounts again |
| File table, VFS (`fs/file.c`, `fs.c`, `vfs/*`) | slots of a process, `ref_count` and `open_count` of inodes | open, dup, read, close, fork, exec, exit | references on error paths; a reader killed with its slot acquired | counts equal references |
| Page allocators (`mm/default_pmm.c`; lab2 best fit, buddy) | free lists | init, allocate, free, merge | merging neighbours; unaligned buddies; links left wrong | nobody has another's pages, every merge is made |
| kmalloc (`mm/kmalloc.c`; lab2 `slub.c`) | circular free list, big blocks | `kmalloc`, `kfree`, `slob_alloc`, `slob_free` | ordered list with a wrap | the same |
| Address spaces (lab5 `mm/pmm.c`, `vmm.c`) | page tables, page references, COW bits | fork with or without COW, fault, exec, exit | counts over fork, write and exit | each process has a memory of its own |
| Program loading (`load_icode`, `mm_map`) | areas, pages, arguments on the stack | load, fail at any step, `dup_mmap` | segments that end inside pages; a failure half way | the program finds its bytes; nothing is left of a failure |
| SFS directories, mount; other devices; swap; boot, libraries, user programs | | | section 8 | not modelled |

How they interact: `trap()` calls the timers and the scheduler on a tick and `syscall()` on a system call;
process management, timers, semaphores and the keyboard all end in `wakeup_proc` and
`schedule()`; the monitor is built from semaphores, the philosophers from either; a file operation
goes from `fs/file.c` through `fs/vfs` to SFS and, on a ram disk that is part of the kernel image, never sleeps.
The keyboard is the only file whose reads block.  Each process has its own descriptors
(`CLONE_FS` is never passed), so file tables are not shared, but two descriptors may stand on one inode.
`do_fork` copies address space and descriptors, `do_exit` gives both back, `do_execve` replaces the first and keeps of the second
what a program is started with; address spaces and `kmalloc` take their pages from the page allocator.

## 2. Modules

| Module | Models | Remarks |
|---|---|---|
| `Lists` | the kernel's linked lists as sequences | `Elems`, `Distinct`, `Keep` |
| `Timers` | the delta list: `AddTimer`, `DelTimer`, `TickTimers` | pure operators, used by `Proc` |
| `Proc`, `ProcProps` | processes, family tree, round-robin scheduler, timer interrupt, tail of `trap()` | `pc[p]` is where p continues when it gets the CPU |
| `FileTable` | descriptors and inode counts over open, dup, close, fork, exec, exit, and reads that block | `lost_refs`, `lost_opens` are history variables |
| `PidAlloc` | `get_pid`, one action per turn of its loop | |
| `Stride` | the stride class with its skew heap | strides are residues modulo `W` |
| `Semaphores` | `up`, `down`, wait queues, what they need of the scheduler | operators on its variables; other modules extend it |
| `SemClients`, `SemProps` | threads that down, up, sleep, yield and kill | |
| `FifoSemaphore` | **abstract**: a counter and a line | implemented by `SemClients` |
| `Monitor`, `MonitorProps` | `monitor.c` on `Semaphores`, with arbitrary routines | |
| `HoareMonitor` | **abstract**: signal and urgent wait | implemented by `Monitor` |
| `Philosophers`, `SemPhilosophers` | the halves of `check_sync.c`, on `Monitor` and on `Semaphores` | |
| `CheckSync` | `check_sync()`: one half, the waits for its threads, the other half | composes the two above |
| `Stdin` | the keyboard buffer, its interrupt and its readers | |
| `SfsIo` | how a request is cut into block accesses | pure operators |
| `SfsBlocks` | block map and freemap | operators on a context record; an assertion that fails is its `err` |
| `SfsFiles`, `SfsProps` | open, read, write, seek, fsync, close, `fs_cleanup` over both | one action per system call, since none sleeps |
| `FitPmm` | best fit (lab 2) and first fit (lab 8), link by link | `manager` says which |
| `BuddyPmm` | the buddy allocator of lab 2 | |
| `Slob` | `kmalloc`, `kfree` over `slob_alloc`, `slob_free` | |
| `PagePool` | **abstract**: memory somebody has, and memory nobody has | implemented by the four allocators |
| `Cow` | the user pages of lab 5 with and without copy-on-write | |
| `PrivateMemory` | **abstract**: each process has a memory of its own | implemented by `Cow` |
| `LoadIcode` | `load_icode`, `mm_map`, `dup_mmap`, `user_mem_check`, `copy_string` | |
| `MCProcFiles`, `MCSync`, `MCCheckSync`, `MCStdin`, `MCSfs`, `MCMemory`, `MCWrap`, `MCLoad`, `MCPrograms` | instances | |
| `Foundations`, `ProcProofs`, `SemProofs`, `MonitorProofs`, `CheckSyncProofs`, `StdinProofs`, `SfsProofs`, `MemoryProofs` | proofs | section 5 |

`MCProcFiles`, `MCSync`, `MCMemory` and `MCWrap` put several modules side by side, as alternatives: a variable
(`part`, `manager`) that never changes says which one a behaviour is about, and the variables of the others stay as they begin.  What an instance assumes of
its constants is a definition there (`FileTableAssumption`, `BuddyAssumption`, `LoadAssumption`) that the module states as an `ASSUME`.

How state corresponds to code, where the names do not say it:

- *Processes.* A `proc_struct` that is not allocated has `state = "NONE"`.  The sibling pointers
  `cptr`, `yptr`, `optr` are seen as the set of children, so `do_wait(0)` may reap any zombie child where the code takes the youngest first.
  `DoExit` and `DoWait` are operators because four and three callers end in them; each is the whole
  function up to its `schedule()`, and `SleepResume` and `WaitResume` are what follows it.
  `WaitResume` makes the test of `PF_EXITING` after the sleep, `TrapReturn` the one in `trap()`.
  `do_exit` on init, and `init_main` at its end, are panics: `Halted`.
- *Descriptors.* `mode[p]` is "kernel" for a thread before its first `execve`, whose failure `ExecFails` describes: the address space is gone, so
  the `do_exit` that follows skips `put_files`.  `vfs_open` with `O_CREAT` and `O_EXCL` of a file that exists leaves without `vop_ref_dec` (line 46; a refused `vop_open` does come to the one in line 52);
  what such paths lose is counted in `lost_refs` and `lost_opens`, and the counts must be exact up to these.
- *Stride.* At this commit `sched_init` of lab 6 selects the round-robin class (`sched.c`, `sched_class = &default_sched_class`), so the stride class is compiled and one line away from use; `Stride` is a kernel that selects it.
  What happens within a slice is one step, `Preempt`.  Sleepers are woken by the process that runs (`Wakeup`).  `Least` is the start of the shortest arc of
  the circle of strides that holds the queued ones, which is what "least" can mean when strides wrap.
- *Semaphores.* `Take` is a `down` that finds a unit, `Block` one that does not, up to its `schedule()`, and `Unblock` the rest.
  `balance` in `SemClients` is a history variable for `UnitsConserved`.
- *Monitor.* A `cond_signal` is three steps, since two threads run in between: the `up` (`Signal`),
  the `down` of `next` (`StepBack`), its return (`StepBackEnds`).  `cond_wait` likewise.
- *Keyboard.* Characters are numbered as typed; `typed`, `consumed` and `overrun` are history variables.
- *Files.* `sins[f]` is the inode in memory, NULL when it is not loaded; `super` and `freemap` are in memory, `image` is what the disk has of them.
  The bytes in blocks are left out; the numbers in
  indirect blocks are the variable `table`.  `panic` holds the assertion that failed, and the model then stops as the kernel does.
  `Cleanup` is what `init_main` does when its last child has gone: `fs_cleanup` stores inodes, freemap and superblock, and the kernel ends.
  SFS has no `vop_create`, so a file is never created or removed while the kernel runs.
  `vfs_open` truncates a file that exists for `O_CREAT` as well as for `O_TRUNC`, and moves to the end only once for `O_APPEND`;
  `Open` does what the code does, which is not what the comments in `lab8/libs/unistd.h:46-49` say.
- *Page lists.* `FitPmm` has the links themselves, `next` and `prev` of each page, because `list_del` writes through links that an earlier mistake left wrong.
  `BuddyPmm` numbers pages from the start of `pages[]`, and the free area begins at `first`, wherever the kernel image ends.
- *kmalloc.* Memory is counted in `SLOB_UNIT`s.  Sizes are those `slob_alloc` accepts (section 6), and a block larger than that is one page.
- *Address spaces.* System calls and faults are one step; a store is a step of its own after its fault, with other processes in between.  `ForkFails` stops `dup_mmap_cow` after any set of pages.
  `MAX_REF` is a guard of the forks only.
- *Loading.* Memory is a function on mapped addresses whose cells say what is in them: a byte of a segment, a zero, a byte of an argument or of a pointer, or junk.
  Anything that can fail (a page, an area, a read) may fail in any step: `Fail`.  `phase` holds the assertion that failed, or "store page fault":
  arguments may take all of the stack's area, but only its upper `STACK_PAGES` have pages, and `trap.c:206` prints and returns from a fault without mapping one, so `strcpy` below them never ends.

Definitions whose comment begins "A faulty" are variants of the definition that follows them.  No specification uses
them: `PROJECT.json` lists them as mutants, and each property is shown to fail when one takes its original's place.

## 3. Runs

`tlc -config <cfg> <module>` in this directory.

| Run | Module, cfg | Shows |
|---|---|---|
| `processes` | `MCProcFiles` | three user processes, kills of anybody but idle: run queue, wait states, family, timers, no lost wakeup; or init and two processes with descriptors: counts of inodes and slots |
| `proc_fair` | `ProcProps`, `MCProc_fair.cfg` | two user processes, slices of two ticks: nobody starves, sleepers wake, killed processes die, waits return, init keeps reaping |
| `proc_kill` | `ProcProps`, `MCProc_kill.cfg` | **violation**, see section 6 |
| `wrapping` | `MCWrap` | pids are unique and the walk ends; the heap gives the least stride, strides do not spread of themselves, nobody starves |
| `sync` | `MCSync` | units, wait queues, refinement of `FifoSemaphore`, progress of `down`; one active thread in a monitor, its counters, refinement of `HoareMonitor` |
| `check_sync` | `MCCheckSync` | forks, chances to eat, signals; both groups of philosophers finish |
| `stdin` | `MCStdin` | order of input, wait queue, input is read |
| `sfs_safety` | `MCSfs`, `MCSfs_safety.cfg` | blocks, holes, requests, stored inodes, a disk that mounts again |
| `memory` | `MCMemory` | the allocators' lists, their refinement of `PagePool`; address spaces as `PrivateMemory`; loaded programs |
| `first_fit` | `FitPmm`, `MCFirstFit.cfg` | **violation**, see section 6 |
| `load_bss`, `load_args` | `MCLoad`, `MCLoad_bss.cfg`, `MCLoad_args.cfg` | **violations**, see section 6 |

Bounds, and why they are enough for the cases that matter:

- `processes`: three user processes give a grandparent, a parent and a child, so that a zombie can be inherited by
  init while init sleeps; the number of structures is also `MAX_PROCESS`, so forks fail.  Two sleepers with different times exercise
  the delta list (`MAX_SLEEP = 2`).  For descriptors, three slots make room for 0, 1 and one that `exec` closes; the requests reach every return of `vfs_open` that can be reached (the one behind `vfs_lookup_parent` cannot: the lookup just before it had found the device);
  `MAX_LOST = 1` lets each loss happen once and everything go on after it.
- `proc_fair`: a slice of two ticks lets a process be interrupted without losing the CPU.  It has two users because fairness rules out symmetry;
  the zombie that is inherited while init sleeps is reached by `NoLostChildWakeup` in `processes`.
- `wrapping`: six pids for five processes, the tightest `MAX_PID > MAX_PROCESS` allows: the walk wraps and restarts.  Strides modulo 8 make `BIG_STRIDE` 3,
  with priorities 1 (set as 0) and 3; three processes are the least for which the comparison can go round in a circle.
  The three are in the heap together only when `schedule` has put the current one back; between two calls it holds two.  With a fourth process, `Stride` by itself has 5.6 million states and
  `LeastFirst` and `SpreadKept` hold in all of them; with `NobodyStarves` that is too much for a run that is kept here.
- `sync`: three threads, a second waiter behind the first and one that ups; `MAX_VALUE` bounds the units put in and is a guard of `DoUp` only.
  In the monitor three threads nest two signals; two conditions keep their counts apart.
- `check_sync`: four is the least number with philosophers that are not neighbours, two meals let a signal of one round meet the next.
- `stdin`: a ring of two, five keys: it wraps twice and overruns.  Three readers and reads of up to two characters.
- `sfs_safety`: one direct and two indirect entries, three blocks of two bytes, two files: the disk fills up in every place of
  `GetIndirect`; a request can have all three parts (offsets 1 to 5).
- `memory`: seven pages make three blocks with two gaps, so that a free merges on neither side, on one, on both; buddies of up to 8 pages over an area that begins at page 0, 1 or 3;
  three pages of five units for `kmalloc`, with headers of two; three processes (a parent and two children that share a page, or a chain), one page that is writable and one that is not, four frames: a fork or a fault can find none.
  Loading has pages of three cells and pairs of segments that begin and end anywhere in them, share a page or overlap, and two lists of arguments, one with room in the mapped pages of the stack and one without.
  `first_fit` needs five pages.

Deadlock is checked in `processes` and `proc_fair` (`Proc` stutters explicitly in `Halted`, `MCProcFiles` when init is alone with its files) and in `sfs_safety` (`SfsFiles` stutters in `Stopped`).
The other instances do end, with every thread asleep, finished or killed, or memory used up to a bound: their
configurations say `CHECK_DEADLOCK FALSE`, and liveness properties say what must not be left undone.

## 4. Fairness

- `proc_fair`: `WF(Kernel)`: kernel code between two switches has no unbounded loop.  `SF(Tick)`: the clock interrupts, and an interrupt that is pending
  is taken before the next user instruction; a system call may disable `Tick` again and again, hence strong fairness.
  No fairness for system calls: a program may compute for ever.
- `sync`, semaphores: a thread that has the CPU returns from `down`, the idle loop schedules, timers fire and a running thread yields now and then; threads need not call `up`.
  `DownReturnsIfUps` assumes in its own statement that the semaphore is upped again and again.  The monitor is checked for safety only; its progress is that of the philosophers.
- `check_sync`: the CPU goes on (`Thread`) and each `do_sleep` ends (`Clock`).
- `stdin`: kernel code goes on, ticks come, and a process in user mode loses the CPU now and then (its slice ends); nobody need type or read.
- `wrapping`: `get_pid` goes on, and slices end.  `NobodyStarves` holds once nobody is forked or woken any more; section 6 says why it needs that.

## 5. Proofs

`tlapm <module>.tla` checks them from nothing; they use no assumption but the ASSUMEs of the modules they extend: that the sets of
processes and semaphores are finite, that initial values are numbers, that `NULL` is none of them, that `root` is a directory,
and the like.  TLC evaluates these for every instance.

| Module | Theorems | Properties of the runs |
|---|---|---|
| `ProcProofs` | `QueueCorrect`, `WaitStatesCorrect`, `NoWakeupLost`, `FamilyCorrect`, `TimersCorrect`, `InitIsLast`, `TypeCorrect` | `RunQueueExact`, `WaitStateExact`, `NoLostChildWakeup`, `FamilyTree`, `TimersOwned`, `InitLeavesLast` |
| | `InodesAreCounted`, `SlotsAreExact` | `InodeCountsExact`, `SlotsExact` |
| | `PidsAreUnique`, `WindowIsFree`, `PidTypeCorrect` | `PidUnique` |
| `SemProofs` | `WaitersAreExact`, `UnitsAreConserved`, `RefinesFifo` | `WaitersExact`, `UnitsConserved`, the safety part of `ImplementsFifo` |
| `MonitorProofs`; `SemProofs` for `MCSync` | `OneThreadActive`, `CountersAreExact`, `MonitorIsHoare` | `OneActive`, `CountsExact`, `ImplementsHoare` |
| `CheckSyncProofs` | `ForksAreHeldOnce`, `NoMealIsMissed`, `SignalsAreExact` | `ForksHeldOnce`, `HungryHasEatingNeighbour`, `SignalsExact` |
| `StdinProofs` | `NothingIsLost`, `SleepersAreExact` | `NothingLostInOrder`, `SleepersExact` |
| `SfsProofs` | `EveryBlockAccounted`, `FilesWithoutHoles`, `RequestsCut`, `ClosedFilesStored`, `SfsInvariant`, `SfsTypes` | `BlocksExact`, `NoHoles`, `RequestCovered`, `ClosedIsStored` |
| `MemoryProofs` | `ListsAreExact`, `MemoryIsPooled` | `ListsExact`, `ImplementsPool` |
| | `MemoryIsPrivate`, `PagesAreCounted` | `ImplementsPrivateMemory` |
| | `ProgramIsLoaded` | `ProgramLoaded` |

Each module has an inductive invariant, one lemma per action that says the action keeps it, and lemmas for the operators that several actions share
(`Schedule`, `WakeupProc`, `Switch`, `Up`, the list operations).  `Foundations` has what several of them need: of sequences without repetition, an induction principle for
numbers and the existence of functions defined by recursion on `0..N`, derived without operator parameters; and of memory cut into pieces, `Parts` (pieces by their lengths),
`Tiles` (blocks of doubling sizes) and `Round` (pieces linked in a ring by address).

**Processes.**  For any number of processes, any slice and any sleeping times.  `IInv` is the seven properties together with three that make them inductive.

- `PcExact` ties `pc` to `state` and `wait_state`; without it nothing says that a process found asleep is in `do_wait` or `do_sleep`.
- `Rooted`: ranks of processes increase from parent to child.  When the last child of init is reaped, other user processes could still
  exist as far as `FamilyTree` goes, as each other's children; a least rank shows they cannot, which is what `InitLeavesLast` needs.
  A fork gives the child a rank above its parent's, and orphans go to init, whose rank is not compared.
- `Stopped`: init that has left its loop keeps the CPU.

The lemmas on the delta list say what the three operations do to owners and expiries of a list of any length.

**Descriptors.**  For any number of processes, slots and inodes.  `FilesInv` is the two properties with what the counts rest on: `InitExact` (until init has a working directory nobody
else exists, so that a fork of it is the only way a process can be without one) and `LossExact` (whoever loses an open descriptor loses its reference, hence `open_count <= ref_count` survives the losses of section 6).
The counts are sums over sets of descriptors; the lemmas say what a change of one table does to the cardinality of the set.

**Pids.**  For every `MAX_PID > MAX_PROCESS`.  The invariant is `WindowFree`: no process has a pid inside
`[last_pid, next_safe)` except those the walk has not reached, with `Candidate`, what the walk's position says about the pid it will return.  Exits in the middle of the window only help, which is the reason it may be kept between calls.

**Semaphores.**  For any number of threads and semaphores and any initial values.  `WaitersExact` and `UnitsConserved` hold together with `ThreadExact` (how far a thread is in `down` and what its
`wakeup_flags` say) and `NoIdleUnits` (nobody waits beside a unit); without the last, a `down` could overtake a waiter, and the step would not be one of `FifoSemaphore`.

**Monitor.**  For any number of threads and condition variables.  The heart of `MonInv` is `TokenExact`: the right to be active is one token, which is either the unit of `mutex` or with
one thread, running in the monitor or handed the token and not yet back from its `down`.  A `cond_signal` passes it to the waiter, a `cond_wait` or an exit to the thread that stepped back last, and to the door when there is none.
`Counting` says what `count` and `next_count` are in the middle of these functions, where they do not yet tell the truth of `CountsExact`.
From the same invariant each step is a step of `HoareMonitor` or leaves its variables alone.

**Philosophers.**  For any number of philosophers and meals, over both parts of `check_sync()`.  `StatesOK` is common to them: neighbours do not eat together, and a hungry philosopher has a neighbour that eats,
or one that has just put its forks down and is about to look.  The part with semaphores adds that the critical section has one token and what a unit of `s[i]` stands for (`SignalAt`); the part with
the monitor adds `MonInv` and where everyone is in it (`CondAt`), and uses the lemmas of `MonitorProofs` as they are; the first part uses those on `up` and `down` under `INSTANCE ... WITH`, with its own idea of who is in which `down`.
That the second part starts in its invariant is shown from the first part's end: everybody has quit, hence every semaphore has its first value again.

**Keyboard.**  For any number of readers, any size of the ring, reads of any length.  `BufferExact` says which key is in which slot as long as the ring has not overrun; two positions less than a ring apart are different slots.

**Files.**  For any number of files and descriptors, any disk, any layout of the block map (numbers of direct and of indirect blocks) and any size of a block.
`SfsInv` is inductive: `BlocksOnce` (every block of the disk is free or pointed to by one slot of one inode), `FilesFull` (the first `blocks` slots of an inode point somewhere), `SuperExact` (the superblock counts the free blocks, and unless it is dirty
the disk has it), `CleanStored` (an inode in memory that is not dirty differs from the disk in its count of blocks only, and only upwards; without it a close that finds the inode clean could leave something behind) and `Ending` (which assertions can fail at all).

A system call works on one inode in a context.  `Good(c, others)` is the invariant seen from there: the slots of this inode are exactly the blocks that are neither free nor in `others`, the blocks of all other inodes.
`Keeps` says that an operation goes from good to good, writes no block of `others`, and leaves the inode alone apart from `blocks` unless it marks it dirty.
`sfs_bmap_get_nolock` (`GetIs`), `sfs_bmap_load_nolock` (`LoadIs`) and `sfs_bmap_truncate_nolock` (`TruncateIs`) do this with every way they can run out of blocks half way, the indirect block that is given back among them;
a disk full of blocks is what keeps an index inside the block map (`RoomLeft`).  The loops `Grow` and `Shrink` of `sfs_truncfile` and that of `sfs_io_nolock` follow by induction over the blocks: `FiniteRecursion` turns the recursive function into one that lives in the set of contexts the
operation may leave.  Each system call then is a `Keeps` of its file and leaves the others' slots where they were.
`RequestsCut` is arithmetic: a first part, whole blocks, a last part, each of which may be missing, with sums of products for a block size that is not a number.

**Page allocators and kmalloc.**  For memories of any size, best fit, first fit, buddies and `kmalloc`.  `ListsExact` is not inductive: it speaks of the list as the allocator walks it, and a step changes links.
Each allocator therefore has an invariant about the links themselves, from which a walk is computed (`WalkIs`, `RingIs`, by induction over its steps, with `FiniteRecursion` for the recursive function).

- *Best fit and first fit*, `FitInv`: `next` and `prev` lead from each block that is free to the closest ones above and below (`Linked`), the blocks with their lengths cut the pages nobody has (`Parts`), and no block ends where another begins.
  `FitAlloc` takes a block off or leaves the rest of it; `InsertIs` finds the place by the walk; `MergedShape` joins with neither, one or both neighbours.
  The conjunct about page N-1 is the restriction of the run: it is what keeps first fit away from the branch of section 6.
- *Buddies*, `BuddyInv`: the free blocks and those handed out cut the area (`Tiles`), each list holds the blocks of its order, and nothing is left to merge (`BuddyMerged`).
  `SplitDown` and `JoinUp` follow the loops of `buddy_alloc_pages` and `buddy_free_pages` order by order.  That after a free nothing else has become mergeable rests on a buddy's buddy being the block itself (`Buddies`), arithmetic on quotients since the operators have no bits.
  Nothing is assumed of where the area begins: buddies are found by page numbers, and a block whose buddy lies outside is just not merged.
- *kmalloc*, `SlobInv`: the free blocks are one ring in the order of addresses (`Round`, which says of each link that no free block lies between), and with the blocks handed out they cut the pages taken, none touching the next.
  `SomePlace` shows that the walk of `slob_free` comes to a place, on the wrap too; `DropRound` and `EnterRound` say what its joins do to the ring.
  `SlobAlloc` may add a page in the middle of a request; the `bigblock_t`s are blocks of the same list, one to a page (the last two conjuncts), so that a page that cannot be had gives its header back.

From these, a step hands out a run of free memory or takes back one that was handed out (`PoolStep`), which is all of `PagePool`.

**Copy-on-write.**  For any number of processes, pages and frames.  `SharedExact` is inductive: a count is at least the number of mappings (the double count of section 6 makes it more), and a page mapped twice is writable through neither entry.
So a store goes to a page nobody else sees, and a copy is made before it; that is every step of `PrivateMemory`.

**Program loading.**  For any segments in any order, any sizes of pages, words and stack, and arguments that have room in the stack (`LoadAssumption`; 32 strings of 4 KB in a stack of 1 MB).
`LoadInv` says how far the loading is: the segments before `seg` are there (`Done`), this one has its bytes up to `start` (`Filling`), and the areas are in order and a page at least each (`InOrder`), with every page in one (`Mapped`).
A page that is mapped lies in the area of its segment, which is apart from the others', so that it covers nothing of theirs (`PageFilled`); the arguments stay in the area of the stack, since each takes no more of it than its share (`ArgumentIs`).
Arguments that run below the mapped pages stop the load there, which keeps all of this.  A failure before the stack therefore leaves no page.  `FileEnded` shows by the way that the branch of section 6 always ends in its assertion.
The areas answer exactly: `insert_vma_struct` keeps them in order (`InsertsInOrder`), `dup_mmap`, which inserts from the last to the first, makes the same list (`DupIs`), and the walks of `user_mem_check` from area to area and of `copy_string` from page to page come to the same answer
as asking each address (`UserMemCheckIs`, `CopyStringIs`); a part of a page can be asked at its first address because areas consist of whole pages (`PageRead`).

*Only model-checked*, and why:

- liveness (`RunnableRuns` and its relatives, `DownReturnsIfUps`, `EverybodyQuits`, `InputIsRead`, `WalkEnds`, `NobodyStarves`) and the fairness of `ImplementsFifo`: fairness and ENABLED are beyond the prover;
- `LeastFirst`, `SpreadKept`: the heap of `Stride` is a recursive operator;

## 6. Where the code and its own statements disagree

Shown by a run:

- `proc_kill`: `proc.h:76` says a `WT_INTERRUPTED` wait can be interrupted, but a process killed before it
  goes to sleep sleeps on with the mark set, and a second kill is refused without waking it.  `KilledDiesOrWaits` says what does hold.
- `first_fit`: `default_pmm.c:147` has no `break` where `best_fit_pmm.c:173` has one, so a block freed behind all free ones is linked behind itself.
  The list is right again only until an allocation takes such a block: its pages are handed out and stay on the list, against "unlink the pages from free_list" (line 40).
  `memory` checks the same allocator with the last page left free, where the branch is never taken.
- `load_bss`: `proc.c:816` computes `start - la` where `la` has already been advanced by a page; lab5 `proc.c:774` and the listing in the report (`lab8/lab6_8实验报告.md:1939`) add `PGSIZE`.
  The assertion behind it fails for every segment whose bytes end inside a page and that is larger in memory.  The programs of `user/` do not get there, since `.data` is empty and `.bss` begins at a page.
- `load_args`: `proc.c:863` puts the array `argv` and the strings it points to at the same place below `USTACKTOP`; the report (line 2056, drawing at 2062 to 2074) has one above the other.

In the models, without a run of their own:

- `sfs_inode.c:356` asserts `index <= din->blocks` of every access; a descriptor that stands beyond the end of a file another one truncated fails it on its next write.
  `sfs_truncfile` that fails half way on a full disk leaves more blocks than the size says, and line 953 asserts the contrary later; a write of nothing can raise the size (line 657);
  `din->blocks` rises without `dirty` (line 365); `O_CREAT` truncates and `O_APPEND` does not append on each write (`vfsfile.c:57`, `file.c:180`).
- `vfsfile.c:46` returns without giving the reference of its lookup back, and `proc.c:636` gives descriptors back only for a process with an address space: `InodeCountsExact` and `SlotsExact` hold up to exactly these losses.
- lab5 `pmm.c:480` and `:489` count the mapping of a child twice, where the comment at 479 expects 1 → 2: shared pages are never given back and the branch for a count of 1 is not taken.  Memory stays private all the same.
  `do_pgfault_cow` makes a page writable that was read-only before the fork.
- Buddy blocks of an area that is not aligned do not always merge back into those it was cut into (`lab2实验报告.md:748`, `:1436`): `BuddyExact` asks for merges only of buddies inside the area.
- `kmalloc` of sizes from `PAGE_SIZE - 2 * SLOB_UNIT` to `PAGE_SIZE - SLOB_UNIT - 1` fails the assertion of `slob_alloc` (`kmalloc.c:99`); no caller asks for one.
- `default_sched_stride.c:13` and `lab6/实验报告.md:351` say that strides never differ by more than `BIG_STRIDE`.  `SpreadKept` shows that this lasts once it holds and nobody joins; a new process (stride 0) or one that slept long breaks it, and
  processes that fork a successor and exit can pass over a waiting one for ever.  A priority above `BIG_STRIDE` gives a pass of 0.  The copy of the class in lab 8 divides by a priority of 0.
- `mm_map` looks only at the start of a new area (`vmm.c:187`), so an area that begins before another and reaches into it is left to the assertion of `insert_vma_struct`; and the four stack pages of `load_icode` are asserted to exist (`proc.c:847`).
- The four pages hold 16 KB of arguments, and `do_execve` takes 32 of 4 KB: longer ones fault for ever in the `strcpy` of `proc.c:869` (`Args`).

## 7. Plan

*Done:* processes, scheduler, timers, pids; semaphores, monitor, philosophers, keyboard, SFS files; descriptors, the page allocators, `kmalloc`, copy-on-write, program loading, stride scheduling and `fs_cleanup`.  Proved: everything of section 5.  Next, in this order:

1. `TimerList` as a refinement of one countdown per sleeper (no property says yet how long a sleep lasts: `TimersOwned` has the order and the head of the list, `SleepersWake` that it ends), and the family tree with its sibling pointers as a refinement of the set of children.
2. The lookup of directories, the slub allocator of lab 2.

## 8. Not modelled, and why

- *Most of the lines.*  The repository holds nine stages of one kernel, each with its own copy of boot code, drivers, `printf`, string and list helpers, register definitions and user programs.
  A part is modelled once, from the lab where it is complete; the copies are not listed again, and headers of constants, tests and tools have no behaviour.
- *SFS directories.*  They cannot change in this kernel (no create, unlink, mkdir, rename), so a lookup is a search in a constant; no system call reaches `chdir`.  Mounting reads the image once; what it asserts of the disk is part of `BlocksExact`.
- *The ram disk* is memory of the kernel image: its driver cannot fail and does not outlive the kernel, so there is no crash to recover from.
- *Locks of SFS*: nothing sleeps while it holds one, although `sfs_reclaim` and the lookup take two of them in opposite orders.
- *Buffers*: the loops of `sysfile_read` and `sysfile_write` cut a request into pieces of a page; a turn of the loop is a `Read` or `Write` of `SfsFiles`, and a copy that fails is a shorter request.  Contents of file blocks, trap frames, kernel stacks, page tables as such are left out.
- *Swap*: lab 8 never calls `swap_init`.  Labs 7 and 9 do, but the part of `do_pgfault` that would read a page back is commented out
  (`lab7/kern/mm/vmm.c:480`), and nothing but the self-test gives FIFO replacement a page.
- *slub* (lab 2): disabled at `lab2/kern/init/init.c:45`, whose comment says that its `kfree` has a bug: it looks for the cache of an object by the offset of the object
  in its page (`slub.c:163`), so it counts with the size of another cache, and for offsets above 1024 gives the page back with what else is in it.
- *Output devices, `cons_*`, the firmware calls*: characters go out in the order of the calls; there is no state.
