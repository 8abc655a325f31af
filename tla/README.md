# Liberal_OS in TLA+

Liberal_OS is xv6-riscv extended into a host for LLM agents: a priority
scheduler, per-process memory quotas, a kernel verifier for the fixes the agents
propose with a checkpoint slot to roll back to, a kernel response cache with a
disk overlay, and a proxy channel to the host over the console. This directory
holds TLA+ models of its core, translated from the source, the TLC
configurations that check them and TLAPS proofs. Paths below are relative to
`src/xv6-src/` unless they start with `docs/` or `host/`. `PROJECT.json` lists
every definition with the lines it models.

## 1. Inventory

| Component | State | Operations | Interacts through | Hard because | Correct when |
|---|---|---|---|---|---|
| Sleep locks, `kernel/sleeplock.c`, `sleep`/`wakeup` in `proc.c` | `locked`, `pid`, `lk->lk`; `p->state`, `p->chan` | acquiresleep, releasesleep, holdingsleep | under buffers, inodes, the console, `proxy_lock` | two spinlocks, preemption, kill of a sleeper | exclusion, truthful owner, no lost wakeup |
| Scheduler, `proc.c` | `p->state`, `p->priority`, `c->proc` | scheduler, sched, yield, sys_setprio | all CPUs read the table without a global lock | a result of pass 1 is stale in pass 2 | one CPU per process, priority order, progress |
| Process table, `proc.c`, `trap.c`, `user/init.c` | state, pid, parent, killed, `wait_lock`, `nextpid` | fork, exit, wait, kill, reparent | sleep/wakeup, init adopts orphans | races of exit with wait and of kill with both; entries are used again | every zombie can be reaped and is noticed, kills reach whom they name |
| User memory, `vm.c`, `exec.c`, `proc.c`, `sysproc.c`, `kalloc.c` | free list, page tables, `sz`, `mem_quota` | sbrk, setquota, page fault, fork, exec, exit | pool of frames | allocation fails half way | no frame shared or lost, no panic, quota kept |
| Fix verifier, `verifier.c`, `sys_verifyfix` | none (pure) | verify_fix, fill_snapshot | walks the process table without a lock | the snapshot is of no instant | OK exactly for safe proposals |
| Checkpoint slot and evaluator, `sysproc.c`, `user/evaluator.c` | one slot with owner; the agent's loop | checkpoint, restore; seed, verify, commit, roll back, amend, retry | one slot for all processes | another process overwrites the slot | commits and rollbacks are safe, the loop converges |
| Response cache, `cache.c`, `user/proxy_client.h` | RAM slots, `/cache.bin` | cache_get, cache_set, cache_clear | RAM lock, inode lock; the agents | RAM and disk are updated under different locks; reboot | hits are genuine, RAM is backed by disk, newer answers win |
| Log, `log.c` | header and blocks on disk, `log.lh`, `outstanding`, `committing` | begin_op, log_write, end_op, commit, recover | every file system call | crash at any disk write, group commit, limited space | operations are atomic and durable |
| Buffer cache, `bio.c`, and disk driver, `virtio_disk.c` | buffers with reference counts and LRU list; descriptors, rings, `info[]` | bread, bwrite, brelse, bpin, bunpin; rw, interrupt | log and inodes above, the device below | completions out of order, interrupts against sleeps, few descriptors, pinned buffers | one content per block, every call returns |
| Inodes, directories, `fs.c`, `mkfs/mkfs.c` | inode table, link and reference counts, bitmap, directories | ialloc, iget, ilock, iput, itrunc, bmap, dirlink, namex, ireclaim | log, buffers, sleep locks | last reference and last link race; crash with open unlinked files | counts exact, no dangling name, blocks owned once, no lock cycle |
| File table and calls, `file.c`, `sysfile.c` | file entries, descriptors, current directories | open, link, unlink, mkdir, mknod, chdir, dup, read, write, close; what fork and exit do to them | inodes, pipes | steps of one call interleave with other calls | open files stay alive, nothing is lost |
| Pipes, `pipe.c` | ring buffer with free-running counters, `readopen`, `writeopen` | pipealloc, piperead, pipewrite, pipeclose | file table, the agents' pipeline | close and kill against a sleeping peer, wrap of the counters | a byte stream that ends when it should |
| Shell, `user/sh.c`; triage, `user/triage.c`; agents | command tree; descriptors | parsecmd, runcmd; spawn_stage; read, call, print | fork, wait, dup, pipe | every process must close what it does not use | commands mean what the grammar says; the prompt comes back |
| Console, UART, proxy channel, `console.c`, `uart.c`, `user/proxy_client.h`, `host/proxy_daemon.py` | input ring `r`, `w`, `e`; `tx_busy`; `cons_write_lock`, `proxy_lock`; the host's line | consoleread, consoleintr, consolewrite, uartwrite, uartintr; proxy_send, proxy_recv, proxylock | interrupts, shell, host | full ring, echo in the middle of output, a killed holder of `proxy_lock` | requests whole, answers to the right caller, calls answered |
| Spinlocks, timer, PLIC, boot, syscall table | registers | | | | given |
| Utilities and tests, `user/` | | | | sequential | not modelled |

The hazards that follow from this, each at its line, are in `PROJECT.json`.

## 2. Modules

| Module | Models | State and actions against the code |
|---|---|---|
| `AbstractLock` | what a long-term lock promises | one variable `owner`; Acquire, Release |
| `SleepLock` | `sleeplock.c` over `sleep`, `wakeup`, `yield`, `kkill` | `lk` and `plock` are the spinlocks' holders; one action per stretch between two lock operations; `scan` is wakeup's loop variable |
| `Verifier` | `verifier.c`, `fill_snapshot`, the evaluator's proposal functions | operators only, under the source's names |
| `VerdictLoop` | any proposal, judged and corrected until it passes | `fix` is the proposal, `from` what it is corrected from; `Correct` is one turn of the loop |
| `Evaluator` | evaluators and foreign programs on one checkpoint slot | `pc` is the point in `main`; one action per system call; `ckpt` is the slot |
| `Scheduler` | `scheduler()` on `NCPU` CPUs, `yield`, `sleep`, `wakeup`, `sys_setprio` | each CPU looks at one entry per step; `any`, `max`, `at` are its locals; `stable` is history |
| `ProcTable` | allocproc, kfork, kexit, reparent, kwait, freeproc, kkill, faults, init | `wait_lock`, `plock`, `pc` per entry; `named` is history |
| `UserMemory` | growproc, sys_sbrk, setquota, vmfault, uvmcopy, kexec, freeproc | page tables as functions from pages to frames; a call is one step, its failures are other outcomes; `capped` and `lazy` are history |
| `RespCache` | `cache.c` and `proxy_call()` | a step is one hold of `cache.lock` or one transaction on `/cache.bin`; `overlapped` and `lost` are history |
| `AtomicStore` | what the log promises | `current`, `durable`, `active`; Begin, Write, End, Commit, Crash |
| `Log` | `log.c` over the block store | a step is one hold of `log.lock` or one disk write; Crash at any point, in recovery too |
| `BlockStore` | what `bread`, `bwrite`, `brelse` promise | `content`, `holders`; Acquire, Change, Release |
| `Disk` | `bio.c` over `virtio_disk.c` | a step is one hold of `bcache.lock`, `vdisk_lock` or a buffer's lock; the handler takes several (`handler`), the device goes on meanwhile (`Complete`, external). `used` holds the entries of the used ring from `used_idx` on |
| `FileSystem` | `fs.c`, `file.c`, `sysfile.c`, the image of `mkfs.c`, files in `kfork` and `kexit` | `disk` is what `bread()` shows, `durable` what is committed; `mem` is the inode table; a step ends where a process waits for an inode's lock or passes `itable.lock` again; `stray` and the field `up` of `op` are history |
| `ByteStream` | what a pipe promises | bytes written, bytes read, open ends |
| `Pipeline` | `pipe.c`, `runcmd`, `triage.c`, the agents' loops | a program is the sequence of calls it still makes (`todo`); one action per call or per stay under a pipe's lock |
| `ShellParser` | `sh.c`'s parser | recursive operators under the source's names; `Meaning` is the grammar |
| `ProxyChannel` | `console.c`, `uart.c`, `proxy_client.h`, `proxylock`, the host's loop | `cons` is the input ring, `rx` what is on its way in; `wq` a process's pending writes, symbol by symbol; `hline` the host's line; `early`, `dropped`, `lost`, `typed` are history |
| `SleepLockProofs`, `LogProofs`, `DiskProofs` | theorems about the module of the name | |
| `AgentProofs` | theorems about `Pipeline`, and about `Verifier`, `VerdictLoop`, `Evaluator`: what the agents run on | |
| `ProcessProofs` | theorems about `Scheduler` and `UserMemory`, what a process has of CPUs and of memory | |
| `TableProofs` | theorems about `ProcTable` and `RespCache`, the kernel's tables whose entries are used again | |
| `FileSystemProofs`, `DirectoryProofs` | theorems about `FileSystem`: references, locks and blocks; then names and links | |
| `MC*` | instances for TLC | |

`VerdictLoop` and `Evaluator` extend `Verifier`; `SleepLock` instantiates
`AbstractLock` with `owner` mapped to `pid` while `locked`; `Log` instantiates
`AtomicStore` with `durable` mapped to what recovery would make of the disk and
`current` to what `bread()` returns; `Disk` instantiates `BlockStore` with
`content` mapped to the valid buffer's data, or the disk's; `Pipeline`
instantiates `ByteStream` for every pipe. The layers rest on each other:
`FileSystem` takes a transaction to be atomic, which `Log` shows; `Log` takes a
block write to be atomic and reads to be coherent, which `Disk` shows; `Disk`
takes a buffer's lock to exclude, which `SleepLock` shows. `MCPipeline` puts the
parser under the shell. The specifications of `UserMemory`, `RespCache` and
`Pipeline` are called `MemSpec`, `CacheSpec` and `PipeSpec`, as each of them
shares a proof module with another component.

Data is abstracted to what properties tell apart. The idealisations are:

- spinlocks exclude, and the device writes a block as a whole. It never reports
  an error, so that the panic on a request's status (`virtio_disk.c:316`) is not
  in `Disk`;
- the rings of the disk are sequences of unhandled entries: at most `NUM / 3`
  requests are under way, so they do not overflow, and `NUM` divides 2^16. The
  avail ring's entries are with the device once it is notified; when it carries
  them out is free. In `Disk` a process has one buffer at a time, while
  `write_log()` and `install_trans()` have two;
- in `FileSystem` the bytes of a file are the blocks it has, a write adds one
  block, a transaction fits in the log, and link counts stay below the 2^15 of
  a `short`; `Crash` leaves what was committed;
- `mknod()` takes any major number, so that each `open()` of a device may find it
  out of range; `copyin()` of what is written may fail at any write;
- in `Pipeline` a byte is a number, agents copy lines, and the host's answer
  comes at once; triage has `STAGES` stages instead of five, and its file argument
  (`triage.c:54-57`, `:82`), a descriptor that the first stage gets as its input
  and everybody else closes, is left out, as it is no end of a pipe. `fileclose()`
  gives `ftable.lock` back before `pipeclose()` takes `pi->lock`
  (`file.c:64-77`); the two are one step here. In between the entry of `ftable` is
  free and the end is still open, and nobody but the closer leads to that end;
- in `ProxyChannel` a symbol stands for a run of bytes that no other output
  divides by itself; the host reads when the UART writes, its delay is the delay
  of its answer. The host serves for as long as it is asked: its deadline and its
  end at `TRIAGE_DONE` (`proxy_daemon.py:250`, `:266`) are left out, for after
  either of them there is no host to speak of; ^P prints one line; end of file is typed to the shell only;
- `cache_fnv1a()` has no collisions, and MinHash signatures agree in the share
  of the words that two prompts have in common;
- `verifyfix()` returns -100 for addresses that are not the caller's
  (`sysproc.c:304`, `:312`); the evaluator passes its own variables, and the
  result is left out;
- text fields are names; the malformed ones are the empty one and the one
  without a NUL, which is what `field_ok()` tells apart;
- frames of inner page table nodes are not counted: running out of them has the
  effect of running out of memory at that page. The counter `quota_denied` and
  the logging are left out;
- a process in the window between `release(&p->lock)` and `acquire(lk)` at the
  end of `sleep()` may be preempted in the code; in `SleepLock` it is then not
  yet dispatched, which no other process can tell apart;
- in `ProcTable` init is not killed and does not fault, for the kernel would
  panic; its two ways to exit by itself set `panicked`;
- calls without any effect (a failing `sbrk`, `fork` without a free entry other
  than init's, `sbrk(-n)` beyond the size) are stuttering steps.

## 3. Runs

All instances are explored completely.

| Run | Instance | Shows |
|---|---|---|
| `SleepLock` | 3 processes: holder, sleeper, newcomer | `NoLostWakeup`, `ImplementsLock`; `SleepersWake`, with nothing assumed of the scheduler |
| `VerdictLoop` | every proposal over 6 texts and the numbers -1, 0, 2, 3, 4, 9 on both sides of each bound | `VerdictIsSafety`, `ThreeCorrections` |
| `Evaluator_shared` | 2 evaluators, 1 foreign program; a walk of the table may see any subset of 3 entries | `AcceptsOnlySafe`, `RollsBackToSafe`; `LineSettles` under fairness |
| `Scheduler` | 3 processes, 2 CPUs, priorities -1 and 0 | `OnOneCpu`, `FallbackOnlyIfTaken`; `LeaderRuns` under fairness |
| `ProcTable` | 3 entries, pids up to 4, kill of 0 .. 4 | `ParentAlive`, `NoZombieMissed`, `NotFreedOnCpu`; `ExitIsNoticed` under fairness |
| `UserMemory` | 2 entries, 7 frames, 3 pages of 2 bytes, quota 0 or 2 | `NoSharing`, `NoLeak`, `EagerWithinQuota` |
| `RespCache` | 2 agents, 3 queries, 2 slots, 3 records | `GenuineHit`, `RamIsOnDisk` |
| `Log` | 2 processes, 4 blocks, 2 blocks an operation, 4 in the log | `SpaceReserved`, `NobodyStranded`, `ImplementsStore` |
| `Disk` | 3 processes, 4 blocks, 2 buffers, 5 or 6 descriptors, 4 calls of `bread()`, one process killed at will | `ImplementsBlocks`; `EveryCallReturns` under fairness |
| `FileSystem` | 2 processes, 4 inodes, 4 blocks, 1 file entry, 4 calls of 13 kinds, crashes | `LinkCounts`, `NoDanglingName`, `BlocksOwned`, `HeldIsAlive`, `Reclaimed`, `NoLockCycle`, `OnlyDotDotPanics` |
| `Pipeline` | shell and 4 children, 2 pipes of 2 bytes, counters modulo 4, 3 stages, 1 kill; every line of up to 5 symbols is parsed, 8 kinds are run, and triage | `PipeHeld`, `ForegroundDone`, `ImplementsStream`, `ParsesTheGrammar`; `PromptsAgain` under fairness |
| `ProxyChannel` | 2 agents of 2 calls, one of them with output on the console, a ring of 4 symbols, answers of 1 and 3, 5 ways of typing, 1 kill | `RequestsWhole`, `GenuineAnswer`; `Answered` under fairness |

Why the bounds are enough for the cases of interest. *SleepLock*: a wakeup can
be lost only if a third process is between test and sleep while the holder
releases. *Scheduler*: two CPUs are needed for a stale pass 1, a third process
for a fallback that finds something; -1 lies below the initial `max_prio`.
*ProcTable*: three entries give a grandchild that is orphaned; four pids make
entries change tenants. *UserMemory*: pages of two bytes give sizes inside a
page; seven frames do not suffice for two processes of full size, so every
allocation fails somewhere; besides, any allocation may fail. *RespCache*: more
keys than slots, more records than the file takes. *Log*: the two operations
fill the log exactly. *Disk*: blocks outnumber buffers, so that buffers are
recycled while one is pinned; with 5 descriptors a second request has to wait
for them, with 6 two are under way and may finish in either order. The panic of
`bget()` is reached. *FileSystem*: four inodes are the root, a directory in it,
one in that and a file; two processes and four calls reach the window of `link()`
and that of `iput()`; a file takes two blocks, the second through the indirect
block; one file entry and two descriptors are used up. The paths with `..` are
walked from directories that have been removed, also where the inode they lead
to has been freed and allocated again. *Pipeline*: a pipe of two
bytes fills up, counters wrap after two fillings, pipelines have two and three parts, and the
killed process is a stage. *ProxyChannel*: the longer answer does not fit in the ring, so that
symbols are dropped; two agents contend for `proxy_lock`, and a third party, the
shell, echoes and prompts.

The modules state further properties that hold of the same instances and are
proved in section 5: `TypeOK`, `MutualExclusion`, `HoldingIsTrue`,
`EveryCorrectionCounts`, `Pass2Strict`, `PidsDistinct`, `KilledByName`, `NoPanic`,
`WithinSize`, `UniqueKeys`, `IdleIsDurable`, `NoDoubleFree`, `OneBuffer`. The
inductive invariants of the proofs were checked with TLC on such instances before
they were proved.

Symmetry is used for interchangeable agents, frames, processes and blocks, in
runs without liveness properties. Every property has a mutant in `PROJECT.json`:
a plausible bug of the code for which TLC finds the property violated.

Deadlock is checked except where the system may stop: evaluators end at end of
input, in `ProcTable` and `Disk` the kernel may panic, and pids and calls are
bounded; the shell ends at end of file, and a killed holder of `proxy_lock`
leaves everybody waiting.

### Fairness

- `SleepLock!FairSpec`: a process that has a CPU goes on, through the code of the
  sleep lock and, as its owner, to `releasesleep()`. Nothing is assumed of the
  scheduler: `scheduler()` is strict in its priorities and biased within one, so
  that a ready process may never be dispatched. `SleepersWake` therefore says that
  a process sleeps for ever only if the owners of the lock are kept off the CPU
  again and again (`OwnerIsOff`): the priority inversion that the code allows. Going
  on to `releasesleep()` holds for the kernel's own sleep locks, which are held
  across finite code, and not for `proxy_lock`, which user code holds: see the
  hazard at `sysproc.c:231`.
- `Scheduler!FairSpec`: every CPU's loop goes on and the timer makes a running
  process yield. Nothing is assumed of sleepers.
- `ProcTable!FairSpec`: the kernel's steps go on and ready processes are
  dispatched; a process back from `sleep()` gets `wait_lock` at last although
  others take it in between.
- `Evaluator!FairSpec`: an evaluator goes on; the host answers or the call
  fails. An unanswered `proxy_recv()` would block for ever: that is the
  assumption.
- `Disk`: a process that can go on does, the device finishes requests, and its
  interrupts are taken. Nothing is assumed of who gets a descriptor or a buffer
  first: the calls are finitely many, so that nobody is overtaken for ever.
- `Pipeline`: somebody makes a step whenever a step other than a kill is
  possible; that suffices, since a line is finitely many steps.
- `ProxyChannel`: UART interrupts are taken, shell and agents go on. The host
  answers every request it recognises. `Answered` exempts what really blocks: a
  killed holder of `proxy_lock`, input that found the ring full, and a command
  echoed before the prompt (section 4).

## 4. Where the code and its comments part

Each of these is a property that restates a comment, with a configuration under
which TLC prints a behaviour of the code that breaks it. They stand beside the
runs of `PROJECT.json`, which are about what holds:

| Configuration, module | Property | What the code does |
|---|---|---|
| `Evaluator_overwritten.cfg`, `MCEvaluator` | `RollsBackToLastAccepted` | "restore() the last accepted state" (`user/evaluator.c:9-10`). Once another process has used the slot, `restore()` returns 0, the evaluator does not look (`:166`), and amends from an older base. The base is still safe, which is proved. |
| `Scheduler_roundrobin.cfg`, `MCScheduler` | `RoundRobin` | "unmodified xv6 behaviour reduces to the original Round Robin" (`kernel/proc.c:465-467`). Both passes start at index 0; a computing process at a low index starves later ones of equal priority. |
| `UserMemory_quota.cfg`, `MCUserMemory` | `ResidentWithinQuota` | "cap the calling process's resident heap" (`kernel/sysproc.c:213`). Lazy `sbrk` and page faults do not ask for the quota. |
| `RespCache_lastwrite.cfg`, `MCRespCache` | `LastWriteWins` | "Last write wins for exact-key matches" (`kernel/cache.c:177-178`). A paraphrase promotes the older record of a key written twice, and exact lookups then serve it. |
| `FileSystem_orphan.cfg`, `MCFileSystem` | `LastPutFrees` | "If that was the last reference and the inode has no links to it, free the inode" (`kernel/fs.c:333-334`). `iput()` gives the inode's lock back before `ip->ref--`; who allocates, uses and unlinks that inode in between is not the last to put it, and the first only counts down. The inode stays allocated until `ireclaim()` at the next boot. |

Met while modelling, and built into the models as they are:

- `create()` and `link()` in a directory that was removed succeed and leave an
  inode that no name reaches (`stray` in `FileSystem`). `..` of a removed
  directory may name a freed inode, and walking there panics in `ilock()`:
  `OnlyDotDotPanics` shows that no other walk does (`up` says that the last step
  of the path was such a `..`). The inode may also have been allocated again.
  If `create()` has it from `ialloc()` and has not locked it yet, `link("..", new)`
  counts a link that `create()` then overwrites with 1 (`sysfile.c:270-273`): two
  names and one link, and the first `unlink()` frees the inode under the other
  name. This too sets `stray`. `LinkCounts` and `NoDanglingName`, the current
  directories of `HeldIsAlive`, the sign of the counts in `Reclaimed` and the
  silence of `unlink()` in `OnlyDotDotPanics` are claimed while `stray` is FALSE;
  `BlocksOwned`, `NoLockCycle`, the open files of `HeldIsAlive` and the rest of
  `Reclaimed` and of `OnlyDotDotPanics` always.
- `NINODE` is 50 and `NFILE` 100: `iget()` panics when the table is full.
- `consolewrite()` says that its lock "keeps each whole user write() atomic at
  the UART" (`kernel/console.c:73-75`); the echo of `consoleintr()` (`:187`) does
  not take it. Requests stay whole because nothing is typed or answered while a
  request is written under `proxy_lock` (`RequestsWhole`).
- A process killed while it has `proxy_lock` never releases it: later callers
  wait for ever. An answer longer than the 128 bytes of the ring may lose bytes,
  or its newline. `__HANDLER_ERROR__` is cached like any answer. The host sends
  its command without waiting for the prompt; a request whose line begins with
  the prompt is not recognised.
- `bget()` panics when every buffer is pinned or held, and `NBUF` equals
  `LOGBLOCKS`.

## 5. Proofs

TLAPS checks every proof for all values of the constants.

- `SleepLockProofs`. `MutexThm`, `HoldingThm` and `NoLostWakeupThm` follow from
  the invariant `IInv` (`Invariance`); `Refinement` shows that every step is a
  step of `AbstractLock` or leaves `owner` alone. `NoLostWakeup` is not
  inductive: one must know that a process that has given up `lk->lk` on its way
  to sleep (`pc = "unlk"`) still has its own `p->lock`, so that the releaser's
  scan has to stop at it (`PlockInv`), who has `lk->lk` at each point
  (`SpinInv`), and that the lock is held, or the scan not yet past it, from the
  moment `lk->lk` is given up (`SleepyInv`). Assumption: `N` is a positive
  natural.
- `AgentProofs`, `Pipeline`. `PipeInvariant`, `PipeHeldInvariant` and
  `StreamRefinement`, for any number of processes, files, pipes and stages, for
  every line whose commands are closed under taking parts, and for kills at any
  time. The invariant does not look into what a command means: a program is a
  sequence of calls whose operands are in range (`ProgramType`), with the types of
  the rest (`DataType`, `LineType`, `TableType`). `RefInv`: `file[f].ref` is the
  number of descriptors of f, so that only the last `close()` reaches the pipe.
  `EndInv`: an end of a pipe has at most one file; with it `PipeHeld` is
  inductive. `GoneInv`: a process that is over has no descriptors. `RingInv`:
  `nwrite - nread`, modulo the range of a `uint`, is at most `PIPESIZE`; the test
  `nwrite == nread + PIPESIZE` tells full from empty as the size is smaller than
  the range. For the refinement, byte n of the stream is the one at index
  `nread + n` modulo `PIPESIZE`, which stays so when a counter wraps because the
  range is a multiple of the size: otherwise the index would jump in the ring. A
  step of `pipewrite()` or `piperead()` under the lock is a write of as many bytes
  or a read of one, `pipeclose()` closes an end, and everything else leaves every stream
  alone. Assumptions (`PipeAssumption`): finitely many children, at least three
  descriptors, `PIPESIZE` below and dividing the range of the counters.
- `AgentProofs`, the verdict. Lemmas on what `verify_fix` and `amend_from_verdict` return,
  for all integers and texts; from them `VerdictSafety`, `CorrectionsCount` and
  `CorrectionsBound`. The bound rests on the order of the rules: FIELD, RANGE,
  then PROTECTED or ACTION, and on no correction breaking an earlier rule, for
  which the base must be safe. `OnlySafeAccepted` and `OnlySafeRestored` hold for
  any number of evaluators and foreign programs. Their invariant adds that a
  slot owned by an evaluator holds what that evaluator last had accepted
  (`SlotIsOwn`) and that a candidate at the commit was passed (`PassedIsSafe`).
- `ProcessProofs`, `Scheduler`. `OneCpuEach`, `FallbackJustified` and the action property
  `Pass2RespectsPriority`. What a CPU remembers of pass 1 stays true only of
  entries that have been RUNNABLE ever since (`StableWaits`): nobody else can
  change their priority. Of these, pass 1 has seen those below its index
  (`Pass1Knows`), and pass 2 has passed over only those of a lower priority
  (`Pass2Knows`). Assumptions: the numbers of entries and CPUs are positive,
  priorities lie in -20 .. 19.
- `TableProofs`, `ProcTable`. `AlwaysAParent`, `NoExitMissed`, `StackInUse`, `OwnPid`,
  `KilledOnPurpose`. None of the five is inductive. One must know who has
  `wait_lock` and `p->lock` at each point of `kexit()`, `kwait()` and `sleep()`
  (`WaitLockInv`, `PlockInv`, `StateInv`); that parent links lead to processes
  that have not handed their children over (`LinkInv`), save for the one that a
  `kfork()` has not linked yet (`ForkInv`); and that from the scan to the sleep no
  child gets past its `wakeup(p->parent)` (`NapInv`). Assumption: at least two
  entries.
- `ProcessProofs`, `UserMemory`. `NoFrameShared`, `NoFrameLost`, `NeverPanics`, `QuotaKept`,
  for every outcome of every call, all the partial failures included. The
  invariant adds that nothing is mapped past the size (`WithinSize`: why
  `mappages()` finds no page there and `freewalk()` no leaf), and that an entry in
  use has its two frames (`UsedHasFrames`). Assumptions: sizes are positive, and
  every program's image ends below the trapframe (`ImageAssumption`): there is far
  less RAM than there are addresses, so `kalloc()` fails long before.
- `LogProofs`. `RoomForAll`, `NobodyLeftAsleep`, `NoStrayOperation`,
  `DurableWhenIdle`, and `Refinement`: the log implements `AtomicStore`, with a
  crash at any disk write, in recovery too. The invariant says, for each point of
  `commit()` and of recovery, how the header on disk relates to the one in memory
  (`HeadInv`), which buffers are pinned and that all others are clean (`PinInv`),
  which blocks of the log are copied (`CopyInv`) and which are at home again
  (`HomeInv`); who is in an operation and who commits (`CountInv`, `EmptyInv`,
  `MineInv`). In the refinement only the write of the header is a `Commit`; every
  other disk write leaves what recovery would make of the disk unchanged.
  `RoomForAll` counts the places still reserved as a set, so that a block logged
  is a place given up. Assumptions: finitely many processes, and an operation's
  `MAXOPBLOCKS` fit in the log.
- `TableProofs`, `RespCache`. `ServedOwnRole`, `SurvivesReboot`, `OneSlotPerKey`. The record
  an agent has in hand serves its query from the moment it is found (`HandInv`),
  whatever happens to the slot or the file meanwhile. For `SurvivesReboot`
  (`AloneInv`): while no two calls overlap and no append fails, the only slot that
  is not on disk is that of the agent about to append it, what is promoted was
  read from the disk, and RAM stays empty between the two halves of
  `cache_clear()`. Assumption: a query is a role and a prompt, not both empty.
- `DiskProofs`. `DescriptorsFreedOnce`, `CachedOnce` and `Refinement`: the buffer
  cache over the driver, its interrupt handler and the device implements
  `BlockStore`. The invariant says that `refcnt` counts the processes that were
  given the buffer, plus the log's pin (`CountInv`): so a recycled buffer is
  nobody's. Descriptor chains in use are disjoint and not free (`ChainInv`); what
  the device or the used ring has is the request of one process that waits, and
  `b->disk` says so until the handler has seen it (`RequestInv`). The core is
  `SyncInv`: a valid buffer that is neither pinned nor on its way to the disk
  holds what the disk holds, and so does a buffer the device is done with. Hence
  recycling, the device and the handler leave the content of every block alone;
  `Acquire` is the lock of a valid buffer or the end of a read, `Change` the
  caller's write, `Release` the first half of `brelse()`. Assumptions: finitely
  many processes, and `NUM` is at least 3.
- `FileSystemProofs`. `CoreInvariant` and `BlocksInvariant`, for any number of
  processes, inodes, blocks, names and table entries, with a crash at any time.
  `Core` is what the other proofs stand on. `file[f].ref` is the number of
  descriptors of f (`FileInv`), and `ip->ref` the number of open files, current
  directories, calls and pending `iput()`s that have the inode (`RefInv`, counts
  of places, so that a reference that moves from one to another is no change).
  Who has which lock follows from where he is in his call (`LockInv`); hence
  `iput()` with the last reference does not wait, as its comment says. A valid
  copy in `itable` is the disk's (`CopyInv`). What an open file, or a call past
  its `ilock()`, refers to is neither free nor in the hands of an `iput()` that is
  about to free it (`AliveInv`): nobody else has a reference then, and who gets
  one afterwards has to wait for the lock. For `BlocksInvariant`, `DiskInv` adds
  that a free inode is blank and that what is not a directory has no entries, on
  the disk and in what is committed.
- `DirectoryProofs`. `LockOrder`: a directory and then an entry of it are locked,
  so a circle of waiting processes would be a circle of names. There is none
  (`RankInv`: some numbering of the inodes grows along every name, and from `dp`
  to the inode that a `create()` under way has allocated); links of directories
  are refused, so that a new name leads to a file, which has no entries, or to a
  new inode, which can be numbered afresh. The `..` and `.` that `namex()` walks
  are locked without anything else held. `LinkCountsInvariant` and
  `NamesInvariant` rest on `LinkInv`: on the disk `nlink` is the number of names
  and of subdirectories plus the links that a call has counted and not entered,
  or removed and not yet counted down (`Pending`); in what is committed, where no
  call is under way, nothing is pending, which is the use of the group commit. It
  needs the shape of the tree (`TreeDisk`: a directory that has entries has a
  name, its `..` leads to where that is, the root has no name) and what a call
  relies on between two locks (`OpLinked`). `HeldInvariant` takes the current
  directories from it. `ReclaimInvariant` adds that `ireclaim()` has left nothing
  without links below the inode it is at (`BootedInv`), `PanicInvariant` is the
  sum of the above. Assumptions of both (`FsAssumption`): finitely many processes
  and names, `.` and `..` are not among the names that are created, the tables
  that `iget()`, `ialloc()` and `balloc()` search are not empty, and the
  directories on the first disk fit on it.

Only model-checked:

- liveness, which is out of the prover's reach: `SleepersWake`, `LineSettles`,
  `LeaderRuns`, `ExitIsNoticed`, `EveryCallReturns`, `PromptsAgain`, `Answered`;
- `ParsesTheGrammar`, since `ShellParser` is recursive;
- `ForegroundDone` of `Pipeline`, which needs to know of every point of every
  program how many children are still to be waited for: an induction over the
  command;
- `RequestsWhole` and `GenuineAnswer` of `ProxyChannel`: their invariant relates
  sequences of symbols on the line, in the ring, in the host and still to be
  written, and needs inductions over their lengths.

## 6. Plan

1. Done: the modules above, in the order sleep lock, verifier, evaluator,
   scheduler, process table, memory, cache, log, file system, pipeline, proxy
   channel, disk; and the proofs of section 5.
2. Left: `GenuineAnswer` for a `ProxyChannel` whose queues are functions with
   bounds instead of sequences, so that no induction is needed; triage's file
   argument; the windows of `fileclose()` in `Pipeline`.

## 7. Not modelled

Boot, interrupt controller, spinlocks, the system call table, string and
formatting code, `copyin`/`copyout` (but for their failure in `write()`), `agentstat` and `setrole`, the utilities and
tests, and the host's drivers of QEMU and the LLM: straight-line or sequential
code, register access or I/O, with no state that the properties here are about.
`pause()` and `uptime()` only read the tick counter. A `triage` in the background,
which competes with the shell for the console's input, is not among the programs
of `ProxyChannel`.

## 8. Running

    tlc -workers 2 -config SleepLock.cfg MCSleepLock
    tlapm SleepLockProofs.tla

and likewise for the other runs of `PROJECT.json`, the configurations of section 4
and the other proof modules.
