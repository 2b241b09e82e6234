# A TLA+ model of the BuzzOS kernel

BuzzOS is a single-processor x86-64 kernel with preemptive threads, processes,
pipes, futexes, a small file system, networking and a GUI.  This directory holds
TLA+ modules for the core of the kernel, its block cache, file system
and stream sockets, the TLC configurations that check them
on small instances, and proofs checked by TLAPS.  Paths below are relative to the
root of the repository.

Check a module from this directory with, for example,

    tlc -workers 2 -config MCProcessLife.cfg MCProcess
    tlapm SchedulerProofs.tla

## 1. The system

| component | state | operations | how it touches the others | modelled in |
|---|---|---|---|---|
| Scheduler (`sched/task.c`, `drv/timer.c`) | `tasks[].state`, `wake_tick`, `num_tasks`, `current_id`, slice and tick counters | `schedule`, `task_yield`, `sched_tick`, sleep, block, wake, arm, kill | everybody blocks and wakes through it | `Scheduler`, `FairCpu` |
| Tasks, threads, processes (`sched/task.c`, `syscall/sys_proc.c`, `core/exec.c`) | `tasks[]`, `procs[]`, `thread_infos[]`, user-stack bitmaps, `task_create_locked` | create, spawn, join, waitpid, exit, kill, reap | calls the page allocator, paging, VFS, futex cancellation | `Process` |
| Futexes (`syscall/sys_ipc.c`) | `futex_waiters[]` | wait, wait with timeout, wake, cancel | scheduler deadlines; called by kill and exit | `Futex`, `WaitQueue` |
| Pipes and the VFS lock (`fs/pipefs.c`, `fs/vfs.c`) | `pipes[]`, descriptor tables, `vfs_locked` | pipe, read, write, close, inherit, reset | blocks and wakes tasks; inherited at launch, closed at reap | `Pipe`, `Channel` |
| Block cache (`block/cache.c`) | 64 sectors with age and dirty bit | read, write, flush | ATA below, minifs above; own spin lock | `BlockCache`, `Disk` |
| Minifs (`fs/minifs/minifs.c`) | inodes, block map, superblock, in memory and on disk | create, write, truncate, rename, unlink, sync, mount | block cache; own lock; called under `vfs_locked` | `Minifs`, `FileTree` |
| ramfs, devfs, procfs | tables, generated text | open, read, write | under `vfs_locked` | no |
| Physical memory (`mm/pmm.c`) | bitmap, rover, free count | allocate, free | own spin lock that yields | planned; a set of stacks in `Process` |
| Paging (`arch/x86_64/paging.c`) | page tables | map, release, destroy | physical memory | no |
| Shared memory (`syscall/sys_shm.c`) | objects with owners, pins, generation | create, map, unmap, pin, cleanup | paging, exit | planned |
| GUI events, display (`syscall/sys_gfx.c`, `drv/fb.c`) | event sequence, waiters, display owner | wait, signal, acquire | input interrupts, exit | planned (events) |
| Network (`net/net.c`, `syscall/sys_net.c`) | sockets, TCP control blocks, receive queues | socket, connect, send, recv, shutdown, close, dispatch of frames | timer; any task drains the card for all; exit | `Tcp`, `Conversation` |
| ELF loader, boot, drivers, user programs | | | | no |

What is hard here:

- There is one processor, system calls run with interrupts enabled (the gate is a
  trap gate), and the spin locks of the allocator, the VFS and the creator yield
  the processor while they spin, *even where the caller has disabled interrupts*.
  So a region between `irq_save` and `irq_restore` is atomic only up to the next
  call that may spin.  That is where most hazards are.
- Tasks are killed wherever they are, and slots, futex slots, stacks and pipe
  entries are reused at once.
- Deadlines are 32-bit ticks compared by the sign of their difference, with zero
  for "none".
- A disk command may fail and the power may go between any two; the drive has a write cache of
  its own.  Blocks and inodes run out in the middle of a call that has already taken some.
- Segments are lost, repeated and reordered; whichever task drains the card changes the
  control block of a socket while the owner is between two looks at it.

What makes each modelled part correct: the scheduler runs one runnable task and
starves nobody, deadlines are exact; a task has its own stacks, a zombie is kept until
reported and is dead, no parent sleeps through the end of a child; no futex wake-up is
lost and no slot leaks; a pipe is a bounded FIFO with end of file, and nobody sleeps on a
ready pipe; a read answers what was last written, and a flush that is confirmed survives the power;
no block is shared or leaked and the names are a tree; a socket hands out the peer's stream, hears
its end, and confirms only what the peer has.  `PROJECT.json` lists the hazards line by line, with the properties that cover
them or the reason why none does.

## 2. The modules

`FairCpu` says what a scheduler promises.  `Scheduler` is shown to implement it.
`Process`, `Futex` and `Pipe` use that promise: in them any runnable task may take
the next step, an atomic step is what the code runs without a possible switch, and a
runnable task in the kernel is served again and again.

**Scheduler** has the slots of `tasks[]` as functions from `0 .. MaxTasks-1`.  One action
per operation: `TaskYield`, `TimerIrq` (`timer_irq` and `sched_tick`, accounting for one
or more ticks at once), `SleepUntil`, `BlockCurrent`, `BlockCurrentUntil`, `PrepareBlock`
(the half of a block that `pipe_wait` calls), `TaskWake`, `TaskCreate`, `TaskMakeReady`,
`Kill`.  `Schedule` is `schedule()`: expired tasks wake first, then the first READY slot
after the current one is taken.  The counter is modulo `2 * HalfTicks` and `Reached` is the
signed comparison.  `left` (ticks left of each delay) and `passed` (who was dispatched
while a slot stayed READY) are history variables.  Ticks are read in the step that uses
them; a read that falls between two ticks is one of the neighbouring interleavings.

**Process** is a program counter per task (`loc[t].pc`) through `task_create_ex`,
`task_reap_one`, `task_wait_pid`, `process_forget`, `sys_join`, `task_kill` and the exits.
A new action begins where the code may yield (allocator, VFS, creation lock) or where
interrupts are enabled.  `owner` is `task_process_owner`, `proc` is `procs[].used` and
`.state`, `free_stacks` is the page allocator as far as kernel stacks go.  Kill and exit
are the one atomic step `Die`, with its wake-ups.  The stores at the end of `process_forget`
are one action, with interrupts enabled in the code.  `exec_lock` is left out; it only
restricts who may spawn at the same time.

**Futex** has `Call` (deadline computed, interrupts enabled), `Enter` (up to the first block
or return), `Resume` (each further pass of the loop), `Wake`, `Kill`, `Recreate`, `Store`
(the user program), `Tick`, and `StrayWake`: other subsystems call `task_wake` with task
ids they kept.  **WaitQueue** is the abstract queue; `Futex` maps a task in the loop
that has not been woken to a member of the queue of its address.

**Pipe** is one entry of `pipes[]`, opened again after it was closed.  A call is `Call`,
then `Enter` when it gets `vfs_locked`, then passes through its loop (`ReadPass`,
`WritePass`); `Wait`/`Unlock`/`Relock` are `pipe_wait`.  `Die`, `Reap` and `Spawn` are the
end of a process, the closing of its descriptors when its slot is reaped, and inheritance.
**Channel** is the abstract FIFO with its end-of-file and broken-pipe answers; `Pipe` maps
the ring to it.

**BlockCache** is `block/cache.c` over the write, read and flush commands of `ata.c`.  `cache_lock` is
held through a call, so one call is under way (`call`), but each disk command is a step: a miss picks
an entry (`ReadMiss`, `WriteMiss`), writes it back if it is dirty (`Evict`), then fills it (`Fill`,
`Overwrite`); `Flush` writes the lowest dirty sectors in batches and then tells the device.  Each
command has a twin that fails, after it has stored any part of its sectors, and `PowerLoss` may come
anywhere: each sector becomes one of the values `pending` for it since the device was last flushed.  The
ages are left out, so any entry may be the victim.  **Disk** is what the file system sees: contents, and
what a loss of power may leave.

**Minifs** is `fs/minifs/minifs.c`.  `minifs_lock` is held through a call and nothing else runs in the
file system, so each call is one action: `Make` (create, mkdir), `Unlink`, `Rmdir`, `Rename`, `Truncate`,
`Write`, `Mount`.  They are composed of operators on a volume that carry on from what the one before
left, so that a call that fails half-way leaves what the code leaves.  An inode's pointers are one function:
the direct ones, then the single and the double table; `Route` is the way to a block, `Link` one
allocation on it with the next-fit cursor, `EnsureBlock` all of them and `EnsureBlocks` the loop of a write.
`Walk` is the inodes a path leads through.  A block is what refers to it: data bytes are left out.
**FileTree** is a set of names over nodes: each call changes one name, or the size of one file.  `TreeKind`,
`TreeNames` and `TreeSize` map a volume to it.

**Tcp** is one stream socket: `sys_net.c` and the TCP client of `net.c`.  Threads of one process run
through their calls with a program counter, a new step at each place where interrupts are enabled
(`ConnectLook`, `SendLook`, `RecvTake`, `RecvReset`, `RecvEnd` are the separate looks at the control block).
Frames arrive at any time: `DispatchSynAck`, `DispatchReset`, `DispatchData(s)` is
`net_tcp_dispatch_frame` for one segment.  `wire` is all we have ever sent and `Segments` all the peer
may ever send with what it has; both sides pick from it at will, which is loss, repetition, delay,
reordering and resegmentation at once.  The peer is external, modelled from what the code expects of it.  Numbers
are modulo `Modulus`.  Our pure acknowledgements, windows and checksums are left out.  **Conversation**
is the socket its process sees: two streams and their answers.

## 3. Runs

| run | instance | shows |
|---|---|---|
| `scheduler` | 3 slots, counter of 8 ticks, delays 0..2, interrupts of 1 or 2 ticks, slice of 2 | types, one running task, exact deadlines (`OnTime`, `NoEarlyWake`), round robin (`NoOvertaking`), no starvation (`ReadyRuns`, `SleeperWakes`), implements `FairCpu` |
| `process_life` | 4 slots, 3 kernel stacks, no threads; spawn, waitpid, exit, kill | stacks neither shared nor lost, creators serialized, zombies kept until reported, waitpid wakes and returns, the creation lock is released |
| `process_threads` | 4 slots, 4 kernel and 2 user stacks; spawn, thread, join, waitpid, exit, no kill | stacks exclusive with threads, user stacks too; a zombie has no thread left |
| `process_race` | 5 slots, reaps interruptible | **violation** of `ArmedHasStack`, see below |
| `futex` | 3 tasks in 2 processes, 2 addresses, 2 slots, no timeouts | no lost wake-up, no lost slot, answers and counts as in `WaitQueue` |
| `futex_timed` | 2 threads, 1 address, 1 slot, timeouts none or 2, counter of 8 ticks | timeouts on time, real and final; liveness of `WaitQueue` |
| `futex_zero` | the same with timeout 0 | **violation** of `NotLate` |
| `pipe` | two threads and a child, ring of 2, reads of 2 and writes of 3 bytes, `pipe_wait` interruptible | end counts, no lost wake-up, end of file, implements `Channel` |
| `pipe_wedge` | the same, ring of 1 | **violation** of `DataArrives` |
| `cache` | 3 sectors of 2 values, 2 entries, batches of 2 | entries coherent with the device (`Coherent`), implements `Disk` |
| `minifs` | 5 inodes, 5 blocks, 1 direct pointer, tables of 2, 1 entry per block; paths a, b, a/b; writes of 2 units at unit 3 | bitmap exact, entries exact, tree reachable, implements `FileTree` |
| `tcp` | 2 threads and the reaper, numbers modulo 16 from 14 and 13, 2 bytes each way, queue of 1, chunks of 1 | the stream is intact, its end is heard, implements `Conversation` |

The bounds are small but reach the cases: the tick counter wraps several times (deadlines land
on, before and after the wrap and on zero); the task table and the stack pool fill up and
slots are reused; the futex table is full with a further caller; a write is longer than the
ring, so it waits half-done and the indices wrap.  Three tasks are the fewest with an overtaker,
a waker and a waiter.  Three sectors for two entries make every miss an eviction and a flush of more than
one batch; on the small volume, blocks run out in the middle of a write through the double table, of a
directory entry, and with inodes left, and inodes run out with blocks left; the numbers of both TCP
directions wrap within the stream, a FIN comes with more bytes than the queue has room for, and a send needs
two segments.  The runs stop on deadlock except `Process`, where every program may have ended, `pipe` and
`pipe_wedge`, where the lock may stay held for ever, and `tcp`, where the process may be gone.

Every property of a passing run has a mutant in its module: an operator, marked as such, that
changes one definition the way a plausible bug would and breaks the property.

### Assumptions switched by constants

- `Preemptible = FALSE` (Process): between the steps of a reap, and between the reap and the
  stores that follow it, nobody else runs.  The code does not guarantee it; `process_race`
  shows what happens without it.
- `KillUnborn = FALSE` (Process): nobody kills a slot under construction.  The code does not
  check it: the creator would arm the slot afterwards.
- `InWindow` (Pipe) lets `pipe_wait` be interrupted, or its task killed, between marking the task BLOCKED
  and unlocking.  It is TRUE in both runs: safety holds all the same, `EndOfFile` excuses the lock that is
  lost (`LockLost`), and `pipe_wedge` shows the loss.
- `IntoItself = FALSE` (Minifs): no directory is renamed to a path below itself.  `minifs_rename` does not check
  it (`minifs.c:882`): with TRUE, `Reachable` ("Reachability of every used inode from the root",
  `docs/minifs.md:117`) fails, for the directory then hangs below itself and off the root.
- `Alone` (Tcp): connect and close come while no other thread is in a call on the socket, as the comment at
  `net.c:1282` asks of programs.
- `NeverTimed` in `futex` and positive timeouts in `futex_timed`; `futex_zero` has the rest.
- `DeadlinesAssumption` (Scheduler): delays are below half of the tick counter.  Milliseconds are 32 bits and a tick is
  four of them, so none is longer than 2^30 of 2^31 ticks; one interrupt accounts for a 24-bit count of the
  ACPI timer, 1172 ticks.  `ShortTimeouts` says the same of `Futex`, as a hypothesis of two theorems.
- `NoAddrAssumption` (Futex): what an unused slot holds is not an address anybody asks for.
- No `kill` in `process_threads`: a kill may act on an owner it read before (remarks below).

### What the violations show

1. *A reap that is interrupted* (`task.c:102`).  `task_reap_one` frees the stack and zeroes the slot's
   pointers afterwards.  Two threads in `waitpid` for the same child and a third that creates a task are
   enough: the late stores hit the new owner of the slot, which is armed without a kernel stack.
2. *A futex timeout of zero* (`sys_ipc.c:141`).  Its deadline is tick one.  In the second half of
   the counter (after 99 days at 250 Hz) that is in the future, and the call blocks.
3. *A pipe reader that loses the processor* (`pipefs.c:36`).  It is BLOCKED and holds `vfs_locked`; nobody
   can enter the VFS to wake it.  The comment at `task.c:566` describes the same mistake in waitpid.

Remarks that need no run:

- `docs/ipc.md:15` says the ring has 512 bytes; `PIPE_BUFSZ` is 8192.  Futex waiters are matched by virtual
  address only (`sys_ipc.c:204`), so processes that use the same address share a queue; `WaitQueue` states
  what the code does.
- `docs/tutorial.md:1150-1159` shows a write-through cache; `block_write_sector` writes back.  A sector whose
  write always fails stays the oldest entry, so every later miss that needs a victim fails, and every flush.
- A create that fails for want of blocks leaves its type and parent in the free inode; a directory that grew
  stays grown.  A write that runs out of blocks answers the bytes done, and changes neither the size nor the
  position (`minifs.c:1002`), so `Write` leaves `size` alone there.
- `recv` looks three times: for bytes (`RecvTake`), for a reset (`RecvReset`), for the end (`RecvEnd`).  Data and
  FIN dispatched by another process between the first and the last make it answer 0 with bytes in the queue
  (`net.c:1265`), which `netstress.c:24-25` counts as a failure; the next recv gets them, and `EndOfFile` of
  `Conversation` says no more than that everything has *arrived*.  A connection that was reset may answer 0 too.
- The code does not keep two threads of one process apart in `waitpid`.  With four slots TLC finds: a thread in
  `waitpid` that counts the slot of a sibling thread under construction as a child and is
  woken by nobody when `task_set_fd_owner` withdraws it (`task.c:639`; `WaiterNotForgotten` fails); and two
  threads that find the same zombie, the later of which forgets it when its slot already holds a new process, which
  runs on but is no longer anybody's child (`task.c:553`; with five slots `ZombieUntilReported` fails).  The stacks and `ZombieIsDead` do
  not suffer, as `process_threads` shows with both system calls.
- `task_kill` reads the owner before it disables interrupts (`task.c:653`).  If a thread's slot is recycled in between
  as a new process, the kill ends the *old* owner and only the first task of the new process; its threads live on
  in a slot that is free.  When one of them is reaped after the slot has been used again, it gives
  back a user stack that a thread of the next process runs on.  With `kill` and five slots a search
  directed to such states violates `UserStacksExclusive` after 121 steps; with four slots, one of which the
  idle task has, there are too few tasks for it.  So `process_threads` and `ThreadStacksSafe` leave kill out.
- A sequence number is not given back when a later frame fails to go out, so the next send leaves a gap the peer
  never fills; a process killed inside `closesocket` leaves the socket at `used = 2` for ever.

### Fairness

- `Scheduler`: only `WF(TimerIrq)`; the timer keeps interrupting.
- `Process` (`process_life`): `SF(Progress(t))` for each task inside the kernel.  `FairCpu` serves a READY
  task again and again; strong because a step is disabled while another task is in the middle of a reap.
  No task is promised the creation lock and none must make a call.
- `Futex`: `WF` of the timer and of each task that is inside a wait.
- `Pipe`: `SF(Enter \/ Unlock \/ Relock)` for each task; it is at one of the three at a time.  `vfs_lock` has no queue, so weak fairness would let a task find the
  lock taken for ever; strong fairness says that its turns do not all fall into other tasks' critical
  sections.  With round robin and short sections this is a mild assumption, and it is one.
- `Tcp`: `WF` of the steps inside calls (loops with a deadline), `SF` of *some* recv (the process goes on
  receiving), and `SF` of the arrival of `Resent`, all the peer has not seen acknowledged: it retransmits, and the
  network does not lose every copy.  Nothing is promised of our own frames.
- `BlockCache` and `Minifs` have no liveness: their calls loop over finite data.

## 4. Proofs

`SchedulerProofs` (no bound on slots, ticks, slice or delays):

- `SchedulerSafe`: `Spec => [](TypeOK /\ OneRunning)`.  The inductive invariant is their conjunction.  The
  clause that makes it inductive is that slot 0 is always RUNNING or READY: `schedule()` falls back on the
  idle task without looking.  Everything goes through two lemmas: `ScheduleSafe` (any table on which the
  scheduler may be called leads to a good state) and `NoSwitchSafe`.
- `SchedulerSteps`: initial states and steps are those of `FairCpu`, stutters included.  `NextSteps` has one
  step per action; a step that hands over the processor hands it to a task that is runnable.
- `DeadlinesKept`: `Spec => [](OnTime /\ NoEarlyWake)`.  The invariant `Timely` says that the deadline of a delayed task is
  the current tick plus some `r` in `1 .. HalfTicks`, modulo the counter, where `r` is what the history variable says is
  left, or one more when the deadline wrapped to zero and was moved to one.  `ScheduleTimely` is the case of a call of
  `schedule()` with any lag: within half of the counter the sign of the difference is the sign of `r`
  (`WrapReached`, `WrapShift` in `Remainders`).
- `RoundRobin`: `Spec => NoOvertaking`.  `Behind`: whoever was dispatched while slot `i` stayed READY lies, going
  round the table from the current slot, no longer between it and `i`; `schedule()` only goes ahead.

`FutexProofs` (any tasks, processes, addresses, slots, timeouts):

- `FutexSafe`: `Spec => [](TypeOK /\ SlotsOwned /\ NoLostWake)`.  The invariant adds `BlockedWaits` (who is
  blocked is in the loop) and `InCall` (a call under way has real arguments); without the first, a wake
  could be believed to hit a task outside the loop, and a killed task's slot could not be told from a live
  one's.  `OneOwner` (two used slots never have one task) follows from `SlotsOwned`.
- `FutexSteps`: `Spec => StepsOfWaitQueue`, every step of the table is one of the queue.  Used slots and tasks in
  the loop correspond one to one (a bijection from `SlotsOwned`), so the table is full exactly when the queue
  says so; `futex_wake` goes through the slots and stops at its count, and the lemmas on ranks of slots show that it
  takes as many tasks as it may.
- `TimeoutsAreReal`: `ShortTimeouts /\ Spec => TimeoutIsReal`, and `TimeoutsAreKept`:
  `ShortTimeouts /\ 0 \notin Timeouts /\ Spec => []NotLate`.  The invariant `Dated` is `Timely` for waits, from the
  deadline to the last look at it.  For a timeout of zero `NotLate` is false, as `futex_zero` shows.

`BlockCacheProofs` (any sectors, data, entries and batch):

- `CacheIsCoherent`: `Spec => []Coherent`.  `Coherent` is not inductive: a call picks an entry in one step and fills it
  in a later one, and only if the missed sector has not got into the cache meanwhile is it there once.  `IInv` adds
  that as `NotYet`.
- `CacheImplementsDisk`: `Spec => ImplementsDisk`, the whole refinement (`Disk` has no fairness).  What a read
  answers is `CachedData`; `CachedDataIs` says which entry or device sector that is, and each step of the cache is one of
  `Disk` or leaves what can be read alone (`Drift`).

`PipeProofs` (any tasks, finitely many processes, any ring and byte counts, `InWindow` or not):

- `PipeSafe`: `Spec => [](TypeOK /\ EndsCounted /\ NoLostWake)`.  The invariant adds `BlockedWaits` (who is blocked is in
  `pipe_wait`) and `InCall` (a write under way has bytes left): without the first nobody knows which side has to wake a
  blocked task, without the second a write could wait for room it does not need.  A pass through the loop of a read or
  write works on a table `p` that differs from `pipe` in its lists of waiters, so `PipeOK` and `Waits` are stated of any
  table; `PassKeepsInv` is the step that every pass comes down to.  The provers know little about `%`: the ring's indices
  rest on the lemmas of `Remainders`.

- `PipeImplementsChannel`: `Spec => ImplementsChannel` (`Channel` has no fairness).  `Ring(p, d)` is what is in the ring;
  `RingTaken` and `RingPut` say that a read takes a prefix of it and a write appends to it, wherever the indices wrap.
  The extra invariant `NothingDone` (no bytes are accepted from a call that has not begun) makes a refused call one of
  `Channel`.

`TcpProofs` (any threads, queue, initial numbers and lengths of the peer's stream):

- `TcpSafe`: `Spec => []StreamIntact`.  The invariant is `Types /\ Intact /\ Connecting /\ Synced`.  `Intact` says byte by
  byte what `StreamIntact` says of sequences; `Synced` ties the number `ack` to how much of the stream is here;
  `Connecting` says that whoever connects does so alone and with nothing received, or a new connection could begin in
  the middle of an old stream.  Numbers are compared by the sign of a difference that wraps: `Apart` says that this is
  the difference while both are within `Written + 1` of each other.  `Queued` is the case of a data segment: whatever it
  overlaps, what is left of it after the trimming and the limit of the queue is the next piece of the stream.  The numbers rest on
  `Remainders`, too.

`ProcessProofs` (any slots, kernel stacks, user stacks and mix of system calls, with `Calm`: both switches FALSE):

- `ProcessSafe`: `Calm /\ Spec => [](TypeOK /\ CreatorsSerialized /\ StacksExclusive /\ ZombieIsDead)`.  The invariant has
  a `Local` for each task, what its program counter says of its locals (`InPlace`), of the slot it reaps (`Reaps`: it stays
  dead until the reap is over) and of the slot it builds (`Makes`: it stays CREATING, and whoever is between the lock and
  the unlock holds the lock).  What makes it inductive is about owners.  An exit or a kill takes every slot of a
  process, so it must not reach a slot that somebody is building: `Mains` says that the owner of a task that may run is a
  process, and `Unowned` that it is never the slot under construction, nor the process this slot used to belong to
  (`task_slot_reusable` waits until none of its tasks is left).  `Orphans` says that a slot under construction still has
  its old owner only while the holder of the lock is about to allocate its stack, or when the creator died there.
  `Stacked`: a stack is both free and in a slot only in the middle of a reap.  `DeathKeepsInv` is the step that
  exit, exit of a thread and kill come down to, `MoveKeepsInv` that of all steps that only move one task.
- `WaitersSafe`: `Calm /\ NoThreads /\ Spec => []WaiterNotForgotten`, and `ZombiesSafe`:
  `Calm /\ NoThreads /\ Spec => ZombieUntilReported`.  Here processes have one task each, for with threads both are
  false (remarks in section 3).  `SInv` adds `Single` (a process is the slot of its number, a dead slot is free or a
  zombie) and `Solos`: a task that has found a zombie in `waitpid` works for itself, and what it found is still
  a zombie and still its child, until it forgets it; a slot that was picked is no process.  A child that ends finds its
  parent registered, because the parent looked for zombies in the same step in which it blocked.
- `ThreadStacksSafe`: `Calm /\ NoKills /\ Spec => []UserStacksExclusive`, with threads, joins, waits and exits.
  `ThreadsKnown` says that a slot with a `thread_info` belongs to the process named there and has one of its stacks
  to itself, `Claims` the same of the stack that a creator has marked and not yet handed over.  The danger is that a
  process slot is recycled while a thread still names it: `MainsLive` (the first task lives as long as any of its
  tasks) and `Keepers` exclude it, and `Orphans` that the creator still works on a slot that was cleaned.  `MainsLive` is
  what a kill with a stale owner breaks.

`MinifsProofs` (any number of inodes, blocks, pointers and entries to a block, any names, paths and writes):

- `BlocksAreExact`: `Spec => []BlocksExact`, and `EntriesAreExact`: `Spec => []EntriesExact`, renames of a directory into
  itself included.  Neither is inductive: that an erased inode frees its own blocks and no other's needs the places that
  refer to a block, not their number, and that a new entry has its block needs the sizes.  The invariant is `Good`:
  `Owned` (different places hold different blocks, which are marked, every marked block is held somewhere, a free inode
  holds none), `Sized` (only directories have entries, as many as their size says, each with its block) and `Described`
  (an entry describes its inode, names and inodes occur once, every inode but the root occurs, the root is a directory).
  `Inductive` is `Spec => []Good(Volume)`.  The lemmas go the way of the code: `Linked` is one allocation on a
  route, and from it `ensure_block`, `dir_add` and the loop of a write keep `Owned` and what was there (`Grown`), also when
  they run out half-way; erasing takes away the links of one inode (`Others`).  Every call comes down to
  one of four kinds of steps: `KeepStep` (names stay), `MakeStep`, `EraseStep` and `MoveStep`.
- `AllReachable`: `~IntoItself => (Spec => []Reachable)`.  The one step that could cut something off is a rename of a
  directory.  One path leads to an inode (`OnePath`), so a path that does not begin with the old one does not lead through
  the inode that moves, nor does anything on it lie below that inode: `ParentApart` gives a set with the inode in it,
  closed under entries, without the new parent (`Apart`), and everything in it stays reachable through the new name.
  The hypothesis is the one of section 3 that `minifs_rename` should check and does not; without it
  the statement is false.
- `ImplementsTree`: `~IntoItself => (Spec => ImplementsFileTree)`, the whole refinement (`FileTree` has no fairness).
  The four kinds of steps are the steps of the tree or leave it alone; that `Abstract!Move` never moves a node below
  itself is `Apart` once more.

The induction here (over the blocks of a write, the components of a path) is over sets: `Induct` says that a set with 0
and with the successor of each of its members holds all of `Nat`, and rests on the library's theorem that `<` is
well-founded.  Before it was proved, `Good(Volume)` was checked with TLC on the instance of `MCMinifs`, and with renames of
directories into themselves.

They rest only on the named ASSUMEs of the modules, which TLC evaluates in every run.

Only model-checked: all liveness and the fairness part of the refinements (`ImplementsFairCpu`,
`ImplementsWaitQueue`); the refinement of `Tcp` and `EndIsHeard` (what may still be sent
is bounded by a sum over the threads, defined by recursion on sets; nothing is proved about it yet).

## 5. What is not modelled, and the plan

Not modelled and not planned: hardware access, drivers, page-table layout, drawing, parsing, text
generation, user programs, and the tables of glyphs and pinyin that make up most of the source by lines.  A task
that is killed while it holds `vfs_locked`, `cache_lock`, `minifs_lock`, the creation lock or the allocator's lock
leaves it locked for ever; `Process` lets it happen for the creation lock (`LockReleased` excuses it), the other
modules do not.

Left out of modelled parts: in `Minifs`, disk commands that fail and power lost inside a call (sectors of one call are
written one after the other, so the bitmap and the inodes on the disk may disagree; `BlockCache` stops at sectors),
the migration of the first layout, and `minifs_vfs.c` (an open is several calls, and an inode that is unlinked while open
may be used again).  In `Tcp`, UDP, DNS, ARP, windows, several sockets, and other threads' connects and closes during
a call.

In this order:

1. Proofs: the steps of `Conversation`, with the sum over the threads as a function and its induction over sets of threads.
2. `Minifs` over `Disk`: the order of sector writes in a call, a crash between them, mount and repair.
3. `FdTable`: `dup`, inheritance and close with reference counts, over `Pipe`'s end counts, and open minifs files.
4. `Pmm` (rover and reserve against the set of free pages) and `Shm` (owners, pins, generations, exit).
5. `GuiEvents` (the same blocking pattern as futexes, deadline zero); UDP queues and DNS.
6. Threads and `waitpid` in one liveness run: the child that exists only while a thread is created.
