# Verification of the Kyouko3 driver, smunch and the greedy I/O scheduler

The repository holds the work of an operating systems course: a Linux driver for
the Kyouko3 PCIe graphics card with a user program (`Kyouko3_GrpahicsDriver`), the
labs the driver grew from (`mylab`), an I/O scheduler that serves the request
nearest to the disk head (`SSTF`), and the system calls `smunch` and `deepsleep`
(`Smunch-SystemCalls`). This directory holds TLA+ modules that model them, the TLC
configurations that check the models on small instances, and TLAPS proofs, for every
value of the constants, of all the invariants those configurations check and of the
refinements. Paths below are relative to `src/`, and `mymod.c` without
a directory is the final driver's.

## 1. Inventory

| Part | State | Operations | Interacts with |
|---|---|---|---|
| **DMA ring** (`mymod.c` 161-282) | `fill`, `drain`, `queued_count`, `dma_mapped`, `stored_count` and memory of each buffer, two wait queues | `bind_dma`, `start_dma`, `on_time_unbind_dma`, `late_unbind_dma`, `dma_intr` | process by ioctl; card by interrupt and by FIFO commands |
| **Command FIFO** (`mymod.c` 152-157, 286-345) | `fifo.head`, `fifo.tail_cache`, the ring in memory shared with the card, `graphics_on` | `FIFO_WRITE`, `fifo_queue`, `fifo_flush`, `graphics_on`, `graphics_off` | process by ioctl; `dma_intr` writes to it; card reads it through `FifoHead`/`FifoTail` |
| **Life cycle** (`mymod.c` 185-245, 349-381, 416-515) | register mappings, ring, MSI, handler, buffers, user mappings | init/exit, probe/remove, open/release, mmap | everything above |
| **User program** (`main.c`; `mylab/*/user.c`) | the batch it queues, the buffer it was handed | `fifo_commands`, `dma_commands`, `DrawTriangle` | ioctls |
| **Earlier drivers** (`mylab/lab1` to `5lab`) | from lab2 on the register mappings; from lab3 on `head`, `tail`, the ring, `bGraphics_on` | insmod/rmmod, open/release, mmap; the FIFO as above, with other bounds and another `release` | as above |
| **Greedy scheduler** (`SSTF/greedy-iosched.c`) | `lower_queue`, `upper_queue`, `disk_head` | add, dispatch, former, latter, merged, init, exit | called by the block layer under the queue lock |
| **smunch, deepsleep** (`stoogecalls.c`, `smunch.c`) | the target's pending signals, flag, run state, exit state | `smunch`, `deepsleep`, `sleep_on` | the target on another processor, its tracer |
| **Signal counters** (`stoogecalls.c` 30-58) | an array in `sighand` | clear, read | incremented outside the repository |

What is hard in them:

* `dma_intr` arrives at any point at which the process has interrupts enabled:
  between the critical section of `start_dma` and its submission, while it
  evaluates a wait condition, and inside `FIFO_WRITE` and `fifo_flush`, which the
  handler calls or undoes;
* `start_dma` guards its critical section by a spin lock that is a local variable,
  which keeps interrupts out on one processor and nobody out on two;
* both rings are indices that wrap, and one of them cannot tell full from empty by
  its indices; counts and cached indices of an earlier lap are still there;
* both waits of the DMA ring may be ended by a signal, and the process may die in
  any of its calls and leave through `release`;
* buffers are freed before interrupts are disabled;
* the scheduler subtracts unsigned positions, while the block layer changes the
  requests it holds, which may overlap;
* `smunch` works on a task that may die, be traced or go to sleep between any two
  of its steps.

`PROJECT.json` lists these hazards at their lines with the properties that cover
them, and says of those without a property why.

## 2. Modules

```
DmaQueue  <--implements--  Kyouko3Dma
CommandQueue <-implements- Kyouko3Fifo
     ^   \<--implements--  LabDriver
     \-------EXTENDS------ TriangleProgram
Kyouko3Irq          both rings together, under main.c's DMA program
Kyouko3Device       what is acquired and given back
ShortestSeekFirst <--implements-- GreedyScheduler
Smunch
```

`MCKyouko3Dma`, `MCKyouko3Fifo` and so on give each its constants for TLC;
`Kyouko3DmaProofs`, `Kyouko3FifoProofs` and so on extend each with its theorems.

**`DmaQueue`** and **`CommandQueue`** are what a client of the driver may rely on.
The first is a bounded queue of requests, each drawn once, in order, with its own
contents and byte count, until its promise is `broken`. The second is a command
queue whose flush is a barrier; what no flush follows is dropped when the device is
closed. **`ShortestSeekFirst`** is a *set* of requests from which one nearest to the
head is taken while they are `arranged`; it says which steps may disarrange them.

**`Kyouko3Dma`**: `pc` is the point the process has reached in the driver. The
critical section of `start_dma` is one step (`start_dma_direct`, `start_dma_queue`),
because `spin_lock_irqsave` keeps the interrupt out on the one processor modelled;
what comes after the unlock is one step each (`start_dma_direct_fill`,
`start_dma_direct_submit`). `wait_event_interruptible` is `wait_check` (the condition
is read; true goes on, as does a pending signal, otherwise the process sleeps) and the
wake-up in `dma_intr` or by a signal. Signals arrive at any time (`signal_arrives`): a
handled one is gone once the process is back in user mode (`handle_signal`), a fatal
one makes it exit, and is still pending in `release`, which takes the path of
`UNBIND_DMA` with `closing` set and does not sleep then. `early` records each wait
that a signal ended. `WaitsKept` says that none was but `START_DMA`'s, by a signal
that killed the process, which makes no further use of the buffer it would have been
given; the properties of the passing run hold as long. The int that `START_DMA` takes
is converted to unsigned modulo `Word`, as the comparison in `mymod.c:257` does. The
card draws the `BufferA` commands it holds in order and sets the status bit.

**`Kyouko3Fifo`**: one step per `FIFO_WRITE`, register write and poll of
`FifoTail`; the card executes an entry between any two. Commands are numbered in
the order they are queued; 0 stands for the uninitialised entry that a failed
`copy_from_user` queues. The client queues at most `MaxBatch` commands between two
flushes.

**`Kyouko3Irq`** is main.c's `dma_commands` over both rings at once, with
`FIFO_WRITE` taken apart into load and store of `fifo.head`, entry, increment and
wrap, and `start_dma`'s critical section into the count and the test of the
indices. The constant `Windows` names the points at which the interrupt may come:
`OneProcessor` are those at which the process has interrupts enabled, and `"lock"`,
inside the critical section, is added when the handler runs on another processor.
An interrupt there is harmless when the handler has nothing to write; `mixed` records
the first that had. Until then the two rings work together, wherever the interrupt
comes; after it they do not (section 5). A buffer's contents are the request
it was filled for and the count in its header, which is a ten-bit field
(`CountRange`).

**`Kyouko3Device`** takes `bind_dma` and `late_unbind_dma` apart into the resources
they acquire and give back. `held` is the set of what the driver holds, `live` the
allocations of each buffer. The two failures the code handles (no MSI, no interrupt
line) are there, and one it does not notice (`vm_mmap`); module load, which may fail
and then leaves its character device behind (`stale`), open, mmap, munmap, close and
exit surround them. The mappings that `bind_dma` made of the buffers are `bound`; those
the process makes itself, of the registers, the frame buffer or a buffer's page, are
`vmas`.

**`TriangleProgram`** is main.c's `fifo_commands` and the `DrawTriangle` of lab4 and
5lab over `CommandQueue`, run one after another on a card that keeps what a killed
run left in its vertex registers. main.c's driver queues a clear when graphics goes
off; the labs' queue nothing, and lab4's does not flush either.

**`LabDriver`** is the drivers of the five labs, from insmod to rmmod; the rigid
variable `lab` chooses one. An insmod whose `pci_register_driver` fails leaves the
character device registered in lab4 and 5lab (`stale`) and goes unnoticed in lab2 and
lab3. lab1 touches no card, lab2 maps the registers, lab3 to
5lab have the FIFO. lab3 and 5lab have the same code here, so the run takes 5lab for
both. A mapping keeps the file open, so that release comes when the descriptor and
every mapping are gone, in whatever order.

**`GreedyScheduler`**: the block layer calls under the queue lock, so that each
call is a step. Requests cover `pos .. end-1` and may overlap: two processes may read
the same sectors with direct I/O. The block layer merges bios into waiting requests at
their back or front, and joins a request with one that begins where it ends, which
ends in `greedy_merged_requests`. Which requests it joins is left open (the neighbour
that `greedy_former_request` or `greedy_latter_request` names, or one it found by its
hash of end sectors): the module lets any two that touch be joined, in whichever lists.

**`Smunch`**: each step of `smunch` that another processor can see is an action;
the target runs, sleeps either way, handles or dies of signals, and is attached to.
The rigid variable `version` chooses the file `smunch` is from: `stoogecalls.c` ignores
a target whose `ptrace` is 1, `smunch.c` one whose `trace` is set (`Ignored`).
`overrun` is the lock of the wait queue after `sleep_on` has released it without
holding it: a ticket lock is then never free for the next to come.

## 3. Runs

`dma_ring` takes two to three minutes, `greedy` one, the others less; `violation` runs
end with a counterexample.

| Run | Bounds | What it shows |
|---|---|---|
| `dma_ring` | 3 buffers of 2 bytes, 5 requests, ints -4..3, handled and fatal signals at any time | `UserOwnsFree`, `CardMatchesQueue`, `NoUseAfterFree`, `CountsFit`, `CallReturns`, `ImplementsQueue`, as long as `WaitsKept` |
| `dma_stopped` | 2 buffers, 4 requests, the same signals | `WaitsHold` fails (section 5) |
| `fifo_ring` | 5 entries, batches of 2, `graphics_on` of 2, 8 commands | `CacheBehind`, `FlushDrains`, `FreedIdle`, `ImplementsQueue` |
| `irq_between` | 3 buffers, 4 requests, ring of 7, the interrupt anywhere | `InOrderUnlessMixed`, `FlushBarrier`, `Completes`, until commands are mixed |
| `irq_in_fifo` | the same, the interrupt wherever one processor has it enabled | `DrawnInOrder` fails |
| `irq_two_processors` | the same, the interrupt inside `start_dma`'s critical section | `DrawnInOrder` fails |
| `dma_header` | 1000 triangles counted modulo 1024, as in main.c | `DrawsAllTriangles` fails |
| `device` | 2 buffers | `Balanced`, `AllOrNothing`, `HandlerServed`, `MappingsAlive` |
| `triangle` | 2 runs of each of three programs, killed anywhere | `TriangleShown`, `DrawsWhole` |
| `lab_drivers` | 5 entries, 4 commands per open, 6 in all; lab1, lab2, lab4, 5lab | `HeldWhileUsed`, `NothingDropped`, `ImplementsQueue` |
| `greedy` | 5 positions, 3 requests, all merges and joins | `StaysArranged`, `DrainEnds`, `ImplementsSSTF` |
| `smunch_sleeper` | signals 1, 2, 9, 15, two of them handled; both files | `PendingFlagged`, `KillsSleeper` |

Every run checks its module's type invariant too. Each passing property was
checked against a mutated definition (listed in `PROJECT.json`) that it must catch.

*Why the bounds are enough.* Three buffers are the least with a buffer that is neither
being drawn nor filled: `dma_intr` then resubmits while the process is not waiting,
and five requests go round the ring, fill it, and go on. `MaxRequests` caps the
requests: `user_fill` stops there, and `CallReturns` and `ImplementsQueue` are about
what has been accepted. `AfterBroken = FALSE` ends a behaviour of `dma_ring` with the
first wait that a signal ends and whose caller goes on: nothing is said of what
follows; `dma_stopped` follows it. Ints are 3 bits wide with buffers of 2 bytes, so
that every kind of count occurs: negative, zero, valid and too large. Five FIFO
entries leave two spare entries behind a batch, and eight commands wrap head and
FifoTail. Seven entries in `Kyouko3Irq` are the least its assumption allows (a flush
reads `FifoTail` only now and then: a RasterFlush and the commands the handler submits
meanwhile must stay below one lap). `MaxDraws` bounds the buffers drawn, some of them
more than once after commands have been mixed; it is the number of requests, which is
all that is drawn before. In `greedy`, three requests (`Ids`) are the least with one
in each list and a third to overlap, pass, touch or tie with either, and five
positions hold two requests of a sector with a gap and one on each side of the head;
`Word` exceeds the positions as 2^64 does. In `lab_drivers`, six commands are two
opens with graphics on and a command each, so that what a ring held before it was
freed would show in the next. `dma_stopped`, `fifo_ring`, `device`, `lab_drivers`,
`greedy` and `smunch_sleeper` have no deadlock. `irq_*`, `dma_header` and `triangle`
do stop, when their program has ended, and `dma_ring` once a wait is broken off.

*Fairness.* The process is scheduled again while it is inside the driver
(`WF(Kernel)`; the flush loop calls `schedule`), an enabled interrupt is delivered
(`WF(dma_intr)`), the card executes what it was given (`WF(card_...)`). Nothing
makes a process call again, queue, or close; in `Kyouko3Irq` the process is main.c
itself, a program without input. `GreedyScheduler` has the block layer drain an
elevator it is about to replace. In `Smunch` the call and the kernel's return path
go on once begun; `KillsSleeper` assumes that calls come to an end, since lower
signals sent again and again are delivered before SIGKILL.

*The card* is external, modelled from how the driver uses it: it executes FIFO
entries in ring order up to `FifoHead`, is reset to entry 0 when `FifoStart` is
written, raises its status bit when a `BufferA` command is finished, and executes
plain commands while it draws a buffer.

## 4. Proofs

Each `...Proofs` module proves for every value of the constants what the run of its
component checks for one. The theorems use the assumption their component states
about its constants (`DmaAssumption`, `IrqAssumption`, ...) and nothing else.

| Module | Theorem: property |
|---|---|
| `Kyouko3DmaProofs` | `TypeCorrect`: `TypeOK` (`queued_count` stays in 0..N), `OwnsFree`: `UserOwnsFree`, `OneCommand`: `CardMatchesQueue`, `FreedIdle`: `NoUseAfterFree`, `CountsAlwaysFit`: `CountsFit`, `QueueImplemented`: `Queue!Spec`, `NoWakeUpLost`: `WakeUpComes` while `WaitsKept` |
| `Kyouko3FifoProofs` | `TypeCorrect`: `TypeOK`, `CacheNeverAhead`: `CacheBehind`, `FlushIsBarrier`: `FlushDrains`, `FreedWhenIdle`: `FreedIdle`, `QueueImplemented`: `Queue!Spec` |
| `Kyouko3IrqProofs` | `TypeCorrect`: `TypeOK`, `AllDrawnInOrder`: `InOrderUnlessMixed`, `FlushIsBarrier`: `FlushBarrier`, `NothingStuck`: `WaitsEnd` while not `mixed` |
| `Kyouko3DeviceProofs` | `TypeCorrect`: `TypeOK`, `EverythingReturned`: `Balanced`, `BindAllOrNothing`: `AllOrNothing`, `InterruptsServed`: `HandlerServed`, `NoStaleMapping`: `MappingsAlive` |
| `TriangleProgramProofs` | `TypeCorrect`: `ProgramTypeOK`, `ShowsItsTriangle`: `TriangleShown`, `WholeOrNothing`: `DrawsWhole` |
| `LabDriverProofs` | `TypeCorrect`: `TypeOK`, `NothingFreedInUse`: `HeldWhileUsed`, `NothingLost`: `NothingDropped`, `QueueImplemented`: `Queue!Spec` |
| `GreedySchedulerProofs` | `TypeCorrect`: `TypeOK`, `HeadBetween`: `StaysArranged`, `NearestFirst`: `ImplementsSSTF` |
| `SmunchProofs` | `TypeCorrect`: `TypeOK`, `AlwaysFlagged`: `PendingFlagged` |

*No theorem assumes away what the environment may do.* Signals, interrupts, overlapping
requests and merges come at any time; where the code goes wrong, the property says
until when it holds, in terms of what has happened:

* `WaitsKept`, in the ring's properties: no signal has ended `late_unbind_dma`'s wait,
  or `START_DMA`'s of a process that goes on. After it the queue's counters themselves
  are wrong (`dma_stopped`). The exit of a process that was killed with buffers queued
  is such an ending.
* `mixed`, in those of both rings: the handler has had commands to write inside a FIFO
  access of the process, or has submitted the buffer that `start_dma` was counting.
  `irq_in_fifo` and `irq_two_processors` show that the requests are then no longer
  drawn in order. An interrupt at the same points that only retires the last buffer
  does no harm, which is the part that the theorems prove.
* `Arranged`, in the scheduler's: requests overlap, or a front merge has passed the head
  or another request. TLC finds `StaysArranged` false when either exception is left out.

The bounds on a client (`MaxBatch`, `MaxPerOpen`) remain assumptions: neither FIFO looks
whether it is full, and a client that queues a lap without a flush loses commands.

### The inductive invariants

Each module's `IInv` was checked by TLC, and is proved by one lemma for the initial
states and one for the steps, with a case per action.

*The DMA ring.* `TypeOK` is not inductive: `dma_intr` decrements `queued_count`, and
only `CardMatchesQueue` says that an interrupt implies a queued buffer.
`CardMatchesQueue` in turn needs `RingInv` (`fill` is `drain` plus `queued_count`, but
for the moment between the unlock and the increment in the direct path), which makes
`fill = drain` mean *empty* where `start_dma` tests it and *full* where it suspends;
`StoredInv` (every queued buffer behind the first has a valid stored count to be
submitted with); `LifeInv` (which points of the driver are reached with the ring
bound, allocated, interrupting and empty); and `ProcessInv` (a sleeper has a reason to
sleep, and a process that may fill a buffer has the one at `fill` and the ring is not
full). All of them hold as long as `WaitsKept`, which once false stays so; the last is
what a signal breaks that ends `START_DMA`'s wait, but for a process that it kills.
`SlotIs` and `SuccIs` do the modular arithmetic.

*The DMA ring implements `DmaQueue`.* The requests pending are read off the ring: the
entry `k` places behind `drain`, from the first one not yet drawn. `DataInv` adds to
`IInv` that whatever is queued was filled. A lemma for each thing that can happen to
that sequence does the work: an action aside leaves it (`SamePending`), a submission
appends to it (`AppendsPending`), drawing takes its head (`DrawsPending`), and
`dma_intr`, which renumbers the ring, leaves it as it was (`RenumbersPending`).

*The FIFO.* `FlushInv` keeps the card between the driver's cached tail and `head`,
measured by the distance round the ring (`Gap`). It holds because a batch is less than
a lap (`BatchInv`) and the card is idle and `tail_cache` exact between flushes
(`IdleInv`, `ClosedInv`). That is why the equality that ends `fifo_flush`'s loop cannot
be satisfied by a tail of an earlier lap. For the refinement, what is pending is the
slice of the ring from `FifoTail` to `head`; lemmas about slices say what an entry
written behind it and one executed at its front do to it.

*Both rings together.* `StreamInv` says what the card has still to execute, whether it
is in the ring or still to be written: at most one flush and the two commands of at
most one buffer, in one of seven shapes. One buffer at a time has the "token": it is in
the stream, being drawn, or drawn and waiting for the handler, and it is the one at
`drain`. `CountInv` ties main.c's `request` to what was handled and what is queued,
`BufferInv` the contents and stored counts of the ring to successive requests, and
`WriteInv` says how far `FIFO_WRITE` has come. `LagInv` bounds what the ring may have
moved since `tail_cache` was read, which grows with every buffer that the handler
submits in the meantime: two commands for each buffer that waits have to be counted
in advance. It is why the module assumes `FIFO_ENTRIES > 2 * DMA_NUM_BUFFS`.

*The life cycle.* `HeldInv` gives for each point of the driver exactly what it holds,
and `BuffersInv` how many of the buffers are allocated and which may be mapped;
`FlagInv` is the flag that `bind_dma` and the unbinds test, `FileInv` when `release`
runs.

*The triangle programs.* The invariant follows a command from the program to the card:
`Behind(d, m)` says that what is pending is the rest of the first `m` commands of the
triangle after the first `d`, and then only commands that draw nothing; `Drawn(d)` what
the card's registers hold after `d` commands. A killed run leaves some `d < m`, and the
clear that every run begins with takes away what it showed (`PlainInv`) before the next
triangle.

*The labs.* `RingInv` has the cached tail, `FIFOTAIL`, `FIFOHEAD` and `head` in this
order, as the client stays below a lap; `CountInv` that what was queued is executed or
still in the ring, except in lab4; `DeviceInv` what is held while anything refers to
the device. The refinement needs nothing more.

*The scheduler.* The invariant is small, the types and that no two requests have the
same `id`; the work is in lemmas about lists: what `Insert`, `Unlink`, a grown request
and each end's removal do to the order and to the set of requests held. While
`Arranged` no distance wraps, the last of the one list and the first of the other are
the nearest of each, and every step is one of `ShortestSeekFirst`. Whether it leaves
the lists arranged is a case for each action: a joined request keeps its place, since
the one that goes began where it ended; one that grows downwards keeps it unless it
passes the head or the start of another one; moving the head keeps the split unless a
request starts within the one dispatched.

*smunch.* The two invariants are inductive together. The proof that the target dies
of a signal it does not handle needs that the lowest pending signal is one
(`LeastNat`).

### Only model-checked

Everything about liveness: `CallReturns`, `Completes`, `DrainEnds`, `KillsSleeper`,
and the fairness of the abstract queues in the three `ImplementsQueue` properties,
whose theorems are of `Queue!Spec`. The prover does no `ENABLED` and no fairness over
parameters. What the first two rest on is safety, and proved:

* `NoWakeUpLost`: while `WaitsKept`, a process that sleeps in `start_dma` or
  `late_unbind_dma` has not missed what it waits for, and the card is drawing a buffer
  or has an interrupt outstanding. It follows from `ProcessInv` and
  `CardMatchesQueue`; that `dma_intr` wakes only on the step from full and on the step
  to empty is enough.
* `NothingStuck`: while not `mixed`, `fifo_flush` polls for nothing the card was not
  told of (outside the calls that write to the ring `FifoHead = head`, also after the
  handler's own submission: `AnnouncedInv`), and who waits for a buffer waits for one
  that is in the stream and announced, being drawn, or drawn with the interrupt
  outstanding, the three places of the token.

`WaitsHold` is false, as the run shows, and `DrawnInOrder` and `DrawsAllTriangles` are.

## 5. Findings

1. **Both waits are left early** (`dma_stopped`; `mymod.c:223`, `:279`). The results of
   `wait_event_interruptible` are ignored. A process that is stopped and continued,
   or handles a signal, gets a buffer back that is still queued, or frees buffers
   that the card still has. So does a process that is *killed*: its signal is still
   pending when the kernel closes its files, the wait at line 223 returns at once, and
   line 225 frees buffers that are queued. All that is harmless of a fatal signal is
   what it does to `START_DMA`'s own wait: the buffer returned is never used. The card
   is safe again only if the ring runs empty before the exit gets to line 223.
2. **The handler's FIFO writes mix with the process's** (`irq_in_fifo`;
   `mymod.c:153`). With the interrupt between the loads and stores of `fifo.head`,
   an entry gets the command of the one and the value of the other, and a request
   is drawn from another buffer or with another count.
3. **The spin lock locks nothing** (`irq_two_processors`; `mymod.c:249`). It is a local
   variable. When `dma_intr` runs on another processor between `++queued_count` and
   the test `fill == drain`, it takes the buffer being queued for one that is, and
   submits it with a count that was never stored; `start_dma` then finds the ring
   empty and submits the buffer again. The kernel the labs were run on
   (`3.10.0-327.el7.x86_64`, `mylab/lab2/log.txt`) is built for several processors.
4. **A header of ten bits** (`dma_header`; `main.c:128`). `dma_header.count` is
   advanced by three for each of 1,000 triangles and says 952.

Met on the way, without a run of their own:

* A flush may take back the handler's announcement (`mymod.c:295`): `fifo_flush` reads
  `fifo.head`, waits in `udelay`, and writes `FifoHead`; an interrupt in between has
  announced a later head. The card stops short, and the flush polls for ever:
  `Completes` fails in `irq_in_fifo`'s instance under `FairSpec`.
* The scheduler's split breaks (`greedy-iosched.c:34`) when a bio merged in front of the
  first request of the upper list takes its start below the head, or when the request
  dispatched overlaps one that starts within it, which line 39 then leaves behind the
  head. Its unsigned distance wraps and it is taken for the farthest, until the lower
  list is empty. A dispatch then is not of a nearest request; nothing is lost, and the
  lists are right again when they have run empty. `ImplementsSSTF` says so.
* A page of a buffer that the process maps itself (`mymod.c:443`, `default`) stays
  mapped after `UNBIND_DMA`, whose `vm_munmap` at line 241 takes only the mappings
  that `BIND_DMA` made: it then shows memory the driver has freed. The mapping also
  keeps the file open. `MappingsAlive` is about `BIND_DMA`'s own.
* An insmod that fails in `pci_register_driver` (`mymod.c:503`, `lab4/mymod.c:322`,
  `5lab/mymod.c:456`) leaves the character device registered, with a module that is gone
  (`stale` in `Kyouko3Device` and `LabDriver`). lab2 and lab3 ignore the error.
* 5lab's `BIND_DMA` (`5lab/mymod.c:320`) allocates eight buffers, installs a handler and
  enables the interrupt; nothing ever gives them back.
* `smunch.c:16` and `stoogecalls.c:86` ignore different targets: the one those with
  `trace` set, the other those whose `ptrace` is 1.
* In the labs `FIFO_WRITE` wraps one entry late; at `FIFO_ENTRIES` commands since open
  `head` is where `FIFOTAIL` never comes and the next flush does not end. Their
  programs queue 37. `LabDriver` keeps its client below (`MaxPerOpen`).
* `stoogecalls.c:86` ignores a traced task only if `ptrace` is exactly 1, although
  `:87` says 'Multithreaded or traced process, So ignored': a tracer that sets
  options makes it another value.
* `stoogecalls.c:95` reduces `new_set` to SIGKILL, but `:108` makes the whole pattern
  pending.
* A task that enters `deepsleep` with SIGKILL pending sleeps until the next `smunch`.
* `sleep_on` takes itself off the queue without its lock and then releases it
  (`stoogecalls.c:19`, `:20`): once one sleeper has been woken, the next `deepsleep`
  spins for ever (`"spinning"` in `Smunch`).
* Both final and lab drivers add their character device before the PCI driver
  (`mymod.c:502`): an open in between maps the address 0.

## 6. Not modelled, and why

* Several processes, or threads, on the device: `open` overwrites the state of an
  earlier open, and nothing says what should happen.
* `START_DMA` without `BIND_DMA`, and failing `ioremap` and `pci_alloc_consistent`,
  which the code does not check; an open before insmod has returned, or of the device
  that a failed one has left; reads and writes through the process's own mappings;
  mmap by a process that is not root, which gets a mapping with nothing behind it.
* In the labs, a client that queues a lap of commands; 5lab's `BIND_DMA` and
  `UBIND_DMA`, which no program calls: the former allocates buffers and installs a
  handler without keeping what it mapped, and `release` (`5lab/mymod.c:177`) gives none
  of it back.
* Two sleepers on the wait queue of `sleep_on`; a second caller or a parent that reaps
  what `smunch` reaps, after which `smunch` would use freed memory (`stoogecalls.c:79`);
  multithreaded targets, which `smunch` refuses. The module says nothing of the safety
  of `release_task`: with one caller and no other reaper it holds by construction.
* What the DMA ring does after a wait was broken off, beyond `dma_stopped`'s first
  wrong step.
* The vertices in the DMA buffers, of which only the header's count is kept; the
  frame buffer; mode registers.
* The signal counters (their increments are outside the repository); `goober`.

## 7. Plan

Done, in this order: the DMA ring with its queue and proofs; the FIFO with its queue
and proofs; the two together; the scheduler; smunch; the life cycle; the triangle
programs; the labs' drivers; two processors and the buffer header in `Kyouko3Irq`; the
proofs of all the invariants that the runs check; the proofs that the DMA ring, the
FIFO, the labs' FIFO and the scheduler implement their abstract specifications; the
safety that `CallReturns` and `Completes` rest on; signals that are pending in any wait,
interrupts in any window, overlapping requests and front merges, with properties and
theorems that say until when the code is right.

Next: a refinement that states what `Kyouko3Irq` promises main.c as a whole; the safety
that `DrainEnds` and `KillsSleeper` rest on.
