# A formal model of the uC/OS-II kernel of the Cyclone V printer board

The repository is the firmware platform of a printer controller on an Altera
Cyclone V (one Cortex-A9 core): the uC/OS-II kernel with its port, a start-up
layer, drivers, and a board library that feeds a printing FPGA from USB and
talks to the motion and head controllers over UARTs. The application that
links against it is not in the repository. This directory holds TLA+ modules
of the parts whose correctness depends on the order in which tasks, interrupts
and devices act, or on long sequences of calls, the TLC configurations that
check them, and proofs.

## Inventory

| component | state it keeps | operations | interacts with |
|---|---|---|---|
| priority bitmaps (`ucos_ii.h`, `os_core.c`) | group byte and eight rows, for the ready list and for every event | set, clear, look up the highest | everything below |
| scheduler, interrupts, tick (`os_core.c`, port) | `OSTCBCur`, `OSPrioCur`, nesting levels, TCBs | `OS_Sched`, `OSIntExit`, `OSSchedLock/Unlock`, `OSTimeTick`, `OS_EventTaskRdy/Wait/Remove` | called by every service; interrupts fall between any two critical sections |
| semaphores (`os_sem.c`) | type, count, wait list | create, delete, accept, pend, abort, post, set | tick (time-outs), device interrupts (posts), suspension |
| mutexes (`os_mutex.c`) | ceiling, owner's priority, owner, wait list; entries of the priority table | create, pend, post | change the priority of another task wherever its bit is |
| time, tasks (`os_time.c`, `os_task.c`) | `OSTCBDly`, `OS_STAT_SUSPEND` | delay, resume a delay, suspend, resume, create, delete | overlap with every pend |
| event flags (`os_flag.c`) | flag word, list of waiting nodes | create, delete, accept, pend, post | wake several tasks at once; flags consumed after the wake-up |
| multiple pends (`OSEventPendMulti`) | `OSTCBEventMultiPtr` | pend on several events | one post takes the task off every list |
| timers (`os_tmr.c`) | wheel, `OSTmrTime`, timer states | create, start, stop, delete, timer task | scheduler lock, two semaphores, call-backs |
| byte queue (`lib/fifo.c`) | `in`, `out`, `unused` | in, out, reset | used by interrupt handlers and tasks |
| UART channels (`board_v1/uart.c`, `uart_core.c`) | toggles, `txACK`, packet buffer, queues | receive call-back, send, get | a peer over a line that may lose or corrupt bytes |
| receive buffer, jobs (`board_v1/HugeBuf.c`, `ezusb.c`) | ring, header position, transfer size, completion | start and complete a transfer, read header, flush, cancel | USB DMA interrupt against two tasks |
| memory allocator (`lib/malloc.c`) | chunks, bins and their map, last remainder, top, break | malloc, free, realloc, calloc, memalign | every task; no lock |
| I2C bus (`common/i2c.c`, `dwi2c.c`) | lock, message indices, FIFOs, interrupt mask | transfer with retries, interrupt handler | the controller and the slave, the completion |
| lwIP port (`sys_arch.c`) | mailbox table | mailboxes, semaphores, threads | not linked into the present build |

Vendor libraries (uC/CPU, uC/CSP, uC/LIB), the remaining register-level
drivers, boot code, the rest of the C library and the lwIP stack are not
modelled; see Not modelled. `os_q.c`, `os_mbox.c`, `os_mem.c`, `OSTaskChangePrio()` and
`OSMutexAccept/Del/Query()` are compiled out by `os_cfg.h`.

What makes the components correct: the ready list and the wait lists hold
exactly the tasks they should through every overlap of pend, post, time-out,
delay, suspension and deletion; no token is lost or duplicated; the highest
ready task runs when no service or interrupt is under way; a mutex has one
owner, and its owner outranks its waiters; a timed wait ends; a timer fires at
its time and no other; messages arrive whole, once and in order, and bands in
the order they were sent; no transfer writes where somebody reads; blocks of
memory do not overlap, and free memory is found.

## Modules

| module | models |
|---|---|
| `OSCore` | the two-level bitmap: a byte is the set of the positions of its bits, `OSUnMapTbl` is the least of them; kernel variables under the names of the source, the scheduler, interrupt entry and exit, the tick, and the functions on wait lists; the list invariants |
| `OSSem`, `OSTime`, `OSTask`, `OSMutex`, `OSFlag` | the services, one action each |
| `SemSystem` | tasks that call semaphore, delay, suspension and lock services, the tick, and a device that posts from its interrupt; fairness; the refinement of `SemAbs` |
| `MutexSystem` | the same with mutexes; the refinement of `MutexAbs` |
| `FlagSystem` | the same with event flag groups; the refinement of `FlagAbs` |
| `OSTaskLife` | `OSEventPendMulti`; `OSTaskCreate`, `OS_TCBInit` and `OSTaskDel`, one action per critical section |
| `TaskSystem` | tasks created, deleted and suspended while they pend on one or two semaphores; the refinement of `SemAnyAbs` |
| `OSTmr`, `TmrSystem` | the timer wheel, its services and its task; the tick, callers, and call-backs that call services in the middle of a walk; the refinement of `TmrAbs` |
| `SAChannel`, `SASystem` | one channel of `uart.c` with its queues; the lines, and the firmware at the far end; the refinement of `SALinkAbs` |
| `HugeBuf`, `HugeSystem` | the ring of `HugeBuf.c` with `fifo.c` and the bulk transfer of `ezusb.c`; the two tasks, the controller and the host; the refinement of `HugeBufAbs` |
| `Malloc`, `MallocSystem` | `malloc.c` as operators from heaps to heaps; a caller; the refinement of `MallocAbs` |
| `I2CSystem` | `i2c_transfer`, `dwi2c_xfer` and the interrupt handler, with the controller's FIFOs; two tasks; the refinement of `I2CAbs` |
| `SemAbs`, `MutexAbs`, `FlagAbs`, `SemAnyAbs` | what callers of the kernel are promised: tokens, owners, flags and outcomes of calls, with no lists, bitmaps or scheduler |
| `TmrAbs` | a timer counts down and rings once, or again and again; no wheel |
| `SALinkAbs`, `HugeBufAbs` | two message sequences, each read in order; bands read in order |
| `MallocAbs`, `I2CAbs` | disjoint blocks within bounds; one transfer at a time on the bus, reported as it went |
| `OSCore_proofs` | lemmas on bitmaps, and on the services that change the lists of the kernel |
| `SemSystem_proofs`, `TaskSystem_proofs`, `FlagSystem_proofs`, `MutexSystem_proofs`, `I2CSystem_proofs` | theorems on one system each |
| `Memory_proofs` | theorems on the receive buffer (`HugeSystem`) and the allocator (`MallocSystem`) |
| `Services_proofs` | theorems on the timers and on the serial channel |
| `MC...` | the instances TLC checks |

### How state and steps correspond to the code

There is one CPU and a critical section disables interrupts, so a critical
section is one step, and an interrupt may come between any two steps. `pc[t]`
tells where a task is: in application code (`run`), between the critical
section of a service and its `OS_Sched()` (`sched`; `pend` when the service
has put it on a wait list), or back from that `OS_Sched()` with the second
critical section of its pend still to come (`wake`). A task only steps while
it is `OSTCBCur` and `OSIntNesting` is 0. Code outside critical sections that
reads shared state is a step as well: the services of `os_sem.c` look at
`OSEventType` before `OS_ENTER_CRITICAL()`, so `Check` and the critical
section (`Enter`) are separate steps and `checked[t]` is the `pevent` between
them. The port does not re-enable interrupts in its exception handler, so a
handler and `OSIntExit()` are two steps with no task step in between.

`OSTCBStat` is the set of the bits that are set. `OSRdyTbl` and
`OSEventTbl[e]` hold both levels of a bitmap (`grp`, `tbl`), and every
operation updates the levels as the code does: the row of a task is cleared by
its bit, the group only when the row becomes empty, and `OS_EventTaskRdy()`
sets the ready row from the wait list and the column from the TCB. `OSEventCnt`
of a mutex is the word with ceiling and owner priority.

The flags of a group are the set of those that are set. `OSFlagNode[t]` is the
node on the stack of the task's `OSFlagPend()`, so it is gone when the call
returns, and `OSFlagWaitList[g]` is the set of the tasks whose nodes are
linked: a post visits every node and `OS_FlagUnlink()` takes out any one of
them, so the order of the links decides nothing. A post readies all the tasks
it satisfies in its one critical section and is one step. `OSFlagPend()`
consumes flags in its second critical section (`OSFlagPendGot`), after which
the group may have been changed by others, or deleted and created again.

`OSTaskCreate()` is four steps: the priority is reserved, a TCB is taken and
filled in, it is entered in `OSTCBPrioTbl`, and it is linked and made ready;
`OSTaskDel()` is two, with the task off every list and still in the tables
between them. `OSEventPendMulti()` blocks with its events in `asked[t]`.

`OSTmr` keeps the links of the C lists, because a call-back can break them.
`OSTmr_Task()` holds the scheduler lock through a walk, so services of other
tasks come between walks and those of call-backs at the call; `ptmr` and
`ptmr_next` are its locals. A write through the null pointer sets `fault`.

A byte of the SA protocol is a number; a packet is start, toggle, sum, length
and data, and both ends are byte by byte. `cmd` is the part of the receive
buffer before `idx`. The sections of `__UART_SendCMD()` before and under the
lock are two steps, so two senders interleave. The far end is not in the
repository: `SASystem` gives it what the diagram in `uart.c` asks, a retry, and
one pad byte after each packet, without which the receiver does not complete it
(see Observed).

A unit of the ring in `HugeBuf` is a header or a part of a band, labelled with
the band it belongs to, so that one can see whether what is read is what was
sent. A transfer under way (`busy`) is the bulk transfer with its address and
length; `wait` is the completion, a semaphore (`platform.h`); `pc[t]` is where
a task is in `HugeBuf_StartOneReceive()`. The ten tries of `bulk_in()` while the endpoint is
busy are one step that waits or gives up; with the receiver at rest at a cancel
the endpoint is never busy there (`StartSteps` of `Memory_proofs`). The receiver and print tasks are
external: they call what `HugeBuf.c` offers in the order its interface asks.

In `Malloc` a heap is a record of chunks by address, bins, map of bins, top and
break, counted in words, and each C function is an operator. The header of a
chunk carries its size and whether the one before is in use; `stale` are the
words above the break that are not zero.

In `I2CSystem` a message is a direction and a length, a byte a position in it. A
message of no bytes, which `IIC_ReadReg()` passes on when it is asked for none, is
refused where the handler comes to it: the bytes before it are sent, it sets
`msg_err`, masks the interrupts and completes. Each
register access of `dwi2c_xfer()` between which the interrupt handler can run
is a step; the handler is one. The controller moves a byte, aborts, or ends.
`HandlerIsPrompt` states that an interrupt that is pending is served before the
task makes its next access, `BusIsSlow` that the bus does not move in the few
instructions between enabling the controller and unmasking its interrupts.

Calls that fail an argument check before they touch any state are left out;
they change nothing. The functions called from an ISR or before `OSStart()`
return early in the code and have no step. Left out as well: names, profiling
counters, hooks, the tick-stepping of uC/OS-View (off until a debugger sets
it), the statistics task, and the free list of event control blocks, of which
only its being a set of unused blocks is kept.

## Runs

| run | what it checks | result |
|---|---|---|
| `sem_core` | types, both list invariants, the scheduler, tokens against waiters, deletion, refinement of `SemAbs` | holds |
| `sem_live` | a timed pend of the highest task comes back | holds |
| `mutex_core` | lists and priority table under promotion, owner records, ceiling entry, owner outranks waiters, refinement of `MutexAbs`, two mutexes; which step alone may leave a lower task running; owners may be delayed and suspended | holds |
| `flag_core` | lists, scheduler, wait list of nodes, no waiter whose condition holds, refinement of `FlagAbs` | holds |
| `task_core` | TCBs and priority table through creation and deletion, ready list and wait lists with pends on two semaphores, scheduler, refinement of `SemAnyAbs` | holds |
| `tmr_core` | wheel and free list, refinement of `TmrAbs`, one-shot timers complete | holds |
| `sa_core` | queue of whole commands, how far stores into `cmd` reach, refinement of `SALinkAbs`, messages arrive | holds |
| `huge_core` | target of every transfer, headers and bands found where they are looked for, refinement of `HugeBufAbs`, every band is read | holds |
| `malloc_core` | tiling, bins and map, chunks and their owners, refusals justified, zeroes of `calloc`, refinement of `MallocAbs` | holds |
| `i2c_core` | FIFOs, bytes read, refinement of `I2CAbs`, transfers end | holds |
| `mutex_post`, `tmr_callback` | see Findings | violated |

Bounds of the kernel runs. Roles `high`, `mid` and `low` next to `idle`, at
priorities 3, 8, 9 and 10, so that two tasks share a row and one has a row of
its own and both levels of the bitmaps matter; `LowestPrio` is 10 for 63. One
semaphore or group and two mutexes: services touch one event at a time.
`SemCntMax` is 2 for 65535 and `LockNestingMax` 2 (1 elsewhere) for 255, so the
limits are reached. Time-outs 0 and 2 (1 outside `sem_core`) and delays of 1
tick let a time-out fall before, between and after every critical section of a
pend. `flag_core` has two application tasks, one group and three flags: a wait
for all of two flags, a consuming wait for any of the same two, and a wait for a
third flag to be clear; posts set and clear one flag or two, so one post can
wake both tasks, satisfy one and not the other, or take back what the first had
set. `task_core` has two TCBs besides `idle`, one of them free at the start, at
priorities above and below the other and at its own: tasks create and delete one
another and themselves, run out of TCBs, and are created anew. Its two
semaphores are symmetric; its properties are safety properties, for which the
symmetry is sound.

`tmr_core`: three timers on two spokes and a clock that wraps at 3. The size of
the wheel is free in uC/OS-II and need not divide 2^32; the 8 of `os_cfg.h` does,
but where it does not, the spokes jump when the clock wraps, and that is the
harder case. A delay as long as a turn
and a first delay that is shorter than the period, and all three timers on one
spoke. `sa_core`: packets of five and seven bytes, the longest the
buffer holds, queues that hold one, two messages each way, two
senders, one byte lost or garbled, one piece lost on the way back, and data that
looks like a start byte. `huge_core`: a ring of 5, transfers of at most 2, bands
of 0, 1 and 3 units, so that bands are cut by transfers and by the end of the
ring; four bands are enough to go around it more than once; one job cancelled.
`malloc_core`: 32 words in pages of 4, requests of 1, 4 and 8 words, alignment
8, small bins, two large ones and four blocks of bins: every kind of split,
merge, growth and trimming happens, and every sequence of calls is explored, as
the heap is finite. `i2c_core`: FIFOs of 3 and 2 below messages of 4 bytes, so
that each is refilled by interrupts, two tasks with a call each, two tries; a
write, a read, a read of a register, and one of no bytes behind a write of one.

No run uses a state constraint. Deadlock is checked except in `sa_core`,
`huge_core` and `i2c_core`, where the system stops when the bounded
senders have sent everything.

Invariants over the same tables are stated as one property with named parts:
`HeapExact` is `ChunksTile`, `BinsExact` and `BlocksHeld`, `PromotionRecorded`
is `OwnerRecorded` and `CeilingEntry`, `BandsInPlace` is `HeadersFound` and
`BandComplete`, and the lists of tasks and flags likewise.

Each property of a passing run has a mutant in `PROJECT.json`: a change to one
definition, of the kind a wrong edit of the C code would make, under which the
run must fail. The mutated forms stand next to the originals, marked `Mutant`.

### Fairness

`sem_live` assumes (`Fairness` in `SemSystem`): the tick interrupt stays
pending until it is taken (strong fairness of `TickISR`, which is enabled
again whenever no handler runs); a handler ends (weak fairness of
`OSIntExit`); the kernel code of a task that keeps getting the CPU goes on
although interrupts may hit at every step (strong fairness of `KernelStep(t)`
and of a call that has passed its check); and who locks the scheduler unlocks it
(`OSSchedLock()` says calls must come in pairs). No other call of the
application is assumed to happen. The property is stated for the task of
highest priority; a lower task may starve, as it may in the code.

`tmr_core` assumes that the tick goes on and that the timer task, which the
configuration puts above the application, goes on when it can (weak fairness);
one-shot timers complete only if callers stop calling at some time, which the
property states. `sa_core`: the line delivers its next byte, the application
polls `UART_GetCMD()`, and the far end answers and repeats. No fairness of the
faults or of `UART_SendCMD()`. `huge_core`: the controller moves what the host
has sent for a transfer, and both tasks run when they can. Nothing says that
the host sends, or how long it takes: time-outs may occur at any time, but need
not. `i2c_core`: the controller serves its queue, the handler runs when called,
and a task that can go on does; the time-out of the completion is no part of
it, so a transfer ends without help.

## Findings

* `mutex_post`: `OSMutexPost()` restores the lower priority of a promoted
  owner and, if no waiter is left (all have timed out), does not call
  `OS_Sched()`, so a ready task that outranks it does not run until the next
  scheduling point. It takes an owner that slept, so that a waiter timed out
  and a task between base priority and ceiling got ready while it did.
  `OnlyLoweringDefers` in `mutex_core` shows that this is the only step of the
  kernel that does it.
* `tmr_callback`: the timer task saves `OSTmrNext` before a call-back, for the
  case that the call-back unlinks the current timer. A call-back that restarts,
  stops or deletes the timer that follows moves the saved pointer off the
  spoke: the walk goes on in another list or ends, and a timer that is due is
  passed over until the clock has wrapped. If the timer that follows is itself
  due and is stopped, `OSTmr_Unlink()` writes through a null pointer. `tmr_core` lets
  call-backs do everything else (`CallbacksTouchNext` is FALSE).

### Observed

Not findings of a run, but met while modelling, and the reason for a constant
or a guard that keeps a passing run to what the code handles. What such a guard
leaves out no property would catch, and the list of hazards in `PROJECT.json`
gives these cases no property but a note: the deletion between check and critical
section, suspensions with mutexes, consumption past a waiter for the opposite
value, the skip over the end of the ring, a cancel while the receiver completes
or starts a reception, and the interrupt in the middle of `dwi2c_xfer_init()`.

* `OSSemPend()` looks at the type of the event before its critical section
  (`os_sem.c:314`, `326`). If the semaphore is deleted between, the task waits
  on a free event control block. `SemSystem` and `TaskSystem` delete with the
  care the code's comment asks for (`CarefulDelete`); `CarelessSpec` is the
  specification without it.
* A task suspended inside its pend and handed the mutex is neither ready nor on
  a wait list, but `OSMutexPend()` of a higher task takes it for one that is on
  the list `OSTCBEventPtr` names and puts it there (`os_mutex.c:507`). And
  `OSTaskSuspend()` with the base priority of the promoted caller suspends the
  caller and returns to it (`os_task.c:983`). `Suspensions` in `MutexSystem`
  says which of these uses a run allows; `mutex_core` allows none of them.
* `OSFlagPend()` and `OSFlagAccept()` consume flags without a look at the wait
  list (`os_flag.c:737`), so a task that waits for one of these flags to be
  clear sleeps on, or times out. `flag_core` keeps to requests in which nobody
  waits for a flag to be clear that others consume.
* A time-out of `OSEventPendMulti()` leaves `OS_STAT_MULTI` set
  (`os_core.c:945`), and `OSTaskResume()` then does not ready the task
  (`os_task.c:829`); a suspension between the two critical sections that publish
  a new TCB is undone by the second. `SuspendMulti` and `SuspendUnlinked` leave
  these out of `task_core`.
* A packet of the SA protocol is complete only with the byte after it
  (`uart.c:148`): the ACK of the last packet waits for one, and a byte that
  begins the next packet is swallowed. With the pad byte 0 and certain data a
  retried packet is misaligned for good; a pad of 255 can complete a wrong sum;
  a garbled byte can look like an ACK. The pad and the garbled byte of the run
  avoid these. The byte that completes a packet is also stored, at `cmd[idx]`
  (`uart.c:152`). A packet of the greatest length, 32, which the table in `uart.c`
  and the check of the length allow, has filled `cmd[32]`, so that byte goes one
  place behind the array, the last field of the channel. The model keeps how far
  the stores have reached (`touched`), and `WholeCommands` allows just this one
  place; what lies there belongs to the heap and is not in the model. A lost ACK silences a direction for ever, as does a
  packet that a second sender built with a toggle that is stale when it is sent.
* After five silent seconds `bulk_in()` gives up, and nobody starts the
  reception again. A completion that comes between the end of the pend and the
  clearing of the registers puts units into the ring that are never counted
  (`lost` in `HugeSystem`). `HugeBuf_CancelJob()` resets the ring whatever the
  receiver is at; a receiver about to complete or to start a transfer would go on
  with the sizes of before, so `HugeSystem` cancels while it is at rest
  (`ReceiverAtRest`). `HugeBuf_FlushCurBand()` with a band that wraps
  skips by a negative difference (`SkipByAddress`). `HugeBuf_GetCodeAddr()`
  promises `len` bytes that may not be contiguous.
* In `dwi2c_xfer_init()` an interrupt between enabling the controller and the
  read of `IC_CLR_INTR` is lost: an abort is then reported as success, or the
  rest of the message goes out in a new transfer. `wait_for_completion_timeout()`
  may return -1, which the driver takes for a completion. A RESTART is lost
  when the FIFO is exactly full at the boundary of two messages, which needs a
  first message longer than any client in the repository sends.
* `calloc()` multiplies unchecked, `request2size()` wraps for requests near
  2^32, and tasks share the heap without a lock.

What `FlagAbs` says of a deletion with `OS_DEL_ALWAYS` is what the code does:
the waiting calls return with no flags, and with `OS_ERR_NONE`, although the
doc of `OSFlagPend()` describes that code as "The desired bits have been set"
(`os_flag.c:565`). The note of `OSFlagDel()` asks for care, and a deletion
while another task is between the check and the critical section of a service
is left out of `FlagSystem` (`CarefulFlagDelete`): the wait list of a free
group is the link of the free list.

## Theorems

The assumptions on constants are those of the modules that declare them:
`LowestPrioAssumption` (2..63), `CoreAssumption` (distinct priorities, the idle
task has the lowest), and the ones of the services and drivers. The sets of
tasks, events, groups, requests and messages are arbitrary, as are the depths
of queues and the size of the ring. `LifeAssumption` and `StartAssumption` add
for `TaskSystem` that nobody pends on no event at all, which
`OSEventPendMulti()` refuses, that tasks are created at priorities that exist,
and that the idle task is there at the start. `BinsAssumption` of `Malloc` says
what any table of bins must satisfy: small bins first, rows that go up, so that
a longer chunk is in no earlier bin, and the last bin within `NAV`. The table of
`bin_index()` satisfies it with its sizes counted in words, as the smaller one
of the run does. `RequestsAssumption` asks for requests above zero and for
alignments that the code does not round up or that are multiples of
`MALLOC_ALIGNMENT`, as powers of two are. What a theorem needs beyond that is written
into its statement as a named hypothesis:

| hypothesis | where | why it is needed |
|---|---|---|
| `KindsApart` | `NobodySleepsThrough` | consuming flags looks at no waiting task (see Observed), so nobody may wait for a flag to be clear that others consume |
| `Careful` | tasks | nobody suspends a task that pends on several events, or one whose TCB is published and not yet linked: the code resumes the first too late and readies the second all the same (see Observed). The run makes the same choice |
| `Plain` | mutexes | no suspension inside a pend, of a promoted caller, or under the scheduler lock: the uses in which the code itself goes wrong (see Observed). The runs make the same choice |
| `~CallbacksTouchNext` | timers | a call-back that stops, restarts or deletes the timer its walk goes on with leads the walk astray (see Observed; `tmr_callback` finds it) |
| `SkipsByCount` | order of bands | `HugeBuf_FlushCurBand()` of a band that wraps skips by a negative difference (see Observed) |
| `WellFormed` | I2C | a transfer has at least one message, and the lengths are natural numbers, zero included |
| `Timed` | what an I2C transfer reports | the handler runs before the task's next access and the bus is slower than a few instructions (see Observed for what happens otherwise) |
| `RestartsInReach` | refinement of `I2CAbs` | a message that starts with a RESTART fits behind the ones before it into the empty FIFO, and these are writes: an address of a register and a read of it, which is all the clients send. Otherwise the RESTART may be lost |

Every run that checks a property with such a hypothesis has constants that
satisfy it.

*Bitmaps and lists.* `OSCore_proofs` shows that setting and clearing bits of
`MapOf(ps)`, the bitmap with both levels in agreement, gives the bitmap of the
changed set, and that the two table look-ups yield the least element
(`MapHighestOf`). It then says what the functions of `os_core.c` do to
sets of tasks.

*Semaphores.* `Invariance == Spec => [](IInv /\ Checks)`, and from it the
theorems for `TypeOK`, `ReadyListExact`, `WaitListExact`,
`HighestPriorityRuns`, `NoTokenPastWaiter` and `NoDanglingWait`. The invariants
alone are not inductive: that a bit in a wait list leads back to the right task
needs the priority table to be the inverse of the priorities (`Fixed`); that a
post or tick changes the right lists needs the TCB of each task to agree with
how far its call is (`TaskOK`, for instance that a task whose pend has been
settled has no delay left, or the tick would time it out again); that the
scheduler finds somebody needs the idle task to stay ready (`IdleOK`); that an
omitted switch is right needs `OSPrioCur` to be the priority of `OSTCBCur`
(`CurOK`); and that deletion leaves no dangling wait needs every call that has
passed its check to be on a live semaphore (`Checks`). The lists are handled as
images of sets of tasks, so that each service is argued in terms of who joins
and who leaves which set.

*Tasks.* Here a priority belongs to one task after another, so the lists are
sets of the current priorities of living tasks, `Alive`: those in `OSTCBList`
that no `OSTaskDel()` has taken apart yet. `TaskTableExact` is not inductive.
It must be known that what `OSTaskCreate()` does between its critical sections
is undisturbed: the TCB it has is as `OS_TCBInit()` left it, and its priority
stays reserved, then published, until it is linked (`MakingOK`); for that no two
tasks may be creating at the same priority (the last part of `Table`), although
several may be at it at once. Nobody else runs between the two halves of
`OSTaskDel()`, since the scheduler is locked exactly while somebody is there
(`DeletingOK`, `Running`); a task that has deleted itself goes to the scheduler
on a TCB that is already free and must find its priority gone, or no switch
would take place. `PendOK` tells apart a pend on one event from one on several:
in the second the TCB points at no event while the task waits, so each post has
to take the task off all the lists in `OSTCBEventMultiPtr`, and a deletion too.
The semaphores a task waits for must still exist (`CallOK`, `PendOK`), or the
task that wakes would return without tidying its TCB, which is what
`CarefulDelete` is for. `TaskSchedulerCorrect` says more than that the highest
priority runs: the task is alive and waits for nothing.

*Event flags.* The same frame with nodes for bits: a node is linked exactly
while its task has `FLAG` in its status, and the group and the request of the
node are those of the call under way. `NobodySleepsThrough` goes over what each
service does to the flags: a post wakes all whom it satisfies, and a consumption
under `KindsApart` satisfies nobody new.

*Mutexes.* Priorities change, so the ready list is a set of current
priorities and the priority table is no inverse any more: a task is found under
its base priority always, and under the ceiling while it is promoted
(`Lookups`). What keeps the wait lists simple is that a task on one owns
nothing, is therefore not promoted, and waits under its base priority; this,
with "a task owns one mutex, and each ceiling belongs to one mutex"
(`Ownership`), is the heart of `IInv`. `NoInversion` then follows from the
promotion in `OSMutexPend()`, and `LoweringAlone` is an action property of the
same invariant: each step either leaves the highest ready task running or the
scheduler to come, except the post of finding `mutex_post`.

*Timers.* A spoke of the wheel is a row of timers, one after the other along
`OSTmrNext`, and so is the free list. `WheelExact` alone is not inductive: it
says what each list holds, but a service that cuts a timer out of the middle
must know that each is one row, doubly linked, that no timer is in two, and
how many it has (`Wheel`, `Shape`); and that the walk of `OSTmr_Task()` survives
what others do to the list it is on needs to be said, namely that it has passed
by no timer that is due (`Covers`). The rows are bound by a quantifier in `Well`;
each service is a lemma on rows that lose or gain a member, at the head or in the
middle (`Cut`, `Push`), for any number of timers, size of the wheel and range
of the clock. `NoneIsPassed` is `Covers` told of the lists: together with the tick that
only moves between walks it says that no timer is missed. For `TimersImplemented`
the time left of a timer is its match value less `OSTmrTime`, modulo the range of
the clock, as `OSTmrRemainGet()` reports it: each tick takes one from all of them,
over the wrap too, because a delay is shorter than the range. That a list is the
row it begins is an induction over the length (`ListOfChain`).

*Serial channel.* `QueueOfCommands` assumes nothing of the bytes that arrive.
A row of commands is told by its cuts, the places where one command ends and
the next begins with its length (`Row`), so that a command is put at the end
(`RowGrows`) or taken from the front (`RowShrinks`) without a recursion. The
invariant adds that a packet in the making is no longer than its length byte
says, once that is there (`Packets`); with the room looked for before each byte
it follows that `fifo_in()` always takes the whole command. The theorem is about the receive
queue, and about how far the stores into `cmd` go: at most one place behind it. It
does not say that they stay within `cmd`, and they do not (see Observed).

*Receive buffer.* `TransfersOnTarget` needs only the control state: who is in
`HugeBuf_StartOneReceive()`, and that a cancelled transfer is waited for before
the next starts. For `BandsStayInPlace` the contents come in: the units between
`out` and `in`, followed by those that the host has still to send, are one row
of whole bands in order (`Content`), and a transfer only moves the boundary
within that row.

*Allocator.* `HeapInv` is stated for the heap between two calls, but a call goes
through heaps in which a chunk is in use and in no bin, or free and in none. Each
function of `malloc.c` is therefore a lemma on heaps: if the heap is in order
(`HeapOK`), so is the one it returns, and the set of chunks in use has gained one,
lost one, exchanged one for another, or is as before (`Gains`, `Loses`, `Swaps`,
`Kept`). Order has two parts. `Tiled` says that from the start to top each chunk
ends where the next begins and tells truly whether the one before is in use; a
change in the middle replaces one run of chunks by another with the same ends,
and one at the end replaces top. `Binned` says that each free chunk is at one place
of the one bin of its size, that long bins are sorted, and that the map of bins
misses none that holds something. `HeapExact` alone does not say that every
word above the break is zero (`stale` is empty), which `CallocCorrect` needs: when
top grew `cALLOc()` clears less, and the words it leaves alone must all come from
`sbrk()`. For `RefusalsJustified` each source that fails leaves a
fact behind: its own bins hold nothing long enough, the last remainder is too
short, no block that the map names has a chunk that fits, top is too short, and the
break cannot be moved; with `BinsAssumption` that is every free chunk. For
`BlocksImplemented` two blocks are apart because their chunks are, by `Tiled`.

*I2C.* `Safe` holds for any handler and any bus: commands are only fed where
`dwi2c_xfer_msg()` found room, and what may still come is at most
`rx_outstanding`, which gives `QueuesNeverOverflow`. `TriesInOrder` adds, stage
by stage of `dwi2c_xfer()`, that what the slave has seen, what is queued and
what is still to be fed are the row of commands in order (`InStep`), until an
abort is seen; `Completed` is the point of it: with a completion and without
`cmd_err` the row is over and every byte has been fetched. The rows of commands
are built by the recursive function of `FlattenSeq()`; what is needed of it
(`CommandsWell`: the last command of a row stops, and no other) is proved by
induction over a set of naturals (`SetInduction`, from the well-foundedness
theorem of the library).

*Refinements.* `SemImplemented`, `SemAnyImplemented`, `FlagsImplemented`,
`MutexImplemented`, `TimersImplemented`, `BandsImplemented`, `BlocksImplemented` and
`BusImplemented` show that every step of the detailed system is a step of `SemAbs`,
`SemAnyAbs`, `FlagAbs`, `MutexAbs`, `TmrAbs`, `HugeBufAbs`, `MallocAbs` or `I2CAbs` or leaves their
variables alone, under the invariants above. For `SemAnyAbs` the call of a task
is read off its TCB (`PendCall`): a post settles one call, a deletion of a task
kills one, and the sections of `OSTaskCreate()` before the last change nothing
anybody waits for.

Model-checked only: liveness, all of it (`sem_live`, and the temporal
properties of timers, messages, bands and transfers), since it rests on
fairness and `ENABLED`; and `ImplementsLink`, which holds for the faults of the
run and not for any (see Observed). Every invariant that a passing run checks
is a theorem as well.

## Not modelled

* uC/CPU, uC/CSP, uC/LIB: vendor libraries, register accesses, string and memory
  functions without state, and by far the largest part of the lines outside the
  kernel and lwIP.
* lwIP and its port: third-party, not linked into the build, and in need of
  message queues that are compiled out, like `os_q.c`, `os_mbox.c`, `os_mem.c`,
  `OSTaskChangePrio()` and `OSMutexAccept/Del/Query()`.
* Boot code, clock set-up, caches: straight-line, before the kernel runs.
* Flash, FPGA manager, GPIO, one-wire and QSPI drivers and the board files that
  use them: polled register sequences of one task at a time. The static buffer of
  `IIC_WriteRegs()` is in the list of hazards.
* Of `dwi2c.c`, messages of one transfer to two addresses, which no client sends.
* Of `uart.c`, the motion channel and the fan-out to the head channels; of
  `malloc.c`, statistics, tuning, and a break that others move; of the kernel,
  `OSTaskDelReq()`, the deletion of mutex owners and nested mutexes.
* String formatting, check sums and hashes: pure functions over bytes.

## Plan

1. Nested mutexes and deletion of owners.
