# TLA+ models of the Olive Piccolo firmware

Olive Piccolo is an FPGA board with a Nios II processor.  Its firmware
(`src/software`) runs Lua or JavaScript programs that a host sends over a serial
line.  This directory models the concurrent parts of the firmware, its thread
library, services and drivers, in TLA+, checks them with TLC on small instances,
and proves most of what the runs check with TLAPS for every value of the
constants: any number of threads, jobs or transfers, any sizes of buffers.

## 1. Inventory

| Part | Source (under `src/software/olive_rubic_bsp`) | State | Operations | Hard because |
|---|---|---|---|---|
| Scheduler core | `TINYTH/inc/priv/tth_core.h`, `tth_sched.c`, `tth_thread.c` | lists through `follower`, `tth_running`, `tth_int_level`, `waitstate` | move, switch, yield, interrupt hooks | any call or interrupt may reorder the lists |
| Mutexes | `TINYTH/inc/priv/tth_mutex.h`, `tth_mutex.c` | `owner`, `waiter` | lock, trylock, unlock | a wake-up is not a handover |
| Conditions | `tth_cond.c` | `waiter` | wait, signal, broadcast | release and wait must be one step |
| Semaphores | `tth_sem.c` | `value`, `waiter` | post (threads, interrupts), wait, trywait | tokens in flight |
| Sleep and tick | `tth_sleep.c`, `tth_int_tick` | `tth_time`, `timeout`, `tth_sleeping`, `preemption_us` | usleep, tick | 32-bit wrap-around, order by difference |
| Life of threads | `tth_thread.c` | `detachstate`, `waitstate`, `tth_detach`, stacks | create, exit, join, detach, idle | the control block lies on the stack that is freed |
| Newlib locks | `alt_malloc_lock.c`, `alt_env_lock.c` | mutex, `locks` | lock, unlock | the counter is outside any critical section |
| `pthread_once`, attributes | `tth_once.c`, `tth_attr.c` | `done`, mutex | once | two callers at once |
| Host bridge | `services/src/peridot_sw_hostbridge_gen2.c` | channel list, prefixes, selected channels, lock | demultiplex, source, register | framing bytes split between reads; back pressure |
| Pipes | `services/src/peridot_sw_hostbridge_gen2_pipe.c` | ring buffer, offsets, semaphores | sink, read, write | reader and sink overlap |
| RPC server | `services/src/peridot_rpc_server.c` | packet state, `incoming_job`, `pending_job` | sink, service, async_callback | ownership of a job across threads |
| Rubic agent | `services/src/rubic_agent.c` | per worker: `state`, `context`, `callback_context`, `mutex`, `sem` | queue, worker, notify, cooperate | fields written with and without the mutex |
| Bus access | `services/src/peridot_sw_hostbridge_gen2_avm.c` | packet buffer | sink | packet state machine |
| Client file system | `services/src/peridot_client_fs.c` | `vfd_list`, `sem_lock` | open, close, read, write, cleanup | a cleanup meets opens half done; descriptors are shared with programs |
| UART | `drivers/src/buffered_uart.c` | register INTR, three semaphores | read, write, close, interrupt | INTR is changed by threads and by the handler; its interrupts are one-shot |
| SPI and I2C masters | `drivers/src/peridot_spi_master.c`, `peridot_i2c_master.c` | registers, lock, semaphore `done`, `slave_locked` | transfer, interrupt | a slave may refuse in the middle; interrupts left over |
| Sectors of the flash | `drivers/src/epcs_fatfs_diskio.c`, `peridot_spi_flash.c` | the chip, `epcs_fatfs_lock`, `slave_locked` | disk read and write, raw read and write | the disk and the programmer share a chip that is busy after a command |
| Other flash interfaces | `altera_onchip_flash.c`, HAL interface of `peridot_spi_flash.c` | registers | read, erase, write | page arithmetic |
| Documents | `services/src/bson.c` | bytes of requests and replies | get, set, measure, shrink | lengths are computed apart from what is written |
| Checksums | `crc32.c`, `md5.c` | none | conversions | - |
| HAL, FatFs, FPGA design | vendored or generated | - | - | - |

The host bridge thread calls the sinks of the channels (pipes, RPC server, bus
access).  The RPC server's worker calls methods, among them the agent's, which
pass requests to the agent's workers; these run programs and answer through the
RPC server.  The client file system is a set of methods, too; it opens files of
FatFs, whose disk is the sector layer of the flash, which talks to the chip
through the SPI master.  The bridge reaches the host through the UART driver.
All of them are threads of TinyThreads and use its mutexes and semaphores;
interrupt handlers post semaphores and drive the tick.

What makes each part correct:

- **Scheduler**: a thread is linked once, every list but the sleepers is in the
  order of priorities, the idle thread is ready, the head of the ready list
  runs.
- **Mutexes, conditions**: one thread at a time, no waiter left behind a free
  mutex, an owner that will unlock, a condition's list with nobody in it who did
  not ask.
- **Semaphores**: no token lost or used twice, whoever posts.
- **Sleep**: nobody is left behind by the wrap-around of the clock; every sleep
  ends, less than a tick after its time (and up to a tick before it, section 6).
- **Life of threads**: a stack is freed once, when nothing refers to it, and it
  is freed at all.
- **Newlib locks, `pthread_once`**: an allocation is not interrupted by another,
  nested or not, and the idle thread never waits for one; a routine runs once and
  has ended when anybody returns.
- **UART**: no wake-up is lost between the look at a FIFO, the enabling of its
  interrupt and the wait.
- **Masters**: a transfer returns the answers to its own bytes and leaves the bus
  as the driver believes it to be, whatever a slave refuses.
- **Flash**: what was written to a sector stays there, and a read returns it,
  while others erase and program.
- **Client file system**: every descriptor is known in exactly one place, and no
  place names one that belongs to somebody else; a cleanup leaves none behind.
- **Host bridge, bus access**: wherever reads and writes split the stream, and
  whoever sends meanwhile, each channel gets its bytes in order, each packet its
  answer, and the host each message whole.
- **Pipes**: a queue of bytes; a reader that waits is woken.
- **Documents**: what is put in is found and read, and fits what was measured.
- **RPC server, agent**: a job has one owner and is answered and freed once; the
  server never waits for a program; an accepted request has its effect.

## 2. Plan

The order follows the calls: everything else stands on the thread library.

| Stage | Modules | State |
|---|---|---|
| 1. Scheduler core and its clients | `TthCore`; `TthMutex`, `TthCond`, `TthSem`, `TthSleep`, `TthThread`, `TthHeap` | done |
| 2. What threads of the services do with one another | `HostbridgePipe`; `RpcServer`, `RubicAgent` | done |
| 3. Proofs of the thread library, the pipes, the server and the agent | `TthCoreProofs`, `TthMutexProofs`, `TthThreadProofs`, `TthSleepProofs`, `RubicAgentProofs`, and the first part of `HostBridgeProofs` | done |
| 4. The byte stream in both directions, bus access | `BridgeSource`, `HostBridge` | done; composed with `HostbridgePipe` and `RpcServer`: open |
| 5. Drivers and file descriptors | `BufferedUart` over `TthSem`; `ByteMaster`, `SpiMaster`, `I2cMaster`, `Masters`; `EpcsFatfs`; `ClientFs`; `Bson` | done |
| 6. `pthread_once` | `TthOnce` over `TthMutex` | done |
| 7. Proofs of the drivers | `BufferedUartProofs`, `DriverProofs` | done |
| 8. Proofs of the byte stream | `HostBridgeProofs` | done |
| 9. Proofs of the documents | `DriverProofs` | done |
| 10. Compositions | see below | open |

Every safety property of a passing run has a theorem, except `CondWaitersCalled`,
which is false when threads have several priorities (section 6); what is live
stays with TLC.

Compositions that are open: the demultiplexer with the pipe and the RPC server,
`TthHeap` with `TthThread`, whose stacks it allocates, and `EpcsFatfs` with
`SpiMaster`. One defect seen in the code is to get a run of its own: the rotation
of the wrong thread by the tick (section 6).

## 3. The modules and the code

### The thread library

| Module | Extends | Models |
|---|---|---|
| `TthCore` | - | `tth_cs_move`, `tth_cs_switch`, `sched_yield`, `usleep`, `tth_int_*` |
| `TthMutex` | `TthCore` | `tth_cs_mutex_lock/unlock`, `pthread_mutex_*` |
| `TthCond` | `TthMutex` | `pthread_cond_*` |
| `TthSem` | `TthCore` | `sem_*`, implements `Semaphore` |
| `TthSleep` | `TthCore` | `usleep`, `tth_sleep_tick`, `tth_int_tick` with the clock; its steps are those of `TthCore`, timed |
| `TthThread` | `TthCore` | `pthread_create/exit/join/detach`, `tth_idle` |
| `TthHeap` | `TthMutex` | `__malloc_lock/unlock` (`__env_lock` is the same code) |
| `TthOnce` | `TthMutex` | `pthread_once`, beside other mutexes, which its routine may use |

**State.** Every list of the library is linked through `tth_thread.follower`.
The model has one variable `list` for all of them: the ready list, the
sleepers, and the waiters of each object, which is named like its list.
`running`, `waitstate`, `intLevel` and `owner` are the fields of the same
names.

**One processor.** There is one Nios II core, and a library call disables the
interrupts from `tth_cs_begin` to `tth_cs_end`. A call is therefore one step up
to `tth_cs_switch`. The thread that is switched away from continues inside its
call when it is next switched to; what it has left to do is its continuation
`cont` (`lock`, `sem`, `join`, `condlock`). `Resume...` actions are these
continuations. An action needs `running` to be the calling thread; another
thread acts only after a switch, which is how priorities have their effect.

**Interrupts** come whenever the running thread is outside a critical section.
A handler may post semaphores and runs the tick; `tth_int_exit` gives the
processor to the head of the ready list.

**History variables.** `held` (`TthMutex`) is what the callers were given and
have not given back, as opposed to the `owner` field; `claimed` and `stack`
(`TthThread`) say who has been joined or detached and what was freed; `left`
(`TthSleep`) is the real time of a sleep; `routine` (`TthOnce`) counts how often
the routine has started and ended; `overtaken` (`TthHeap`) says that the
allocator's mutex has been taken while a waiter that was woken had yet to take it.

**Callers** keep to POSIX: they unlock what they locked, join or detach a
thread once, and do not call from interrupt handlers what may wait.

### The services

| Module | Models |
|---|---|
| `BridgeSource` | `peridot_sw_hostbridge_gen2_source`, `write_to_host`, and how the host reads the stream |
| `HostBridge` | extends `BridgeSource` with `peridot_sw_hostbridge_gen2_service`, `write_to_channel`, `avm_sink` and what the host sends |
| `HostbridgePipe` | `hostbridge_pipe_read`, `hostbridge_pipe_sink`, `write_to_channel`; implements `ByteQueue` |
| `RpcServer` | `peridot_rpc_server_sink`, `_service`, the worker threads, `_async_callback` |
| `RubicAgent` | extends `RpcServer` with `rubic.queue`, the agent's worker threads and the runner's calls; implements `RpcSpec` |

Here a step is what another thread cannot see in two halves: a load or a store
of a shared field, or a section inside a mutex that no other store can disturb.
The threads run in any order. Their mutexes and semaphores are those of POSIX:
that of the semaphores is what `ImplementsSemaphore` shows; that of the mutexes
is what the services rely on and the library does not keep (run
`mutex_exclusion`): what is shown of them is shown for a library with that
defect mended.

- In `BridgeSource` `call[t]` is a thread's call of the source: what is left of
  its message, and what of the buffer (`out`) is not written; the loop that fills
  the buffer takes one byte of the message per step. `host` decodes the
  stream as the framing says; `heard` is what it has got since the lock was
  taken. In `HostBridge` `state` has the fields of
  `peridot_sw_hostbridge_gen2_state`, `svc` the locals of the service, with the
  bytes the sink of bus access still has to look at (`sink`), and `avm` the
  fields of `peridot_sw_hostbridge_gen2_avm_state`. `asked` and `typed` record
  what the host has sent and got no answer to or not seen arrive, and `asking`
  what of a packet it has yet to send: it sends packets byte by byte, as an
  operating system may split them. To the pipe it sends any bytes, escaped as
  everywhere, and framing before them if it likes (`PipeFraming`). `taken` is what
  the sink of the pipe got last; `typed` loses what that begins with, as far as the
  two agree. The memory
  that bus access reads is the constant `Memory`, and an address out of its
  range reads as one zero.
- In `HostbridgePipe` `reader.r`, `reader.w`, `sink.r`, `sink.w` are the copies
  of the offsets that the two functions work with after they have posted
  `sem_lock`. Bytes are numbered modulo twice the capacity, so that a byte that
  is lost, doubled or swapped is seen.
- In `RpcServer` a job is a piece of memory. `free` is the end of `send_reply`,
  with the reply sent or not, so that the paths of that function are one step; `broken` is a second free. A job that is free may
  be allocated for the next packet. `AsyncCallback` is only in the
  specification of the server alone: it is what the server allows its methods.
- In `RubicAgent` `worker[w]` has the fields of `rubic_agent_worker` (and its
  mutex, `locked`); `thread[w]` has the locals of `worker_thread` and of
  `rubic_agent_runner_cooperate`. The loop of the runner is that of the Duktape
  runtime (tick, cooperate, query abort); a Lua program never cooperates, which
  is a program that ends in its first tick. Whether a request starts a program is
  left open, as the agent does not look at its name (274-300).

Modelled as `synchronous requests`: `rubic.info`, `rubic.status` and the
programmer's methods, which are answered by the server's thread.

### The drivers and the files

| Module | Extends | Models |
|---|---|---|
| `BufferedUart` | `TthSem` | `buffered_uart_init/read/write/close/wait/irq` |
| `ByteMaster` | - | what the two masters share: `wait`, the handlers, the registers, the loop over bytes |
| `SpiMaster` | `ByteMaster` | `peridot_spi_master_transfer` |
| `I2cMaster` | `ByteMaster` | `peridot_i2c_master_transfer` |
| `Masters` | both masters | the two side by side: a behaviour is one of either |
| `EpcsFatfs` | - | `disk_read`, `disk_write`, the raw access of the programmer, and the commands of `peridot_spi_flash.c` they use |
| `ClientFs` | - | the `fs.*` methods |
| `Bson` | - | `bson_get_*`, `bson_set_*`, `bson_measure_*`, `bson_shrink_binary` |

- In `BufferedUart` the FIFOs are the fill levels `rx` and `tx`, `intr` is INTR,
  and `due` are the causes that the handler has cleared and not posted yet. The
  threads wait for the semaphores of `TthSem`, on its scheduler. One thread
  reads, as on the board the bridge does; one writes and closes. A second reader
  could wait for ever beside the first, since one interrupt posts one token.
- In `ByteMaster` `at` is where the transfer is, `ready`, `irqena`, `out` and
  `rx` are RDY, IRQENA and the data of the registers, `enabled` the interrupt at
  the controller and `done` the semaphore. `wire` and `open` are what a probe
  would see: the bytes of the transfer and the slave selected. The lock of the
  driver makes transfers follow one another, so there is one at a time.
- In `EpcsFatfs` `mem`, `wel`, `busy` and `merged` are the chip; `access[t]` is a
  caller's place in its sectors and pages; `last` is what a reader may expect.
  FatFs is not re-entrant and the programmer keeps off the disk, so no caller
  uses a sector that another one is writing.
- In `ClientFs` `vfd_list` and `sem_lock` are those of the code. `user` is the
  descriptor pool of the HAL, which the programs draw from as well. The client
  sends what it likes: nothing in the code keeps two requests for one file apart,
  or one and a cleanup, and neither does the model. `spoilt` records that an entry
  was overwritten that had changed hands since it was read, or that a descriptor
  was put back after a close that failed.
- In `Bson` `doc` is the reply that is being made and `room` what was measured for
  it; `put` are the elements it was given. `other` is the request it copies
  elements from, or the document it is to hold. Requests are well-formed and may
  have types the firmware never writes, code with scope among them. That one is
  measured too long, so that the getters may look at garbage and at what lies
  behind the document in memory (`Behind`). `MaxRoom` is what `malloc` can give.

The chip, the descriptor pool, the lines and the slaves are modelled from how
the drivers use them, and marked external.

**Outside the model.** Packets for the RPC server are as a client sends them:
five bytes or more, and none begins inside another; the host selects channels
between packets only. Channels are registered before the host sends. A request's content is what the
agent asks of it: the worker (`tid`) and the name.

## 4. The runs

| Run | Question | Bounds | States |
|---|---|---|---|
| `cond` | Are lists, owners and waiters consistent through lock, unlock, wait, signal, broadcast, ticks; is every waiter served? | three threads of one priority, one mutex, one condition | 20 152 |
| `mutex_exclusion` | Does a mutex exclude? *Violated.* | as above, without the condition | about 1 400 |
| `sleep` | Is the order of the sleepers right over the wrap-around, are wake-ups late by less than a tick? | clock modulo 16, tick of 2, sleeps of 1, 3, 4, two sleepers | 154 656 |
| `thread` | Is each stack freed once, and not too early? Does the nesting counter of the allocator add up, is the idle thread always ready, until the mutex is taken behind a woken waiter? Does the routine of `pthread_once` run once, and has it ended when anybody returns? | main, idle, two created threads, one above the others; nesting of 2, counter to 2, two mutexes | 241 937 |
| `pipe` | Is the pipe a queue, is the reader woken? | four bytes, chunks of 2 and 5, reads of 1 and 8 | 289 255 |
| `pipe_overflow` | Does the service go on when the pipe is full? *Violated.* | the same | 108 506 |
| `bridge` | Does every channel get its bytes, every packet its answer, and the host every message, wherever the stream is split? | one other sender, reads of 4, buffers of 3, headers of 2 bytes; a read, a transaction that asks for a new selection, a write with an escape, a packet shorter than its header; nothing to escape for the pipe | 2 874 253 |
| `bridge_escape` | Does a pipe get nothing of the framing? *Violated.* | the same, but the byte 0x7c typed, framed or not | - |
| `agent` | Who owns a job; is it answered once; does the server go on; does an abort end the program? | two jobs, one server thread, one worker, boot file, 2 tokens | 468 086 |
| `agent_dropped` | Does each accepted job stay with a worker? *Violated.* | without a boot file | 4 148 |
| `uart` | Do the semaphores implement the abstract one, under a driver that needs it; does each read, write and close return? | two threads and the idle one, FIFOs of 2, calls of up to 2 bytes, four semaphores of one token | 88 602 |
| `drivers` | Do transfers, sectors and documents keep what was given to them, whatever else goes on? Is each descriptor known in one place; does a cleanup leave none behind? | parts of up to 2 bytes, two slaves; two threads, three sectors of two pages; three workers, two entries, two descriptors, closes that may fail; documents of two elements, nested ones of one | 579 883 |

More configurations are kept to reproduce what section 6 reports and are not
among the runs; TLC finds each of them violated:

| Configuration | Module | Violates |
|---|---|---|
| `MCThreadDetach.cfg` | `MCThread` | `DetachedReclaimed` |
| `MCHeapSliced.cfg` | `MCThread` | `IdleReady` |
| `MCCondPriority.cfg` | `MCCond` | `CondWaitersCalled` |
| `MCAgentBoot.cfg` | `MCAgent` | `StartContext` |
| `MCFilesClose.cfg` | `ClientFs` | `EntriesOpen` |
| `MCFilesTwice.cfg` | `ClientFs` | `ReleasesAllocated` |
| `MCBsonScope.cfg` | `MCDrivers` | `RequestIsRead` |

Why the bounds are enough:

- *Threads.* Three threads besides the idle one make every situation of a list:
  a head, one behind it, and a thread that comes between a wake-up and its
  turn. The threads of the board share a priority and are time-sliced by default.
  So are those of `cond`, of `mutex_exclusion` and of the services; in `sleep` and
  `thread` one thread is above the others, which are equal and time-sliced, so
  that a wake-up may preempt, too. In `thread` the states behind a takeover of the
  allocator's mutex are left out (`NotOvertaken`): `HeapSafe` says nothing of them.
  The proofs hold for any number and any priorities and policies.
- *Clock.* 16 is more than twice the longest sleep and a tick, which the code
  guarantees of 2^32 µs and its limit of a second; the longest sleep of the runs,
  `MaxDuration`, is 4. The runs start at every
  value of the clock, so that the wrap-around falls between any two sleepers.
- *Pipe.* Four bytes with one always free are the smallest buffer with a wrap
  in the middle of a copy; a chunk of 5 is larger than the buffer, so that the
  sink is called again for the rest, and a read of 8 asks for more than there
  is.
- *Bridge.* Reads of up to four bytes split selections and packets at every
  place and hold several of them at once; write buffers of three are overrun by
  an escaped last byte to the limit (+2). A header of two bytes has packets
  shorter, equal and longer. The host sends more while there are less than three
  bytes on the line (`WireBound`), so that two packets, or a packet and a
  selection, may be read at once and a read may end anywhere in either. The
  proofs know no such bound on reads, buffers or headers; `WireBound` may have
  any value. The violated run changes what is typed.
- *Agent.* Two jobs are one request with a worker and one that arrives
  meanwhile; one server thread and one worker are the board's configuration
  (`system.h`). `AgentInv`, which implies the safety properties, was also
  checked once with two workers and three requests (24 million states), and it
  is proved for all sizes.
- *UART.* FIFOs of 2 can be empty, full and neither. Two bytes per call make a
  read that has something when the FIFO runs empty, and a write that waits in
  its middle. Of the four semaphores one is free for any use, so that posts and
  waits other than the driver's are in the run.
- *Drivers.* The parts share no state, and `MCDrivers` moves one of them per
  behaviour, as `MCThread` does with what threads do. Two bytes per part of a transfer have a first and a last; two
  answers tell them apart. Two sectors of the disk beside one of the boot image
  make a request that crosses a boundary and one that must be refused; two pages
  have the first and the last of a sector. The names of elements are a prefix of
  one another, a text may be empty, a binary may be empty or contain a NUL, and the
  number is negative; with three elements and the like inside there is no new
  case, since an element is skipped without a look at the ones before. Threads and
  data are
  symmetric and only safety is checked there.
- *Files.* Three workers are two closes of a file, or an open and a close, and a
  cleanup over both; two entries are one the cleanup has passed and one before it;
  two descriptors are one for each, or one that the program has. Workers
  and descriptors are symmetric.
- *Tokens.* `SEM_VALUE_MAX` is small so that overflow happens; posts beyond it
  fail, as in the code.

Deadlock is checked in all passing runs but `agent`, where a job that is leaked
(section 6) takes memory for good, and with two jobs of memory the host may then
have none to send the next request in.

**Fairness.** The kernel runs assume that timer interrupts keep coming and end,
that time slices end, and that a caller that holds a mutex unlocks it when it
gets to run often enough: without the latter a waiter may of course wait. Strong
fairness is needed since these actions are not enabled all the time. The
services assume that each thread gets the processor again and again, which
equal priorities and time slices give, and that a mutex serves its waiters,
which `WaiterServed` shows. A program's ticks return (`Tick` is fair); a program
that never returns cannot be aborted, by the code's design. In the UART the line
transmits what is in its FIFO, a requested interrupt is taken and its handler
ends, and a thread that has the processor again and again goes on with its call;
that bytes arrive is not assumed.

Each property of a passing run comes with a faulty variant of a definition of
the code (marked "a faulty variant" in the modules) that breaks it.

## 5. The proofs

All are checked by TLAPS for any value of the constants that satisfies the
named assumptions of the modules: `CoreAssumption`, `MutexAssumption`, `CondAssumption`,
`HeapAssumption`, `OnceAssumption`, `SemAssumption`, `UartAssumption`,
`ThreadAssumption`, `SleepAssumption`, `PipeAssumption`, `RpcAssumption`,
`AgentAssumption`, `SourceAssumption`, `BridgeAssumption`, `MasterAssumption`, `FlashAssumption`, `FsAssumption`,
`BsonAssumption`. They
say that names are distinct, that sizes are at least 1, and what the code
itself guarantees: the idle thread has the lowest priority (`TthCore`), the range
of the clock is more than twice the longest sleep and a tick (`TthSleep`), the
capacity of a pipe is a power of two (`HostbridgePipe`), the numbers of the
channels are no framing bytes and the service itself sends nothing but the answers of bus access
(`HostBridge`), names and strings have no NUL, memory has less than 2^31 bytes, and what
clients send is of a known type and has its length (`Bson`). TLC evaluates all of
them in the runs.

| Module | Theorems | Argument |
|---|---|---|
| `TthCoreProofs` | `SchedulerCorrect`; lemmas on `InsertPos`, `Insert`, `Move`, `Unlink` | `CoreInv`: types, one list, ordered lists, idle ready, running is head. A move takes a head off and puts it behind its equals; the idle thread is the lowest and never moves |
| `TthMutexProofs` | `MutexTypeCorrect`, `MutexSchedulerSound`, `MutexNoStrandedWaiter`, `MutexOwnerWillUnlock`; `CondKeepsMutexes`; `AllocatorSafe`, `RoutineRunsOnce` | `MutexInv` is `OfferInv` and `WaitersFound`. `OfferInv` adds `WaitersLock`: who is in the list of a mutex will take it when it runs; `WaitersFound`: who will take a mutex is in its list or ready. The wake-up by an unlock makes `NoStrandedWaiter` true, and a woken thread stays ready until it has the mutex. `CondInv` is `OfferInv` and `CondHoldsWaiters`, with threads of any priorities: whoever is moved to a condition has a mutex to take. `HeapInv` is `overtaken \/ Sound`: until the mutex is taken behind a woken waiter its owner is who is in the allocator, and ready (`HolderOwns`, `HolderReady`), one thread at most has been offered it, while it is free (`OfferedAlone`), and the counter is the nesting (`Counted`). `OnceInv` says that before the routine has ended no waiter has been offered the mutex and its owner runs the routine (`OnceGuard`), and counts its starts and ends (`OnceCounted`); behind that nothing is left to take over |
| `TthThreadProofs` | `ThreadTypeCorrect`, `StacksFreedOnce`, `FreedUnreachable`, `JoinWaits`, `DeadAreReclaimed` | `ThreadInv` says who has a stack in hand (`Claims`): a thread that is claimed is joined by the one that claimed it, and the idle thread frees only what terminated detached, so that no two have the same one; that a terminated thread is linked nowhere but in the idle thread's list (`Ended`); and that nobody refers to what was freed (`Gone`) |
| `TthSleepProofs` | `SleepCorrect`, `SleepersStayOrdered`, `NobodyLeftBehind`, `SleepsEndInTime` | `SleepInv` says that what a sleeper has left by the clock is between a tick too late and the longest sleep, which is less than half of the range, and that real time is ahead of it by no more than what has passed since the tick (`SleepersTimed`): the signed differences then order the sleepers (`DueOrder`) wherever the clock wraps. The steps of the detailed module are steps of `CoreNext`, with its guards, so that `CoreInv` carries over |
| `BufferedUartProofs` | `SemaphoresCorrect`, `SemaphoresCount`, `UartTypeCorrect`, `UartWaiterArmed`, `UartSemaphores` | `SemInv` adds to `CoreInv` that no token is idle while a thread waits (`NoIdleToken`) and that a suspended thread is in the list of its semaphore or ready again (`SemWaitersLinked`); a step is then one of the abstract semaphore, which counts the tokens in flight. `UartInv` adds that a thread about to wait finds a token or has its interrupt enabled or being handled (`PendArmed`), and that each semaphore has one waiter at most (`OneWaiter`) |
| `HostBridgeProofs`, the pipe | `PipeTypeCorrect`, `CopiesDisjoint`, `PipeImplementsQueue` | Each function has its own offset and an old copy of the other's, up to which there are bytes, or free cells (`ReaderBehind`, `SinkBehind`): the region it believes in is inside the one it really has. What the reader has copied is still in the buffer when it publishes (`DataStays`) |
| `HostBridgeProofs`, the stream | `BridgeCorrect`; `MessagesHeardWhole`, `OutputNeverTooLong`; `NothingStaysBehind`, `AnswersAreAsked` | `BridgeInv` has two halves. `LineInv`, which needs no hypothesis, has `SourceInv`: one call is inside the lock (`OneInside`), and the bytes in its buffer lead the host from where it is to having heard what is encoded so far (`Halfway`). `StreamInv`, for a host that has nothing to escape for the pipe: the bytes on the wire, in the service's buffer and in the hands of the sink lead from what bus access and the pipe owe now (`Due`, `Held`) to owing nothing but the packet that the host is in the middle of (`Ended`) |
| `RubicAgentProofs` | `ServerOwnsItsJobs`, `SlotIsAnnounced`; `AgentLiveRequests`, `AgentCallbacks`, `AgentImplementsRpc` | `RpcInv` adds `OneCall`: at most one worker is between its call and the emptying of the slot, and the slot still holds what it was called for; and `Owned`: the sink has no packet while the slot is full. `AgentInv` adds `Distinct`: what a worker has yet to answer is accepted, and no other worker has it; `Own`: at each place of the thread, which field still has the request. A worker is not idle while its start request is unanswered and its context is not empty, so that the queue cannot replace it |
| `DriverProofs` | `MastersCorrect`, `DoneBounded`, `BusesReleased`, `AnswersAreOwn`; `FlashCorrect`, `FlashHolds`; `FilesTypeCorrect`, `CleanupLeavesNothing`, `DescriptorsAccounted`; `BsonInvariant`, `DocumentsRoundTrip` | Four parts with an invariant each. `MastersInv`: enabling the interrupt is good for one token and each byte takes one (`Tokens`); RDY means that the answer is the last byte on the wire (`Handshake`); the count of answers looked at is what was dropped and kept (`SpiCall`), and the byte that ends an I2C transfer carries STOP (`I2cCall`). `FlashInv`: the lock's holder is the only one the chip works for (`LockHeld`, `ChipFollows`), and how many pages of its sector a write has programmed (`PagesWritten`). `FilesInv` is `Workers /\ (spoilt \/ (Entries /\ Accounted))`: what the workers hold is always sound; until an entry is spoilt an open or a close has its entry to itself (`EntryOfJob`, `OwnEntry`), nothing is open behind the place of a cleanup (`Cleaned`), and every descriptor of the client is in one entry or in one hand (`OnePlace`, `ClientsAre`). `BsonInv` says, unless the request has code with scope, that there are offsets at which the elements of a document lie one behind the other, byte for byte (`Laid`), and a buffer in hand is the content of a binary at one of them (`BufferAt`) |

The invariants the runs check are not inductive alone. `NoStrandedWaiter` needs
to know that a thread that is ready with continuation `lock` is not lost
(`WaitersFound`), which needs the order and linkage of the lists
(`CoreInv`). `ServerOwnsJobs` needs `OneCall`: without it, two workers could
both load the slot. `LiveRequests` needs `Own`, which follows a request from the
queue through `context`, the local variables and `callback_context`.
`NoOversleep` looks at one moment of the tick; it needs the order of all
sleepers at all times, and that in turn their real times. `OwnBytes` looks at a
transfer that has ended; it needs the place of every byte under way. TLC checked
each inductive invariant before it was proved, on the instance of its run or a
smaller one:

| Invariant | Instance | States |
|---|---|---|
| `HeapInv`, `OnceInv` | run `thread` without its constraint, so that takeovers are included | 4 810 193 |
| `CondInv`; `Emptied` against a fold of `Move` | run `cond` with three created threads and two conditions | 586 974 |
| `ThreadInv` | the part of run `thread` that creates and joins; again with three created threads | 4 968; 95 252 |
| `SleepInv` | run `sleep` | 154 656 |
| `UartInv` | run `uart` | 88 602 |
| `PipeInv` | run `pipe` | 289 255 |
| `BridgeInv`, `Flow` as the fold it stands for | run `bridge` with `WireBound` 2 | 463 095 |
| `MastersInv`; `BsonInv` with the offsets computed and no code with scope | their parts of run `drivers` | 115 315 |
| `FlashInv` | that run's constants, `DiskSpec` alone, no symmetry | 52 104 |
| `FilesInv` | its part of run `drivers` | 464 312 |

That a run of bytes leads a decoder from one state to another is a statement
about a fold, and would need an induction. `Reads` (for the host) and `Flow`
(for the demultiplexer with bus access behind it) say it with the states in
between: there is a sequence of states, one more than bytes, each of which
follows from the one before by the byte between them. Taking a byte off the
front drops the first state, sending one appends a state, and both are lemmas
(`ReadsFirst`, `ReadsNext`, `FlowFirst`, `FlowNext`) that need only facts on
sequences. What the host sends to one channel must not change what is owed to
the other: `FlowAskMore` and `FlowTypeMore` add a packet or a byte at the end of
what is owed in all states at once. With this an unbounded stream costs no more than
one byte: each of `ServicePrefix`, `ServiceSelect`, `ServiceByte` and `AvmByte` is
one move of the flow.

The loop of a broadcast is a recursive function (`Emptied`). That there is such
a function, and what it does to the lists, is an induction over the rounds
(`BroadcastRounds`, `BroadcastFacts`), done by the least round for which the
statement fails, which needs no more than that the order of the natural numbers
is well-founded.

The search of a document is a loop over its bytes. `Scan` is one round of it,
and a round passes one element of a document that is laid out (`ScanRound`),
since `measure_value` gives the length of every value that was written or sent
(`MeasureFacts`); `PropsFind` then goes over the rounds by the least one that
fails. `BsonInv` says that there are offsets and not what they are, so that an
element that is appended adds one (`AppendLaid`) and a binary that is shrunk
moves none but the end (`ShrinkLaid`). That `bson_shrink_binary` looks only at
one byte behind the content is enough: behind any binary but the last that byte
is a type, which is not 0 (`ShrinkKeeps`). Lengths are read back from the four
bytes they were written to (`WordArithmetic`), for all of the 32 bits.

Three theorems have a hypothesis: `BridgeCorrect`, `NothingStaysBehind` and
`AnswersAreAsked` assume `PlainPipe`, that the host sends the pipe neither framing
nor bytes to escape. `NothingLost` is false without it (section 6, run
`bridge_escape`); `MessagesHeardWhole` and `OutputNeverTooLong` need no such
thing. Three properties stop where the code itself goes wrong, in the words of a
state and not of a constant, so that the theorems hold for everything that may
lead there: `HeapSafe` at `overtaken`, `FdsAccounted` and `CleanupComplete` at
`spoilt`, `RoundTrip` for a request with code with scope (`Scoped`). Nothing else
leads to a failure of theirs, which is what the theorems say; that those states
do fail is shown by the configurations of section 4.

`AgentImplementsRpc` is the refinement the server depends on: an asynchronous
method frees no job before it has accepted it, and frees it once.
`SemaphoresCount` and `PipeImplementsQueue` are the others: the semaphores behind
all drivers, and the pipe behind a program's input.

Checked by TLC alone: `CondWaitersCalled`, and everything that is live
(`WaiterServed`, `UartServed`, `SleepEnds`, `WaitingReaderServed`,
`ServerResponds`, `AbortEnds`), since it rests on fairness.

## 6. What the models show of the code

Four statements of the code's comments and documents do not hold; the runs
marked *violated* show them:

- **A mutex may be taken by two threads** (`tth_mutex.h:30`). The unlock hands
  the mutex to nobody, and a waiter that has been woken takes it without looking
  again. A thread of a higher priority may have taken it in between; but threads
  of one priority are enough, too: the thread that has unlocked goes on running,
  locks again, and its time slice ends. This is how the threads of the board are
  set up (`SCHED_POLICY_DEFAULT` is `SCHED_RR`, `sched.h:17`). The allocator
  is exposed to it as well: `MCHeapSliced.cfg` shows that the idle thread may
  come to wait for it, when both threads count in one counter and one never
  unlocks. `pthread_once` is safe from it, since `done` is set before the unlock;
  `AllocatorSafe` and `RoutineRunsOnce` say so (section 5).
- **A full pipe stops all channels** (`peridot_sw_hostbridge_gen2_pipe.c:149`).
  The sink decides on the wake-up with offsets loaded before its copy; the
  reader may be about to wait.
- **An accepted request may be dropped** (`rubic_agent.c:532`). A start request
  takes an idle worker although its context is filled.
- **A pipe garbles bytes that look like framing**
  (`peridot_sw_hostbridge_gen2.c:142-143`, 166-167). The copy that is to drop an
  escape ("Drop special byte") starts at the beginning of the buffer, so that it
  drops the first byte of the buffer instead; the byte behind the escape has
  moved up and is not looked at, and the escape is applied to a later byte. An
  escaped 0x7a or 0x7b, once unescaped, is dropped like framing (164). Bytes of
  other channels in the same buffer move, too. `z`, `{`, `|` and `}` typed to a
  program are affected. A selection may leave a byte in the pipe as well: when a
  read ends behind a channel prefix, the prefix is written to the old channel
  (173), and so it is when the number of the channel is escaped (155). `PipePure`
  fails under the constants of `MCBridge.cfg` because of it.

Seen while modelling, and not the subject of a run:

- **A thread detached after its end is never freed** (`tth_thread.c:223`);
  `MCThreadDetach.cfg` shows it.
- **A close that fails leaves a dead entry** (`peridot_client_fs.c:254-257`). It
  puts the descriptor back into the table, but `alt_close` has freed it whatever
  the file system answered (`alt_close.c:56-59`, 88): the client's file then
  names a descriptor that the next `open`, perhaps a program's, gets. The close
  of FatFs fails when the volume was formatted meanwhile. `MCFilesClose.cfg`
  shows it. The run `drivers` has closes that fail; its two properties of files
  say nothing behind one.
- **Round robin passes some threads over** (`tth_thread.c:393`).
  `tth_int_tick` looks at the policy of the running thread, and `sched_yield`
  rotates the head of the ready list. When the same tick has woken a higher
  thread, that one is rotated: with sleeps in step with the interval, the equals
  of the running thread never run. `TthSleep` models it; its liveness property
  is about sleepers only.
- `avm_sink`: a read of no bytes gets no answer (109); the flag that asks for a
  new selection is lost when a packet goes on behind its header (49, 86).
- `usleep` counts from the last tick: a sleep may end up to one tick early.
- `pthread_cond_wait` with threads of several priorities moves the head of the
  ready list, which the unlock before may have changed, to the condition
  (`tth_cond.c:73-76`, `MCCondPriority.cfg`). The board is built without
  conditions.
- If the idle thread shared a priority with another, it could wait for the
  allocator's mutex, and nobody would be ready.
- `pthread_setname_np` copies one byte more than the name has room for
  (`tth_thread.c:263`).
- `peridot_rpc_server.c`: a start of packet inside a packet leaves the memory
  of the first one allocated (82-86). A packet of four bytes for which there is
  no memory calls a worker without a job, which may empty a slot that the next
  packet is in (134-137). A document that does not parse leaves `off_id`
  uninitialised (278-285).
- `rubic_agent.c`: after an automatic start there is no start request, but a
  request that has arrived meanwhile is answered as one (340, 348), or thrown
  out of the context when the start fails (304-307): `MCAgentBoot.cfg`. An abort
  that comes when the program has ended is answered with `ESRCH`, although the
  comment says "Abort request always succeeds" (374). The worker's semaphore is
  posted also for requests that a running program takes (534): the tokens add
  up, and wake the worker later for nothing.
- `runtime_duktape.c`: the source of a program is evaluated (172-175) after
  `rubic_agent_runner_notify_init` has freed the job it is part of. It sets
  `O_NONBLOCK` (117), which `hostbridge_pipe_read` does not look at.
- `buffered_uart.c`: two threads that read, or two that write, would strand one
  of them, since one interrupt posts one token.
- `pthread_once` returns `EPERM` when a thread that waited has taken the mutex
  over before the unlock. The locks of the masters and `epcs_fatfs_lock` are
  mutexes as well: `mutex_exclusion` is about them, too.
- `peridot_spi_master.c`: MERGE selects a slave for the next transfer to it,
  whoever sends that; the users of the flash rely on `epcs_fatfs_lock` for it.
  The HAL interface of `peridot_spi_flash.c` does not take that lock, nor does
  the identification of the chip at `disk_initialize`; and a block write of it
  is not cut at the end of a page. `peridot_spi_master_configure_pins` looks at
  `slave_locked` without the lock and is refused only between merged transfers,
  so that it may change the pins in the middle of one.
- `bson.c`: the length of JavaScript code with a scope (0x0f) counts itself, and
  `measure_value` (37-41) adds its four bytes again, so that an element behind
  one is not found: `MCBsonScope.cfg`. A binary of no bytes is read as none (254).
- `rubic_agent.c`: the names of the elements of the array `runtimes` are made
  with `i - '0'` (440), which is no digit.
- The masters start with their interrupt enabled, so that `done` may have one
  token more than there are bytes; the loops around `sem_wait` allow for it.
- `peridot_client_fs.c`: a cleanup that overlaps a close of the same file may
  close the descriptor twice, and so may two closes (`MCFilesTwice.cfg`);
  `fs.ioctl` passes on an argument for output that
  nobody has set (621). The board has one worker of the RPC server, which
  serialises the methods; the table is written for several.

## 7. Not modelled

| Part | Why |
|---|---|
| Code pages (`cc*.h`) and `ff.c` of FatFs | vendored; half of all the lines are tables of characters, another 4 700 the file system itself. They bound the share of the code any model can cover |
| Glue of `epcs_fatfs.c` to the HAL | passes calls on to FatFs |
| `altera_onchip_flash.c`, HAL flash interface of `peridot_spi_flash.c` | a vendor's driver, sequential; the second goes past the lock (section 6), so there is no protocol to check |
| `configure_pins`, `get_clkdiv` of the masters | pin functions and arithmetic; no state of the drivers |
| `system.h` | generated configuration |
| `crc32.c`, `md5.c` | functions of bytes without state or protocol; `fs.hash` alone uses them |
| `tth_attr.c`, thread names | plain fields |
| Lua, Duktape and their runtimes, the rest of the HAL, FPGA design | third-party, vendored or generated |
| Wording and format of replies | no property depends on them |
