# Checkpoints of rv8: recording and replaying slices of a RISC-V program

rv8 is a RISC-V simulator (`rv-sim` for user programs, `rv-sys` for a full
machine, `rv-jit` with a translator). This fork adds *checkpoints*: `rv-sim`
cuts the run of a program into slices of about `period` instructions and
records, for each slice, just enough to execute it again somewhere else, on
spike, on an FPGA or in a simulator of another kind. `ckpt/parse.py` turns a
recording into memory images and the checkpoint loader `ckpt/cl` runs them.

The first question this project asks of the code is the one a user of
checkpoints asks: **does a slice that is replayed execute what the program
executed when it was recorded, and does it stop where the slice ended?** Around
it stand the programs that make the images (parse.py's jobs and placement, the
loader), and the parts of the simulators where threads, devices and address
spaces interact. The models follow the source; paths below are relative to the
repository's `src/`, `ckpt/` to its `ckpt/`.

## 1. Inventory

### The checkpoint path

* **Memory trace**, `src/util/fmt.h` (`PageRec`, `ExecRec`, `StoreRec`,
  `MemTrace`) and `src/util/fmt.cc` (`MemTrace::dump`).
  *State*: for each byte whether the slice has touched it and the value of its
  first touch; a counter per instruction; 256 hash entries with the last stores.
  *Operations*: `fetch`, `prefetch`, `load`, `store`, `dump`.
  *Correct if*: the trace holds exactly the touched bytes with the values they
  had when the slice first needed them, and each remaining store entry describes
  memory at the end of the slice.
* **Recorder**, `CheckpointManager` in the same files.
  *State*: the trace, `begin_instret`, the log file.
  *Operations*: `fetch` (begins a slice, looks for a breakpoint, opens a
  `syscall` line), `break_here`, `load`, `store`, `syscall`, `exit`, `execute`.
  *Called by*: the interpreter loop (`emu/processor-runloop.h`), the proxy MMU
  (`emu/mmu-proxy.h`) and every system call handler.
  *Correct if*: slices concatenate, the log can be parsed, a breakpoint can be
  patched without changing what the slice executes.
* **System call proxy**, `abi/unknown-abi.h`: 44 handlers that call the host,
  write the guest's buffers and tell the recorder, each in its own way.
  *Correct if*: every byte a call changes is told to the recorder.
* **parse.py**, `ckpt/parse.py`: builds the image, replaces every `ecall` and
  the breakpoint by a jump, and writes the replay table. A breakpoint that
  repeats needs two passes: a rerun under `rv-sim -M` finds the results of the
  breakpoint's executions, which become calls of the second image.
* **Loader and replay**, `ckpt/cl.c`, `entry.S`, `near.S`, `far.S`, `jump.S`,
  `replay.c`: map the image, restore the registers, and answer each jump with
  the next entry of the table; at the exit entry check the asserted stores.

What is hard here: nothing runs concurrently, but what is correct depends on
long sequences. A byte's first touch may be a fetch, a load, a store or a system
call, in overlapping widths; the breakpoint is chosen from the state of the
trace and then patched over code the slice may have executed or read; the replay
table is consumed by position, so a missing or additional entry shifts all that
follow; and the rerun counts executions and system calls in two counters whose
last values may come in either order.

### Making and loading images

* **parse.py's placement** (`make_free_list`, `reserve`, `reserve_page`).
  *State*: bitmaps of used bytes, a list of holes that is shortened by hand.
  *Correct if* what it returns was free, is the nearest such hole (a `jal` has a
  range), the stack has pages of its own, and the search ends.
* **parse.py's jobs** (`main`, `submit_task`, `exists`). *State*: the files on
  disk, a set of forked workers. *Hard*: a worker fails, is interrupted or cannot
  write between two files, `main` dies of an exception while its workers go on,
  the log is cut because the simulator was killed, the program is started again
  and skips what exists. *Correct if* the exit status tells the truth, no two
  processes write one slice, and a rebuild repairs everything.
* **Loader tools** (`ckpt/compress.py`, `main.c`, `cl.c`). *State*: the packed
  files, the loader's place in memory. *Hard*: compress.py is killed; the loader
  must not map a page of the slice over itself; limits of two programs must fit.
  *Correct if* what starts to run is the slice.

### The simulators

* **Atomic queue** (`util/queue.h`): a lock-free ring buffer used between the
  console thread and the processor. *Correct if* it is a FIFO queue.
* **Console and WFI** (`emu/console.h`, `emu/processor-priv-1.9.h`,
  `emu/debug-cli.h`): a thread that moves characters both ways and wakes the
  processor; the debugger shares its terminal, and signals jump out of whatever
  the processor is doing. *Correct if* nothing is lost,
  duplicated or reordered, a sleeping guest wakes up, and a shutdown ends with
  the terminal as it was.
* **Interrupts and traps** (`emu/processor-priv-1.9.h`, `device-timer.h`,
  `device-plic.h`, `device-mipi.h`, `device-gpio.h`, `device-uart.h`): devices
  are asked only between steps of 100000 instructions. *Correct if* what is
  raised is served and handlers return to what they interrupted.
* **Soft MMU** (`emu/mmu-soft.h`, `tlb-soft.h`, `pte.h`): TLBs, page walk, rights
  and flags. *Correct if* an access reaches the page that was mapped since the
  last fence, with rights for it, and faults only for cause.
* **Address space of rv-sim** (`mem/mmap-core.c`, `abi_sys_brk`,
  `abi_sys_mmap`): a bitmap of used pages beside the host's kernel. *Correct if*
  the guest keeps the memory it was given and the bitmap agrees with the kernel.

`PROJECT.json` lists every component with its status and, under `hazards`, the
places that are hard to test with the properties that cover them.

## 2. Modules

| module | models |
| --- | --- |
| `MemTrace` | the trace and its operations, as pure operators on a record |
| `ProxyAbi` | each handler as the set of ways in which a call of it can end |
| `Recorder` | the guest, the interpreter's turn and `CheckpointManager` |
| `Replay` | parse.py's tables and passes, the loader's end, `replay()`; the properties |
| `ReplayInvariant` | the conditions on a guest and the inductive invariant |
| `ParseJobs` | `main` of parse.py and its workers, over several starts of the program |
| `Placement` | `make_free_list`, `reserve`, `reserve_page` and their callers |
| `Loader` | `PageMap.dump`, compress.py, `main.c`, `map_pages` |
| `Fifo`, `AtomicQueue` | what `queue_atomic` promises, and its code |
| `Console` | console thread, processor thread, debugger and terminal |
| `Interrupts` | `isr`, traps, returns, reset, timer, PLIC, IPI, UART and GPIO |
| `SoftMmu` | translation, TLBs, page walk, rights, flags, `sfence.vm` |
| `AddressSpace` | the page bitmap, `mmap`, `munmap`, `brk`, the end of a slice |
| `MCReplay`, `MCReplayable`, `MCPlacement` | small instances for TLC |
| `Replay_proofs` | proofs about trace, recorder and replay |
| `Image_proofs` | proofs about `Placement` and `Loader` |
| `AddressSpace_proofs`, `AtomicQueue_proofs`, `ParseJobs_proofs`, `Console_proofs`, `Interrupts_proofs`, `SoftMmu_proofs` | proofs about the module of that name |

`Replay` EXTENDS `Recorder`, which EXTENDS `MemTrace` and `ProxyAbi`.
`AtomicQueue` instantiates `Fifo`; `Console` uses the queue as `Fifo` describes
it. The other modules stand alone.

### Recorder and replay: state and actions

*The guest.* An instruction is a record: address, length, kind, destination
register and the bytes it accesses. After each instruction any other of the set
`Inst` may follow, and what it computes or stores is any value, so one run covers
every program over these instructions. `mem`, `a0`, `fcsr`, `instret` are the
parts of the guest's state that recorder and replay treat in different ways.
The other integer registers behave as `a0` does for instructions that are not
replaced, and a replaced instruction's own register is seen in `rval`.

*The recorder.* One action is one turn of the loop in
`processor_runloop::step`: `Step` (an instruction that ends no slice), `Ecall`,
`Exit` (the handler of exit ends the slice), `Break` (the slice ends before the
instruction; it is executed while nothing is recorded). Each contains the whole
of `CheckpointManager::fetch`, of the execution and of the recorder calls it
makes. `calls` holds the syscall lines, `slice` what the log and the dump keep of
the last slice, and `line` whether the last log line was left open. `ev` is a
history variable: the instructions of the slice with the values they got. Its
only use is to compare a replay with it.

*A system call* is an outcome of a handler: whether the buffer is written with
data, mapped anew, or left alone, and whether the recorder hears of nothing, of
the return value, or of the buffer too. Six tables in `ProxyAbi` list the
outcomes of all handlers.

*The replay.* `StartReplay` may happen whenever a complete slice is in the log.
The replayed program is deterministic, so it is modelled by the history: `rk` is
the next instruction. `ReplayInst` requires that what the instruction fetches and
loads, and the rounding mode it uses, is what it was in the recorded run
(`Agrees`); where it is not, the model stops and `ReplayFaithful` is violated.
`TrapReturn` and `TrapExit` are a jump to `near_call`, `far_call` and `replay()`.
`RerunLine` and `SecondPass` are the loop of `Checkpoint.process`; `BeginLine` is
its first line, "begin execution". Bytes that no recorded instruction has touched
are `Hole`: they may hold anything, the call code among it.

#### Abstractions

* Pages and page caches are left out: they say where a byte is kept.
* `exec_count < total >> 18` is `total \div RepeatDiv`, with a small divisor.
* `near_call` and `far_call` are taken to preserve the registers they save.
* `proc.lr` is not a variable: an `sc` of the guest may store or not, and
  `ScResult` says whether one that stored does so again in the replay. It need
  not, on rv-sim either, if its slice begins between `lr` and `sc`.
* Reads of the time and cycle counters give the recorded value; on a real
  machine they do not, and no call replaces them.
* A trap (illegal instruction, signal) ends `rv-sim`; the slice being recorded is
  then never dumped, and the finished ones are not affected.
* The rerun is killed by parse.py; the model lets it stop at once when its last
  line has been read. What it would do in between is not used by anyone.

### ParseJobs

`files` says of each file of each slice whether it is absent, partial (opened),
short (complete, but made from a cut log), mixed (written by two processes at the
same time) or whole. `mainPc`, `pos`, `cur`, `children` are the loop of `main`
over the lines of the log; `worker` holds the process of each slice in each run,
one step per file it opens or closes, in the order of `process_once` and
`process`. What goes wrong (`Faults`, at most `MaxFaults` times):

* `WorkerFails`: placement or rerun raise an exception, with no file open.
* `WorkerTears`: an exception between opening and closing the files (no space, no
  permission, a page of the wrong length). They stay on disk as they are.
* `ReadRaises`, `ForkRaises`: `main` itself dies, at a line of the log that is cut
  in the middle, at the dump file it cannot open, at a fork. It waits for nobody;
  `orphaned` remembers whose workers go on, also beside those of the next start.
* `Interrupt`: Ctrl-C at any moment; `main` and its own workers get it.

`SubmitUnopened` is an exception too, which a log that is cut between lines brings
about by itself. `Restart` is the next start of the program, with any `--jobs` and
`--rebuild`. The length of the log, `Cuts`, is chosen in the initial state: in the
run it is whole, or ends in the first slice or at two places of the second.

### Placement

`logged` is any set of bytes a slice may use (the code it has executed among
them), `used` the bitmaps, `free` the list of holes. `Mark` is the first half of
`process_once`, `BinarySearch` one turn of the loop of `reserve`, `Place` and
`Fail` its end, `ReservePage` the search for the stack's pages. The reference
definitions `Candidates` and `Gap` say what a free, near place is without any
list.

### Loader

`image` is any small set of pages; `length` and `share` say what fastlz, which
is external, makes of them. `DumpPages` writes parse.py's files, `PackPage`,
`OpenPacked`, `WriteChunk`, `WriteEntry`, `ClosePacked` are compress.py, which
`KillPacker` may stop while it writes, leaving a part of each file; `ParseCfgs`
and `MapLoader` are `main`, `MapFile`, `MapCompressed`, `BeginExecution`
`map_pages`; `MmapFails` is a mapping the kernel refuses. `dump` is a sequence of
units that know which data they are a part of, so that reading at a wrong offset
gives `Garbage`. A `.cfg` is cut between its numbers, a `.dump` between pages or
anywhere in its compressed part, as Python's buffered writes leave them.

### Fifo and AtomicQueue

One step of `AtomicQueue` is one access to an atomic variable; `loc` holds the
locals of a call. Push and pop are one protocol on the two ends, so one set of
actions serves both. The widths of versions and offsets are constants, with the
masks of `pack_offset`. All accesses are sequentially consistent, as
`std::atomic` operators without an argument are. The refinement maps the ring
between front and back to the abstract queue; the step that stores the version is
the abstract push or pop.

### Console

`cpc` and `ppc` are the two threads. The console thread polls, moves the pipe to
the terminal, tests `suspended`, reads, locks `intr_mutex`, pushes, notifies. The
processor takes the interrupt at the start of a step, reads and writes
characters, and sleeps in `wait_for_interrupt`, of which every lock, wait,
time-out and wake-up is a step. `signal` may come anywhere in a step, also while
`intr_mutex` is held, and leaves by `longjmp`: SIGINT for the debugger, SIGHUP for
the step, where the guest is reset, SIGTERM and the fatal signals for `shutdown`.
`setjmp` keeps no signal mask, so a signal whose handler has been left stays
blocked (`masked`). `HitBreakpoint` leads to the debugger as well, which suspends
the console and reads the same terminal. `PowerOff`, by the guest, and `shutdown`
end the run. A signal between two steps (in `isr`, the debugger or `shutdown`)
jumps to a `setjmp` whose function has returned or is about to be called; that is
undefined and left out.

### Interrupts

The state is `mstatus`, `mip`, `pc`, mode, the timer's `timecmp` and `claimed`,
the PLIC's `pending` and `served`, and the sources. `isr` runs when `left`, the
rest of the step, is used up. The guest is external: `ctx` is its stack of
handlers, each of which claims, serves, completes and returns. Which bits it
enables and delegates is its `setup`, chosen with the length of a step in the
initial state. `epc` records where a trap came from, so that a return to another
place or mode is seen. `SetTimer` is the guest asking for the next timer interrupt,
one of `Intervals` ticks ahead of what `rdtime` tells it; `isr` compares with the
host's cycles, of which a tick has `CyclesPerTick` (100 in the code).

### SoftMmu

An access is `Access`, `Translate` (mode, TLB lookup, the flag test), one `Walk`
step per PTE, and `UseLeaf` (flags written to the table, TLB insert, rights). The
guest, external, writes PTEs, `sptbr`, `mstatus` and fences; `Guests` says what
kinds of thing each guest does. `past` is a history variable: what each page of
each address space has meant since the last `sfence.vm` of that space; `Meaning`
defines this independently of the walk. A stale TLB entry is thus allowed exactly
as far as the architecture allows it.

### AddressSpace

`kernel` is what each page really holds, `used` the bitmap, `view` what the guest
takes its memory to be from the answers it got: as a libc does, it takes any answer of
`mmap` but `MAP_FAILED` for a mapping, also the 0 of a search that found nothing
(`AnswerZero`; `nought` is how far such mappings reach), and any answer of `brk` that
is not below what it asked for, also -ENOMEM, for success. `Mmap`, `Munmap`, `Brk`,
`Store`, `Amo` are the guest's calls and accesses with the simulator's code behind
them; `BreakHere` is the end of a slice, which reads the pages of remembered stores.

## 3. Properties and runs

Related invariants of a module are checked as one conjunction (`JobsInv`,
`QueueInv`, `ConsoleInv`, `InterruptsInv`, `PlacementInv`, `MmuInv`, `SpaceInv`,
`LoaderInv`); each conjunct is a definition of its own with its own comment.
Every property has at least one mutant in `PROJECT.json`: a plausible slip in a
mapped definition with which the property fails.

| run | instance | what it shows |
| --- | --- | --- |
| `replay_calls` | a guest with read and exit, a compressed store, an atomic and sc | `ReplayFaithful`, `ReplayStopsAtBreak`, `StoreAssertionsHold`, `LogWellFormed`, `Concatenates`: slices that end at an ecall, a new instruction, exit |
| `replay_repeat` | instructions that repeat, with calls between and behind | `RerunFindsBreak`, `ReplayEnds`, and the proofs' invariants `RecordInv` and `ReplayInv` |
| `parse_jobs` | three slices, one or two jobs, two starts, one fault of any kind at any moment | `JobsInv`: one writer per slice while no `main` has died, the pool's bound, only the last slice of a cut log is short; `StatusIsTrue`; `RebuildRepairs`; `KeepsProcessed`; `RunEnds` |
| `queue_pair` | one producer, one consumer, versions that wrap at every second call | `ImplementsFifo` (refinement), `QueueInv`: refusals only at the limit, `size()` keeps its promise; `EverythingArrives` |
| `queue_contention` | two producers | `SidesExclusive`: one thread in the critical section of a side, offsets only advance |
| `console` | queue of 1, pipe of 1, two characters typed, two written, one breakpoint, one signal of any kind | `ConsoleInv`: both streams in order and complete; `TerminalRestored`; `StreamsServed`; `ShutdownEnds` |
| `interrupts` | M or S mode guests, steps of 1 and 4 instructions, two cycles to a tick, one event of each kind and any number of timers | `ReturnsToInterrupted`; `InterruptsInv`: PLIC bookkeeping; `DevicesServed`; `TimerServed` |
| `placement` | every use of three pages of 4 bytes; four pages with two calls | `PlacementInv`: code in holes, stack on its own pages, failure only without room; `NearestPlace`; `PlacementEnds` |
| `soft_mmu` | two levels of two entries, two-entry TLBs, one PTE written: a guest with all accesses, modes and rights; one with two address spaces and superpages | `ReachesMappedPage`, `FaultsOnlyIfDenied`; `MmuInv`: entries were mapped, accessed flags; `WalkEnds` |
| `address_space` | thirteen pages, three mappings of up to two pages, a heap, `mmap` and `brk` refused anywhere | `GuestKeepsItsMemory`; `SpaceInv`: bitmap and kernel agree, first fit; `SliceEndReadable` |
| `loader` | every slice of up to four pages among ten, two compressed lengths | `LoadedIsImage`; `LoaderInv`: disjoint mappings, the loader survives, chunks fit its buffer; `LoadEnds` |
| `own_code` | a guest that reads its own code | expected to violate `ReplayFaithful` (below) |

*Bounds.* In the replay runs `Period` is 1 or 2 and `RepeatDiv` 1, so that slices of
two to four instructions end by each kind of breakpoint; `MaxInst` 5, so that a second
slice follows; two byte values and two hash entries, so that stores collide. In the
others every queue, pool, buffer, TLB and page is small enough to fill up, and every
fault happens at least once: a second start after a failure (`MaxRuns` 2; `MaxFaults`
1, since one fault is what separates a run from the one that finds its remains); the
ring is turned several times (`MaxPush` 8); timers of `Intervals` 1 and 3 are set by a
clock that `isr` takes to be behind or ahead of them (`MaxTime` 3); a mapping fails
for want of room (the third of two pages); a packed chunk is closed by each of its
three limits (`MaxImage` 4). Choices that stay fixed during a run (the guest, the
length of a step, `--jobs`, a cut log) are made in the initial state, so that one run
covers them all.

*Deadlock* is checked except where programs end (`replay_*`, `parse_jobs`,
`loader`), where the simulator may die (`address_space`) and where a signal may
leave the mutex locked (`console`).

*Fairness* is what the host's scheduler gives to a thread that can run, and no
more. `Replay`: weak, of the replaying processor and of parse.py reading the
rerun's lines; nothing of the recorded program. `ParseJobs`: weak, of `main` and
of each worker of the run; a worker that an earlier `main` has left behind may be
held up for any time; nothing of the user. `AtomicQueue`: weak, of the steps of a call
that has begun; strong, of the consumer beginning another pop, which is its
polling. `Console`: weak, of the two threads and of entering the debugger;
strong, of the console thread getting the mutex, for which nobody waits for ever;
nothing of the user. `Interrupts`: weak, of the processor; strong, of a step
beginning at a later time, for the host's cycle counter goes on. `Placement`,
`SoftMmu`, `Loader`: weak, of the program's own steps.

*External.* The guest's handlers and tables (`Interrupts`, `SoftMmu`), the host's
kernel (`AddressSpace`, `Loader`), fastlz (`Loader`) and the replaying machine
(`Replay`) are modelled from how the code uses them.

### Where code and documentation disagree

`own_code` is a run of the project: a load of part of an instruction, then its
fetch; the partial branch of `MemTrace::fetch` (util/fmt.h:275) puts the wrong
byte. The disagreements below were met while modelling. Each is shown by TLC when
the named constant of a passing run is changed, and is the reason why that run
has its value, or why a property has its condition.

| where | what happens | shown by |
| --- | --- | --- |
| emu/processor-impl.h:406 | a repeated breakpoint that writes x0 clears a0 in the replay | `Inst` with a load to x0: `ReplayFaithful` |
| abi/unknown-abi.h:806 | a failing `fstat` zeroes the buffer, unrecorded | `Handlers` with "fstat": `ReplayFaithful` |
| abi/unknown-abi.h:1185 | `mmap` over touched memory, unrecorded | `Handlers` with "mmap": `ReplayFaithful` |
| ckpt/parse.py:365 | `sc` is documented to be replaced by a call, and is not | `ScResult = {FALSE}`: `ReplayFaithful` |
| util/fmt.h:389 | `fcsr` is not among the saved registers | `FrmVal = {0, 1}`: `ReplayFaithful` |
| util/fmt.h:444 | `writev` and nine other handlers leave their log line open | `Handlers` with "writev": `LogWellFormed` |
| ckpt/parse.py:560 | an interrupted worker leaves both files, and the next run skips the slice | the exception for "gone" of `Damaged` in `SuccessMeansProcessed` |
| ckpt/parse.py:431 | an error while the files are written leaves both, truncated; the run fails, but the next one skips the slice and ends with status 0 | the exception for "torn" of `Damaged` in `SuccessMeansProcessed` |
| ckpt/parse.py:682 | an exception of `main` (a cut line at 621-682, the dump at 659, a fork at 605) ends it while its workers go on; the next start writes the same files, also over complete ones and with `--rebuild` | the exception `orphaned` in `OneWriterPerSlice`, `RebuildRepairs`, `KeepsProcessed`, `SuccessMeansProcessed` |
| ckpt/parse.py:202 | the first instruction's page is missing from a cut log: the binary search does not move | `Init` of `Placement` without the entry's bytes: `PlacementEnds` |
| util/queue.h:169 | push_back decides with an old front: with two producers elements are overwritten | `queue_contention` with `ImplementsFifo` and `MaxPush = 5` |
| util/queue.h:261 | offsets that wrap: an empty queue is not recognised | `queue_pair` with `OffsetLimit = 4`: `ImplementsFifo` |
| emu/console.h:159 | with --debug the debugger may restore a mode that was never saved | `DebugStart = TRUE`: `TerminalRestored` |
| emu/processor-priv-1.9.h:991 | a signal's handler jumps out of `wait_for_interrupt` and leaves `intr_mutex` locked. After SIGINT and SIGHUP the next WFI waits for itself; after SIGTERM and the fatal signals (1001-1005) the console thread may stop at console.h:62, and `shutdown` joins it for ever | the exception `Abandoned` in `ShutdownEnds` and `StreamsServed`, and CHECK_DEADLOCK |
| emu/console.h:90 | a thread past the test of `suspended` reads what is typed for the debugger, or blocks in `read` when the debugger was faster, and a shutdown with it | the exception `ReadBlocked` in `ShutdownEnds` and `OutputShown` |
| emu/console.h:77 | the last output before a poweroff may be lost | the condition `Stopping` in `StreamsServed` |
| emu/processor-priv-1.9.h:792 | a supervisor interrupt in an M mode handler returns to S mode | `Setups` with "split": `ReturnsToInterrupted` |
| emu/device-timer.h:61 | a timer that is due while interrupts are disabled never comes | the condition `InstStep >= 4` in `TimerServed` |
| emu/processor-runloop.h:133 | `timecmp`, which the guest computes in ticks of `rdtime`, is compared with host cycles: timers come early, and one that is set after some time is due at once | `CyclesPerTick` above 1, in the run: next row |
| emu/processor-priv-1.9.h:847 | `isr` takes one interrupt a step and tests software last: a guest whose timer is due in every step, as it is by the row above, never gets its IPI | `SoftwareServed` without its premise |
| emu/device-gpio.h:77 | a reset by a store skips the first instruction of the boot code | the address after `ResetByGpio` |
| emu/mmu-soft.h:312 | a store through a clean TLB entry does not mark the page dirty | `AccessedTracked` is said of loads and fetches only |
| emu/mmu-soft.h:226 | with MPRV the rights are those of the current mode | `Guests` with "mprv": `ReachesMappedPage` |
| emu/mmu-soft.h:378 | an invalid PTE is followed as a pointer | `Guests` with "invalid": `ReachesMappedPage` |
| emu/mmu-soft.h:367 | a pointer in the last level: the walk need not end | `Guests` with "loop": `WalkEnds` |
| emu/mmu-soft.h:134 | an instruction across two pages: only the first is translated | `Guests` with "cross": `ReachesMappedPage` |
| emu/mmu-soft.h:223 | machine address 0 is taken for a fault already raised | `Guests` with "zero": `res.how = "silent"` |
| emu/tlb-soft.h:47 | empty entries match the last page of the largest asid | `Asids` with `AsidLimit`: `FaultsOnlyIfDenied` |
| abi/unknown-abi.h:1077 | a heap that reaches GUEST_MMAP_BASE and mappings replace each other | `MaxBrk = 10`: `GuestKeepsItsMemory` |
| abi/unknown-abi.h:1086 | a refused `brk` looks like success to a libc | the exception for `Heap` from `heap_end` on in `GuestKeepsItsMemory` |
| mem/mmap-core.c:224 | a search for room that finds nothing is answered with 0, not `MAP_FAILED`: a libc takes it for a mapping at 0, where nothing is or the guest's own program | the exception below `nought` in `GuestKeepsItsMemory` |
| util/fmt.cc:657 | the end of a slice reads a page the guest has unmapped | the exception `dropped` in `SliceEndReadable` |
| emu/mmu-proxy.h:75 | atomics wrap at memory_top, loads and stores do not | the exception from `MemoryTop` to `nought` in `SliceEndReadable` |
| ckpt/compress.py:76 | a `--max-ratio` above 0.5 lets one page exceed CL_BUF_SIZE | `MaxRatio = 70`, `Lengths` with 5: `ChunkFitsBuffer` |

The first group is also the reason for each condition of `Replayable`
(`ReplayInvariant`): a guest that keeps its code apart from its data, uses only
handlers that report each byte they change, leaves `fcsr` alone, whose `sc` keeps
its reservation in the replay, and whose uncompressed instructions write no x0.
Under these conditions replay is proved to be faithful.

## 4. Proofs

TLC checks one small instance; the theorems below hold for every value of the
constants that meets the assumptions of the modules and the conditions named
here. Each invariant was checked with TLC before it was proved. The constants
of the run that checks a property meet the condition of its theorem; section 3
says what happens without it.

### Recorder and replay

For every guest (no assumption but the types of the constants):

* `TypeCorrect`: `Spec => []TypeOK`, from a stronger invariant `Types` that also
  gives the types of slices, calls and history.
* `SlicesConcatenate`: `Spec => Concatenates`. It needs that while recording,
  `Len(ev) = instret - begin_instret`, and that the last slice ended one
  instruction before the next begins.

Under `Handlers \subseteq LoggedHandlers`: `LogStaysWellFormed`.

Under `Replayable`:

* `TraceIsExact`: `Spec => []RecordInv`. `RecordInv` says of the slice being
  recorded: its events are linked (each starts in the memory and with the a0 the
  one before left); each byte read was touched before, or the trace has it with
  the value that was read; a touched byte changes only where the recorder is
  told; the trace has no byte that was not touched; the counters are the numbers
  of executions; and there is one call per ecall, with its data. For a finished
  slice it adds `BreakOK`: the four bytes of the breakpoint meet no data and no
  instruction of the slice, but ecalls and the repeated breakpoint itself.
* `ReplayFollowsRecord`: `Spec => []ReplayInv`. Before event `rk` the replay's
  memory is the recorded memory on the bytes touched so far, the image on the
  others, and `Jump` on the patched ones; the position in the table is the number
  of traps among the events before `rk`; and in the rerun the collected calls are
  the traps so far, while the remaining count and the position say that the
  breakpoint is not reached yet.
* From the two: `ReplayIsFaithful`, `ReplayStops`, `AssertionsHold`,
  `RerunFinds`.

`ReplayFaithful` alone is not inductive: that the next load is right depends on
what the trace kept of a byte many steps before, on the patches not covering it,
and on the table's position; the invariant says exactly these three things.

`Replay_proofs` has three parts. The first shows what each operator of `MemTrace`
adds and keeps; the second, that appending an event keeps the history well formed
and that each of the four actions appends one (or closes the slice); the third,
that the tables made by `FirstTable` and by the rerun have an entry for each trap,
and that each replay action moves from event `rk` to `rk + 1`.

### Address space

Under `Apart` (the heap's limit is below `GUEST_MMAP_BASE`, hints are addresses of the
mapping area), with `mmap` and `brk` refused anywhere: `GuestKeeps`, `BitmapIsTrue`,
`SliceEndReads`. The three properties are proved together, for each needs the others:
a page is not given away twice because the bitmap agrees with the kernel, and the
bitmap keeps agreeing because the range that `find_free` returns is free. The
invariant adds that the heap is exactly what `brk` mapped, with nothing mapped between
it and the mapping area (`HeapWhole`), what the guest takes for its own although it
was refused (`Believed`), and the bounds of all numbers. An answer of 0 disturbs the
heap too: a guest that unmaps such a mapping may unmap its own pages, which is why the
parts speak of pages from `nought` on. `find_free` is a recursive function over the
pages; what it returns is shown by taking a least, or greatest, page for which the
claim fails.

### Atomic queue

* `PackedWordsFit`: the types, for any number of threads, any widths and any
  number of wraps.
* `CriticalSectionsExclusive`, under `Told` (one consumer; one producer, or
  finitely many with fewer pushes than there are versions). Why a thread in the
  critical section is alone follows from `Counted` (the exchanges of the counter and
  the pushes still to make theirs are at most the calls begun, so the counter does
  not come round), `Informed` (a thread in the section, or whose exchange would
  succeed, holds the current word) and `Settled` (counter and version agree when
  nobody is in the section).
* `CallsServed` and `RingIsFifo`, under `Pair` (one thread on each side, offsets
  that do not wrap during the run). `PairInv` relates the ring to the two threads
  at each of their steps: which slots are filled (`Ring`), what the pusher
  (`Pushing`) and the popper (`Popping`) know of both ends while the other goes
  on. The refinement then maps the store of the version to the abstract push or
  pop, and all other steps to stutters.

### parse.py's jobs

`OneWriter`, `StatusTells`, `RebuildMends`, `CompleteStays` have no condition:
any number of slices, jobs, starts, faults and any cut of the log; the exceptions
are in the properties (section 3). The invariant
has fourteen parts. The important ones: what a worker that ended well left exists
and is complete (`Made`); a partial file is open in a live worker, or was left by
one that broke off (`Torn`); a short file is of the last slice that a
run over a cut log dealt with (`Shortened`), and only a cut log gives a worker less
than a slice (`Given`); a slice behind the position of `main` got a worker or may
be skipped (`Covered`); workers of earlier runs do not run, but for those left behind
(`Generations`); `main` waits for whatever runs, unless it dies, and knows of
whatever failed (`Pool`).

### Console

* `StreamsInOrder`: `Spec => []ConsoleInv`, without condition. The invariant says
  of the four places of a typed character (guest, queue, buffer, terminal) that
  each is in order and each before the next, and that they and the refused or
  intercepted characters are a partition of what was typed; likewise for output.
  It needs from the control state that the buffer is empty whenever the thread
  reads (`Places`), and that nothing is in the pipe before it exists.
* `ModeGivenBack`, under `DebugStart = FALSE`: the mode saved by
  `configure_console` is the original one whoever calls it, since the debugger
  restores before it configures again.

### Interrupts

* `PlicMarksServed` for every guest: until a reset, `served` is the line of the
  handler at work. The invariant `Nested` says why there is at most one: behind
  the application there is at most one handler for each mode, and its mode's
  interrupts are disabled exactly while it is there, with `mpie` or `spie` set.
  With the types it is the `InterruptsInv` of the run.
* `TrapsReturn`, under `OneMode` (interrupts go to M mode or to S mode, not to
  both): `Placed` says that the saved place and mode are those of the frame below.

### Soft MMU

* `EntriesAreMapped`: `Spec => []MmuInv`, under `TablesTidy` (guests that write no
  rightless, nonzero PTE and no pointer in the last level: "invalid" and "loop").
* `AccessesReachMappedPages`, under `AccessesTidy` (also no "mprv" and no "cross").
* `FaultsAreDeserved`, under `AccessesTidy` when no address space has the asid of
  the empty entries, `AsidLimit`.

Section 3 shows the counterexample without each of these conditions. The invariant
relates three views of a page: what the tables say of it (`Meaning`, a recursive
function over the levels), what it has meant since the last fence (`past`), and what
the code has found out so far. `Tree`: the only pointers lead from the first root to
its second table, and all other PTEs without rights are zero, so that a walk ends at a
leaf or at a zero PTE. `PastNow`: what a page means now is in `past`.
`EntriesWereMapped`: each TLB entry is what `past` has of its page. `OnPath` is the
key to the walk: the page means what the rest of the tables, from the PTE that the
walk has come to, says, whatever accessed and dirty flags are set; each `Walk` step
keeps it, since the guest writes no PTE during its own access, and `UseLeaf` turns it
into an entry and a result. `EntriesAccessed` (a used entry has its accessed flag) is
what `AccessedTracked` needs.

### Placement

`CodeIsPlacedApart` (`Spec => []PlacementInv`) and `PlacesAreNearest`
(`Spec => NearestPlace`) have no condition: any use of any number of pages, any
number of calls. The invariant relates the free list, which the code searches, to
the bitmaps, which the properties speak of: `ListOk` (holes in ascending order,
apart from each other), `ListFree` (no used byte in a hole) and `ListComplete`
(each free range before the last used byte is in one hole). `make_free_list` establishes the
three and each reservation, which cuts a hole, keeps them. `Searched` is the loop
invariant of the binary search: holes below its lower end are before the caller,
holes above its upper end behind it. The place returned is then the best of two
neighbours, and `ListOk` makes it the best of all; a search without result means,
by `ListComplete`, that there is no room. That the holes sorted by address are the
same holes is shown by induction over their number.

### Loader

`LoaderSurvives` (`LoaderSpec => []LoaderInv`) and `SliceIsLoaded`
(`LoaderSpec => []LoadedIsImage`), under `Limits`: compress.py's maximal length and
its maximal ratio of a page fit `CL_BUF_SIZE`, and the ratio is below one. The
defaults of the tools (2048 and 0.3, a buffer of 2048 bytes, pages of 4096) meet
them. The last is needed: a chunk as long as its pages would be taken for plain by
`map_pages`, which tells the two apart by their lengths only.

The parts of the invariant follow the data through the tools. `Packing` and
`Writing`: the chunks are ascending runs of pages, and each page of the slice is
pending, in a chunk, or described by a line already written. `Lines`, `Data`,
`LinesApart`, `OffsetsGrow`: each line of the `.cfg` describes a run of pages
whose data, as far as the `.dump` reaches, is found at the line's offset; no two
lines meet. `DumpWhole`: until the `.dump` is closed, the data of each line is all
there. `Complete`: a `.cfg` that the loader accepts, whatever a killed
compress.py left, describes all of the slice. `Mapping`: each line is loaded or
still to be mapped. `Placed`: the loader's own pages meet no line. Offsets and the
loader's position are recursive functions over the lists (`Length`, `Bump`); the
lemma `Steps`, on values that follow each other, says what they give.

### Only model-checked

Liveness (`ReplayEnds`, `RunEnds`, `EverythingArrives`, `StreamsServed`,
`ShutdownEnds`, `DevicesServed`, `TimerServed`, `PlacementEnds`, `WalkEnds`,
`LoadEnds`): fairness and ENABLED are out of the prover's reach. Every invariant
and every action property of the passing runs is stated by a theorem, under the
conditions above.

The library's induction theorems have an operator as parameter, which the
installed provers cannot instantiate. Where a proof needs induction (over a list,
the levels of a table, a fold), the claim is made a set of
numbers: its complement has a least element, or `SetInduction` shows that it is all
of `Nat`.

## 5. Not modelled

* **Instruction semantics, decoder, assembler, model and generators** (`asm/`,
  `gen/`, `model/`, `emu/interp*.h`): most of the repository's lines, generated
  or tabular, pure functions of one instruction. In the models what an
  instruction computes is any value, which covers every result.
* **JIT** (`jit/`): emits x86-64 code; the emitters are a table of encodings. The
  checkpoints are recorded by the interpreter only.
* **Devices that are plain registers** (ROM, configuration string, random
  numbers, HTIF, RTC): no interaction but a read or a write.
* **Debugger commands, histograms, cache model, ELF, strings, tests, command
  lines**: sequential inspection, statistics and file formats.
* **Data paths of the loader**: fastlz and `collect-simpoints.py`.
* Of modelled parts: read of time and cycle counters in a replay; mprotect, the
  levels of the page bitmap and the interception of the simulator's own `mmap`;
  misaligned accesses and causes of faults; lifetimes of C++ objects at exit.
* **Undefined jumps**: a signal between two steps of the processor thread (in `isr`,
  the debugger or `shutdown`), whose handler jumps to a `setjmp` that is not active.

## 6. Plan

Done: the modules, their runs, and the proofs of all their safety properties.
What remains is what these tools do not reach: the liveness properties stay with
TLC, and the conditions of the theorems stay as long as the code behaves as
section 3 says; a change of the code that mends one of those lines should remove
the condition that names it. Of section 5, the page bitmap's levels with
`mprotect` would be the next part to model.
