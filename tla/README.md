# A TLA+ development of symex-vp

symex-vp is a concolic testing engine for embedded RISC-V software: a SystemC/TLM
virtual prototype executes the unmodified binary once per path, with inputs that the
software declares symbolic, and a solver finds the inputs of the next path. This
directory holds TLA+ models of its parts, the TLC configurations that check them, and
theorems about them that TLAPS has checked. `PROJECT.json` lists the same things for
tools: the runs with the properties they check, the source lines that each definition
translates, a mutation of the code that breaks each property, the hazards the properties
are aimed at, the findings and the theorems.

All source paths below are relative to `src/vp/src/`.

## 1. The system

### Components, their state and operations

| Component | State | Operations | Hard because |
|---|---|---|---|
| Path exploration (`symex/symbolic_explore.cpp`) | branch trace, counters, test case directory, run mode | run a simulation, count a path, dump a test case, negate a branch, SIGALRM, replay a test | any order of negations; the solver may give up, the alarm may strike anywhere, the disk may fail, and one simulation may crash |
| Symbolic inputs (`symex/symbolic_*.cpp`, `platform/symex/symex_sensor.cpp`) | named symbolic values, byte-wise symbolic memory | make symbolic, read, write, end a path | value widths, endianness, aliasing |
| Instruction set simulator (`core/rv32/iss.cpp`) | registers, pc, CSRs, privilege, status | one step: execute, take an interrupt or a trap, update time | interrupts arrive between any two instructions; delegation; WFI |
| Control and status registers (`core/rv32/csr.h`, `iss.cpp`) | one word or counter per register | the six CSR instructions, counters | about a hundred addresses mapped by hand to registers, views and masks; rights by mode |
| Decoder (`core/common/instr.cpp`) | none | decode a 32 bit word, expand a 16 bit word | nested switches, immediates gathered bit by bit, two word sizes |
| Data path (`core/rv32/iss.cpp`, `mem.h`) | registers and memory with a concrete and a symbolic part, path condition | one action per kind of instruction | the symbolic part must be right for inputs other than the one that runs |
| Atomics (`platform/common/bus.h`, `core/rv32/mem.h`) | bus lock, LR/SC reservation and window | LR, SC, AMO, loads, stores, peripheral writes | several processes wait for one lock |
| PLIC (`platform/common/fe310_plic.h`) | pending, priority, enable, threshold, line | trigger, run, claim, complete, configure | a delayed notification between trigger and line; software interleaves claim, complete and configuration |
| UART (`platform/common/abstract_uart.cpp`, `uart.cpp`) | two FIFOs, two semaphores, watermarks, stop flag | register accesses, transmit thread, receive thread, interrupt method, stop | three host threads, shutdown with blocked threads |
| CLINT, host time (`core/common/real_clint.cpp`, `timer.cpp`) | mtime, mtimecmp, msip, one host thread per hart | register accesses, timer threads, interrupt method, destructor | cancellation of a thread at any point, rounding, 64 bit products |
| CLINT, simulation time (`core/common/clint.h`) | mtime, mtimecmp, msip, one event | register accesses, run | harts are ahead of simulation time by different amounts |
| MMU (`core/common/mmu.h`) | TLB, page tables in memory | translate, flush | stale translations, A/D updates |
| Bus, memory, register maps (`platform/common/bus.h`, `memory.h`, `util/memory_map.h`, `core/common/dmi.h`) | port ranges, RAM | route, read, write | boundaries of ranges |
| GDB stub (`core/common/gdb-mc/`) | connection, stopped harts, breakpoints | packets, run, step | a host thread that shares the harts with the simulation |
| SLIP (`platform/common/slip.cpp`) | packet buffer, decoder state | encode, decode | escapes across reads, buffer growth |
| HiFive peripherals (`platform/hifive/`) | register files, GPIO and CAN and display state | register accesses, SPI bytes, pin changes from a socket | edge detection, a server thread |
| ELF loader, options, timing models | none that survives | pure functions and start-up | — |

The parts interact as follows. The exploration runs one simulation at a time in its own
process and looks at the solver's trace when it ends. Inside a simulation everything that
is a SystemC process (harts, `run` threads, methods) is scheduled cooperatively by one
kernel thread; a hart runs ahead of the kernel's time for a quantum and then
synchronises. Harts reach peripherals by blocking transactions over the bus, which run in
the hart's own process; peripherals reach harts by calling
`trigger_*_interrupt`, which sets a bit of `mip` and notifies `wfi_event`. Only the UART,
the host timers, the GPIO server and the GDB server have host threads; these reach the
kernel through `AsyncEvent`, whose request the kernel turns into an event.

### What is hard to test

The `hazards` of `PROJECT.json` name each place, at its line. In short: a trigger that
comes within one clock cycle of a claim or a completion; what a host thread does between
another thread's check and use; shutdown while a thread is blocked on a semaphore; a
timer that is replaced while it calls back; the roundings of the two clock conversions;
the order of branch negations in which a path could be lost or run twice; crashes, signals
and disk errors in the middle of a test case; interrupts and delegation between any two
instructions with any values of the CSRs; a hart that is descheduled with the bus lock; one
wrong line among the tables of the decoder and the CSRs; an instruction whose symbolic result
is right for the input that runs and wrong for another; and a debugger that sends packets,
hangs up or reconnects while the hart runs.

## 2. Modules

| Module | Models | Composed from |
|---|---|---|
| `SymbolicExplore` | `explore_paths`, `run_test`, test case files, signals | |
| `PathCoverage` | abstract: cover a set of paths, each once | |
| `SymbolicExploreRefinement` | the refinement mapping between the two | both |
| `Plic` | `FE310_PLIC` with a hart's handler and configuring software | |
| `AbstractUart` | `AbstractUART`, `UART` and the interrupt handling software's view | |
| `ByteChannel` | abstract: a bounded lossless FIFO | |
| `LrSc` | `BusLock`, LR/SC/AMO of several harts, a DMA peripheral, a debugger | |
| `MCLrScLoop` | harts that execute the constrained LR/SC loop | `LrSc` |
| `IssTrap` | interrupts, exceptions, delegation, trap CSRs, WFI, MRET, the run loop | |
| `MainProgram` | abstract: what a program may assume while it is interrupted | |
| `MCNestedHandlers` | a main program with a nesting trap handler | `IssTrap`, `MainProgram` |
| `RealClint` | `RealCLINT` and the `Timer` threads | |
| `Clint` | `CLINT` and the local times of its harts | |
| `Concolic` | the instructions on concolic values, symbolic memory, control peripheral, sensor | |
| `MCConcolic` | one plain RISC-V machine per input beside it | `Concolic` |
| `Instr` | the decoder and the expansion of compressed instructions | |
| `MCInstr` | the tables of the RISC-V manual beside it | `Instr` |
| `Csr` | the CSR file, its rights and the CSR instructions | |
| `MCCore` | the decoder's words, and firmware and software that access every CSR | `MCInstr`, `Csr` |
| `GdbServer` | the GDB stub's threads, packets, runner, and the debugger | |
| `SymbolicExecutionProofs` | theorems about the exploration and the data path | `SymbolicExploreRefinement`, `MCConcolic` |
| `CoreProofs` | theorems about the GDB stub and the CSRs | `MCGdbServer`, `MCCore` |
| other `*Proofs` | lemmas and theorems | the module they name |

`MC*` modules without a row of their own give constants their values and choose the software:
`MCIssTrap` runs one of several kinds, each with its own CSRs and values.

**SymbolicExplore.** The program under test is a constant: its inputs, the branch sequence
of each input and how each run ends. `executed` is the set of recorded paths, `refuted`
the negations the solver answered with unsat; `cur` is the input of the current run.
`StartSimulation` .. `CountPath` follow one iteration of the loop, with the file
operations as steps of their own, because a crash, a full disk or SIGALRM may come
between any two. `NegateSat`, `NegateUnsat` and `NegateTimeout` are one query of
`setupNewValues` (external: the solver library is a submodule that is not in the tree), in
any order of branches. `RunTest` replays a test case file. `Sigalrm` ends the process
with `_Exit`.

**Plic.** One action per callback: `gateway_trigger_interrupt` (record and notify after a
clock cycle), `run`, the claim (`pre_read_hart_config`) and the completion
(`post_write_hart_config`) together with the handler that makes them, and the three
writable registers. `hart_get_next_pending_interrupt` is defined by what it returns.
`QuietConfig` says that drivers reconfigure only sources that are not pending;
`LoopingHandler` that a handler may claim again before it returns.

**AbstractUart.** Each host thread is a program counter (`txthr`, `rcvthr`, `main`);
each step is what happens between two operations that other threads can see: a semaphore,
the mutex, the pipe, the asynchronous event. Bytes are numbered in the order in which they
enter, so the FIFO contents tell loss, duplication and reordering apart. `known` is what
the last access of the software told it, until its next access. `Burst` is the number of bytes one `handle_input`
pushes: one for `UART`, more for `SLIP`.

**LrSc.** `running` is the process the kernel runs; processes give way only where the code
calls `wait`. A hart's state is its LR/SC counter, its reservation and whether the address
register is still the object that LR_W saw (`kept`), since `atomic_store_conditional_word`
compares pointers. `intruded` records that somebody else wrote the reserved word. With
`debug_mode` a debugger stops harts between any two instructions. EBREAK ends `run()` with or
without one: `run()` synchronises unconditionally, with the lock if the window is open, and without a
debugger the direct runner then throws, which ends the simulation (`Ebreak`, `Abort`).

**IssTrap.** The state is the privileged state of one hart. One action per kind of
instruction that matters to it: plain, jump, fault, ECALL, EBREAK, CSR access, WFI, MRET,
unknown opcode, exit; each is a whole `run_step`: execute, then take an interrupt, or on
a trap enter the handler *without* looking for interrupts. `Lines` are the calls of the
interrupt controllers, at any time. CSR writes apply the masks of `csr.h`. SRET and URET
are not in the code's `exec_step` and not in the model. Registers, memory and the data path are
abstracted: a jump goes anywhere the code's masking allows.

**RealClint.** `now` is the host's clock, which advances at any time (external). The
SystemC thread is `kernel`: a write of `mtimecmp` is two actions, since `timer->pause`
joins the timer thread in between. The timer thread sleeps in chunks of `US_MAX`, ends at
a cancellation point when it is cancelled, or reaches the callback, which is not one.
Ticks, microseconds and registers have their widths.

**Clint.** Actions are steps of the SystemC kernel. `ahead` is the local time of a hart.
Each access carries `time + ahead` plus its own delay, but takes effect immediately.
`irq_event` is the delay of the one notification an `sc_event` can have pending. `written`
records that software wrote `mtime`, which the register allows: `PendingIsDue` is
conditioned on that. `pre_read_mtime` stores the reader's own time, so two readers out of
step can set the register back.

**Instr.** A 32 bit word is the record of the six fields of the R format; the accessors of
`Instruction` select and combine them. `Encoding` is the table of masks and encodings of
`instr.cpp`, `decode_normal` follows the switches and ends, as the code does, with the
match against that table. A 16 bit word is a number; `decode_compressed` and
`expand_compressed` give the instruction with its operands. `MCInstr` holds the tables of the
compressed extension in the manual's notation of scattered bits.

**Csr.** A value is the set of its one bits, so a mask is an intersection. `register_mapping`
is the code's table of addresses and storage; `get_csr_value`, `set_csr_value` and the rights
check follow their switches, with the views of `mstatus`, `mie` and `mip` and the two halves of
the counters. A trap is an outcome here; what it does is in `IssTrap`.

**Concolic.** A symbolic expression is modelled by its meaning: the value it has for each of
finitely many inputs, with point 0 for the concrete part. The operations of the value
library (external) are therefore pointwise, and what is checked is how the code composes
them. `traced` is the set of inputs that satisfy every traced condition; `concretised` the
set that agrees with the current one on the values of which the code uses the concrete
part alone without a constraint. One action per kind of instruction; loads, stores and
AMOs go through the memory interface, the address decoding of the bus and the devices, with
their faults. Words keep four bytes; bytes are scaled to `CHAR_BIT` bits.

**GdbServer.** Four actors: the debugger, the host thread `serve`, the SystemC process
`run` and the runner of the hart. The mutex is locked by the host thread for each packet and
unlocked by the SystemC process that has served it. Each packet handler is an operator with
the effect the code gives it on the stub, the hart and the connection; contents of registers
and memory are left out. The debugger may send any packet at any time, hang up and reconnect,
also before the simulation begins (`Start`).

## 3. Runs

Passing runs:

| Run | Shows |
|---|---|
| `explore` | Over five programs with nested branches, an infeasible branch, failing and crashing paths and inputs on which nothing depends, in every order of negations and with every setting of the environment variables: a finished exploration without given-up queries has covered everything, every error (and with SYMEX_DUMPALL every path) has a complete test case unless writing failed, replaying a test case reproduces its path's outcome, exploration ends, and it implements `PathCoverage`. |
| `plic` | Three sources, priorities 0..2 and one illegal value: no interrupt is lost or spurious, the completion's assertion holds, every pending deliverable interrupt is served. |
| `uart` | FIFO depth 2, three bytes each way, all watermarks and enables: both directions implement `ByteChannel`, the semaphores agree with the FIFOs, so no thread takes from an empty or overfills a full one; what the software read stays true until its own access; a watermark condition is signalled or about to be; accepted bytes leave; shutdown joins both threads. |
| `lrsc` | Two harts, two words and a peripheral, with and without a debugger: a successful SC_W is atomic with its LR_W and constrained sequences succeed; without a debugger a process waits for the lock only if its holder executed EBREAK inside the window, and a hart that goes on releases it even if it spins on LR_W. |
| `iss` | Interrupts and exceptions with their delegation, CSR writes by every mode, vectors, return addresses and the views of `mstatus`: no wake-up is lost in WFI, lower modes cannot change machine mode's state, except that their MRET may set `mstatus.mie`, privilege rises only into a trap handler. |
| `nested_handlers` | Three interrupt sources, a restartable fault and handlers nested three deep: the machine implements `MainProgram` for what is interrupted; a main program in supervisor mode cannot hold off an interrupt of machine mode. |
| `clint_host` | Ticks of 3 µs, sleeps of at most 4 µs, comparands in halves: no timeout is lost to rounding, chunking or cancellation and each arrives; no early or stale interrupt. |
| `clint_sim` | Two harts out of step that write every register: a timeout is at most a tick late, a pending interrupt is due or about to be withdrawn. |
| `instructions` | The decoder returns an instruction exactly when its encoding matches, for RV32 and RV64; every 16 bit word becomes the instruction and operands that the tables of the manual give it. A CSR instruction that traps has no effect on the CSRs or `rd`, and a write changes only the register it names and its views, in bits that the writer sees. |
| `concolic` | Programs that make memory symbolic or read the sensor and then execute any two instructions: for every input that satisfies the trace (and agrees on the concretised values) a plain machine has the registers, memory, pc and outcome that the symbolic state claims, and one that satisfies the trace leaves the path only at a concretised value. |
| `gdb` | Two debuggers one after the other: packets are handed over one at a time and belong to the open connection, they find every hart stopped, and each is served or the process ends, except a packet read before the simulation began and the resumption of a hart that ended. |

One run exhibits a disagreement with a comment of the code (see `findings`):

| Run | Shows |
|---|---|
| `lrsc_loop_recompute` | SC_W compares the identity of address values: a loop that recomputes its address register never ends. |

The type invariants of the proved modules, `UniquePathsFound`, `FirstErrorIsLast`,
`EipMirrored`, `FetchIsAligned` and `NoLateCallback` are theorems for every value of the
constants (section 4), and no run repeats them.

### Bounds

Bounds are constants with names. What they must let happen: a FIFO that is full with one
more byte waiting (`Depth` 2, `MaxTx` and `MaxRx` 3); sources with equal and different priorities,
and the unusable source 0 (`NumberInterrupts` 4); a window that expires and one that does
not (`Window` 4 instead of 17: only being inside or outside, and the last instruction
inside, matter); a sleep in several chunks and a comparand that is not a multiple of the
chunk (`US_MAX` 4, `DIVIDEND` 3); nesting one deeper than a handler that interrupts a
handler (`MaxDepth` 3); harts whose local times differ by more than a tick (`Quantum` and
`scaler` 2). `MaxTime` bounds clocks: in `RealClint` its last value stands for
all later times, since a sleeper is released there; in `Clint` comparands are reached
before it. Clock widths are shrunk (`HalfWord`), and the
products wrap at the shrunk width, as the 64 bit ones do. `iss` runs three kinds of
software, each of which writes a few CSRs, instead of one that writes them all; its address
space of four bytes tells aligned from misaligned and little else, and
`nested_handlers` has the vectors and a space of 256 bytes. Two harts in `lrsc` and
`clint_sim` are enough for one to interfere with the other; the theorems about `LrSc`
and `RealClint` hold for any number.

`instructions` tries every opcode the decoder has a case for and two it has not, every
`funct3`, every `funct7` where the opcode has that field, the `rs2` values that encodings
name, and zero and nonzero `rd` and `rs1`, on which alone the masks depend; and all 65536 half
words. Of the CSRs it tries all named addresses, both ends of each array and
addresses that no table has, from a state in which firmware wrote zeros, ones, even or odd
bits to every register: masks treat bits independently, and the rights depend only on the
address, the mode and single bits; one instruction then follows (`MaxInstrs` 1), and the theorems say
that more change nothing. `concolic` has 8 bit words of four 2 bit bytes, six inputs at the
edges of the signed and unsigned ranges, and every pair of instructions after each of six
prefixes: one instruction to produce a value or write memory and one to use it; `MaxReads` 4 is more values of the sensor than that reads. `gdb` has one
packet in flight besides the one served, which is as many as the mutex lets the host thread
hand over, and two sessions, so that one can end with work of the other left.

### Fairness

* Exploration: the process goes on (WF of its steps). Termination needs no fairness of the
  solver: each query excludes a negation, also one that is given up.
* PLIC: the kernel delivers a scheduled notification; a hart with an enabled pending
  interrupt enters its handler and the handler finishes. Nothing is assumed of devices or
  of configuration.
* UART: the host schedules threads that can run; the kernel runs a requested event. No fairness of input
  or of the software's accesses.
* LR/SC: a dispatched hart executes; one that executed EBREAK is set apart in `LockIsReleased`. In the loop module every hart is dispatched again
  and again (strong: it is not runnable while another one runs), which the kernel's
  time-ordered queue of quanta gives.
* Traps: `nested_handlers` assumes that delta cycles happen and that a running hart goes on
  (weak). For arbitrary software that would not do: `run_step`'s `catch` path skips the
  interrupt check, so a program that takes a delegated trap at every instruction keeps
  interrupts out.
* CLINT, host time: threads and the kernel are scheduled. That time passes is not assumed;
  `TimeoutArrives` speaks of the last value of the clock.
* CLINT, simulation time: safety only. `Punctual` says when the event comes.
* GDB: the host thread, the server process and the runner's last step go on when they can
  (weak). A running hart stops only if it was asked for a single step or a breakpoint is set on its way;
  nothing is assumed of the debugger, which may be silent for ever.
* Decoder, CSRs and data path: safety only.

Deadlock checking is off where the system may stop: an ended exploration, a joined UART,
a destroyed CLINT, a stub that ended or waits for ever, and where a bound on time or bytes is used up.

### Assumptions on the software

They are constants or guards and therefore visible: the traced branches are the only
input-dependent control flow of a program (`IsProgram`); drivers do not reconfigure a
pending PLIC source (`QuietConfig`) and return after a completion (`~LoopingHandler`); the
UART driver sets watermarks before it enables them (`CntBeforeIe`); `mpp` is written with
legal values (`StatusValues`); comparands of the simulation-time CLINT do not overflow
(`NoOverflow`, asked for in `clint.h`).

### What the code does at the edges of these assumptions

Met while modelling, and kept in the models as the code has it. No run exhibits these: the
runs assume the software that avoids them, or their properties leave the case open.

* PLIC: a handler that claims again before it returns (`LoopingHandler`) can reach
  `assert(hart_eip[idx])` (`fe310_plic.h:192`) with the line down. Configuring a pending source
  notifies nobody.
* LR/SC: an EBREAK between LR_W and SC_W gives up the processor with the bus locked (`iss.cpp:2004`);
  other processes then wait until the debugger lets the hart go on, or the simulation ends.
* Traps: the reserved value 2 of `mpp` becomes the privilege level at the next MRET, and a doubly
  delegated exception then fails the assertion of `prepare_trap` (`iss.cpp:1788`). `AssertHolds`
  is the theorem for legal values. MRET is not checked against the mode (`iss.cpp:1257`): below machine mode it
  jumps to `mepc` in user mode and sets `mstatus.mie`, and, since `mpie` and `mpp` then have the values that MRET
  gives them, nothing more (`MachineStateIsProtected`). The `catch` path of `run_step` skips the interrupt check.
* Decoder: the HINT with `rd` = 0 and `rs2` nonzero in the row of C.EBREAK is decoded as C_EBREAK;
  C_SUBW and C_ADDW are returned for RV32 too and end as unknown opcodes; C_ADDIW expands with
  the encoding of ADDI under its own opcode; C_NOP becomes an ADD to x0. The reference
  table of `MCInstr` says where it follows the code in these cases.
* CSRs: reading `cycle` returns what the last read of `mcycle` sampled, although a comment
  (`csr.h:366`) speaks of a shadow; a write of
  `mcycle` or of `mtime` is overwritten at the next read; a write of `minstret` is followed by the increment
  of the instruction itself, and instructions that trap are counted.
* Data path: addresses, jump targets, CSR writes and device registers are concretised
  without a constraint. An input that satisfies the trace and differs on such a value can
  leave the path, and the exploration, which knows only the trace, counts the path as covered for it.
  `concretised` makes that visible, and the properties of `concolic` are conditioned on it. Compressed
  instructions and the fetch from memory (`iss.cpp:182`) are not part of that module; `make_symbolic` of an
  address of a device would write to the device over the bus, and is left out.
* GDB: `vCont?` announces `C`, which throws; `g`, `m` and `M` for a thread that does not exist
  end the process through an exception; writing to a connection that hung up may raise
  SIGPIPE; `vCont` on a hart that ended, also as the second of two actions for all threads, waits for
  ever. The mutex is unlocked by another thread than the one that locked it. The constructor starts the host
  thread (`gdb_server.cpp:78`): the event of a packet that is read before `sc_start` is delivered by the
  initialization phase of the kernel, before `run()` first waits (line 312), so nobody serves the packet and the mutex
  stays locked (`missed`). `fclose` in `dispatch` and `close` in `serve` close the same descriptor
  twice; that the number belongs to somebody else by then is not modelled.
* Exploration: the stream of a test case is not checked after the write (`symbolic_explore.cpp:89`). The model
  lets the opening of a file fail, not the write: a full disk would leave a cut-off file and no message.
* CLINT: while `lr_sc_counter` is not 0 a hart does not synchronize at the end of its quantum
  (`iss.cpp:1950`); `Clint` bounds local time by the quantum and one access. Its harts may synchronize
  earlier, and its theorems hold for every `Quantum`, so also for one that includes those instructions.

## 4. Proofs

Each theorem holds for every value of the constants that satisfies the module's named
assumptions. The form is always the same: an inductive invariant that is checked with TLC
first, one step per action, and a temporal conclusion.

* **SymbolicExecutionProofs**, path exploration: `TypeCorrect`, `UniquePaths`, `ErrorIsLast`, `Completeness`,
  `Refinement`. The invariant `Inv` adds to the types: the current input's path is new
  (`Fresh`), the counters equal the cardinalities of what has been executed (`Counted`,
  `ErrorsCounted`), refuted negations have no solution (`RefutedSound`), and what each end
  of the process implies (`Ended`, `ErrExit`). Completeness is the interesting one: if a
  feasible path were missing, take an executed path that agrees with it longest
  (lemma `Greatest`); the branch where they part is an open negation, which contradicts the
  end of the loop. `Refinement` proves the safety part of `PathCoverage`.
  `TestCasesStay` and `ReplayIsFaithful` are about the files and need an invariant of their own,
  `FilesInv`: what a phase says about the outcome of the run (`Reported`), that a file's kind agrees
  with the outcome of the values in it (`KindIsTrue`), that the names that `paths_found` and
  `errors_found` give to the next files are not in use (`Unused`: without it a later path
  could overwrite a test case), which file is being written (`Writing`, `OthersComplete`), and that an
  error is on disk before its path is counted (`DumpedBeforeCounted`).
* **PlicProofs**: `PlicTypeCorrect`, `Mirrored`, `AssertionHolds` (for handlers that do not
  loop), `NoLostWakeup` (for a quiet configuration), `NothingSpurious` (for both). The selection function is
  characterised by lemmas once, instead of being expanded. `NothingSpurious` needs that the line
  stays up from the interrupt to the completion (`LineUpInHandler`) and that,
  until the handler claims, a line that is up has something to claim (`RaisedForSomething`).
* **AbstractUartProofs**, for any depth of the FIFOs and any bytes: `UartTypeCorrect`,
  `SemaphoresCounted`, `Knowledge`, `NoInterruptLost`, `TxRefines`, `RxRefines`. The invariant is an exact count
  that holds between any two steps of the threads: what `txfull` counts, plus the byte whose post is due, plus the byte that
  the transmit thread has been let through to take, is the length of the FIFO (`TxCounted`), and likewise for
  the free slots (`RxCounted`), where `stop_threads` opens one slot more than there are (`Slots`). The
  refinements are proved step by step: each action is a step of `ByteChannel` or leaves
  the mapped channel unchanged. `NoInterruptLost` assumes `CntBeforeIe`, that software writes `txctrl`
  only while the transmit interrupt is disabled; without it the property is false (section 3, the
  watermark that is raised).
* **LrScProofs**: `LrScTypeCorrect`, `Atomicity`, `ConstrainedSuccess`, `WaitsForEbreakOnly`.
  The invariant: a reservation implies that the lock is held (`HeldInWindow`), a held
  lock that nobody intruded (`NotIntruded`), and a constrained sequence is still inside the window
  (`ConstrainedHolds`). Without a debugger it is extended by `HolderRuns`: the holder of the lock is running or
  stopped for good, and only in the latter case does anybody wait.
* **IssTrapProofs**: `IssTypeCorrect`, `FetchAligned`, `WakeupNotLost`, `PrivilegeRises`,
  `MachineStateProtected`; for software that writes legal `mpp`, `AssertHolds` and
  `PrivilegeFalls`; and for the software of `MCNestedHandlers`, `Transparency`: it implements `MainProgram`, for
  any depth of nesting, any interrupts and exceptions, and a main program of either mode, with
  interrupts enabled or not. Its invariant `NestInv` says for each place of the software which context is where
  (`Booting`, `InProgram`, `AtEdge`, `AtWork`): at the edges of the handler the context it will
  return to is in `mepc` and `mstatus`, in between it is on the stack, and in each frame the interrupt enable is off, which is
  why restoring `mstatus` before `mepc` is safe. The context is the main program's exactly if the stack below is
  empty. That a trap, an interrupt after any instruction, and MRET keep this and change nothing that the main program sees is
  proved once (`TrapKeeps`, `CheckKeeps`, `ReturnIs`) and used for every instruction. `MainAssumption` includes that
  the software fits into the address space.
* **RealClintProofs**: `ClintTypeCorrect`, `NoEarlyInterrupt`, `TimeoutNotLost`,
  `NoCallbackAfterEnd`. The invariant relates the thread's state to the timers the kernel
  knows (`Owned`, `Listed`, `Pausing`), says that `mtime` read before the join is not in
  the future (`Sampled`), that a raised line is due (`Raised`), and, for a thread on its
  way, that the microseconds it has slept and has yet to sleep reach the first
  microsecond of the comparand's tick (`Timed`), which is where the rounding is dealt with.
* **ClintProofs**, for any number of harts, width, scaler, quantum and access time: `ClintTypeCorrect`,
  `TimeoutsArePunctual`, `NoEarlyInterrupt`. The invariant bounds how far a hart is ahead of
  the kernel (`WithinQuantum`) and says that `mtime`, unless software wrote it, is a
  tick that some hart has reached (`MtimeReached`); the properties themselves are inductive relative to it. The
  lemmas about `Front`, the latest local time, carry the argument: it never goes back, and an access
  is never later than it.
* **CoreProofs**, GDB stub, for any packets and any number of sessions: `PacketOwnership`, `HartStandsStill`, `EventIsPending`.
  `PacketIsOwned` is not inductive: it also takes that the mutex is locked exactly
  while the host thread parses or a packet is queued (`Handover`), and that the event is pending exactly for a
  packet that `run()` has not taken up, unless it was missed before the simulation began (`Announced`).

* **CoreProofs**, control and status registers, for any addresses, values, times and number of
  instructions, after any configuration by firmware: `CsrTypeCorrect`, `TrapHasNoEffect`, `WritesAreConfined`. The type
  invariant suffices; the work is in the tables. `ReadForm` and `WriteForm` bring the switches of `get_csr_value` and
  `set_csr_value` into one form (a register, a mask and an offset per address), `WriteShows` says what a write in that form
  shows through every other address, and `OneInstruction` adds the counters, which a trapping instruction samples and
  counts as well.
* **SymbolicExecutionProofs**, data path: `RegistersFaithful`, `MemoryFaithful` and `PathDetermined`, for every width
  of a byte, number of registers, layout of memory and devices, list of inputs, prefixes and set of instructions. None of
  the three is inductive alone: a register is right because memory was, memory because the address was, and the path
  because all were. `FaithfulInv` therefore holds the simulator to one reference machine per followed input:
  the followed inputs are those in `traced` and `concretised`, the current input is one of them (`Domain`), the point of each
  shows its whole machine (`Tracks`), and point 0, the concrete part, shows the machine of the current input
  (`TracksCurrent`). `Mirrors(p, i, m)` is the relation: point `p` shows the machine `m` of input `i`. Each kind of
  instruction has a lemma (`ArithmeticStep`, `DivideStep`, `JumpStep`, `BranchStep`, `LoadStep`, `StoreStep`, `AmoStep`,
  `CsrStep`) that a point in the relation stays in it if the input is still followed afterwards; used at `p = i` and at
  `p = 0`, it serves both parts. `CurrentStays` shows that nothing the code traces or concretises excludes the input that runs.
  Below these lie the arithmetic (the manual's quotient, by its two conditions, is the one that machine division computes, its
  overflow and the zero divisor included; bit by bit and byte by byte composition of words) and the devices (`ReadIs`,
  `WriteIs`: an access to the bus and the same access of the reference have the same outcome). Sums over the bits and bytes of
  a word are recursive functions; what the proofs need of them follows from the least counterexample
  (`Least`), not from an induction theorem. `ExponentsAssumption` states the law of exponents for the widths that occur,
  which the provers do not know; TLC evaluates it for the instance.

Only model-checked: everything that is liveness (`Termination`, `PendingIsServed`,
`StopCompletes`, `AcceptedIsSent`, `LockIsReleased`, `ForwardProgress`,
`MachineInterruptIsTaken`, `TimeoutArrives`, `PacketIsServed`), because
the prover does not handle fairness; and the decoder (`DecodeIsExact`, `CompressedIsFaithful`): its
tables are finite and closed, and TLC evaluates them for all half words and for every combination of the
fields that the switches and masks look at. What a recursive operator computes for every
input is out of the provers' reach and would be left to TLC.

## 5. Not modelled, and the plan

What is left, in this order:

1. `Slip`: encode and decode against each other across arbitrary splits of the input, and
   the growth of the buffer; composed with `AbstractUart`'s bursts (`stop_threads` posts `rxempty` once, and a SLIP
   input may have several bytes left to push).
2. The symbolic UART, the field format of symbolic inputs, DMI and `tlm_map.h`.
3. HiFive: GPIO edge detection with the server thread, SPI dispatch, the CAN controller's and
   the display's state machines.
4. The escape and checksum functions of the GDB packet library.

The MMU (`core/common/mmu.h`) is left out because no platform in the repository sets
`mmu.mem`: only the bare mode is reachable, and that is the identity.

Not planned: the option parsing and wiring of the platforms, the ELF loaders (sequential
start-up code without state that survives), the timing tables, the GDB packet grammar
(strings), terminal modes, and the test software of the repository.
